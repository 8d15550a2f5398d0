---------------------------- MODULE DspNodeProofs ----------------------------
(***************************************************************************)
(* Proofs about the tables and deep sleep, for every set of identifiers,   *)
(* every UriId and every number of slots: first DspNeg alone, then the     *)
(* whole node with requests at any time, then the node whose caller of     *)
(* dsp_power_enter_deep_sleep sees to it that no request is running and    *)
(* none arrives until the node is up again (~LateRequests): then deep      *)
(* sleep loses nothing, and the node implements ContractService.           *)
(***************************************************************************)
EXTENDS DspService, TLAPS

(* DspNeg.                                                                 *)

-----------------------------------------------------------------------------
(* Lemmas about the state machine and the table.                           *)

LEMMA NegMachine == \A s \in NegState, e \in NegEvent : dsp_neg_sm_next(s, e) \in NegState
  BY DEF NegState, NegEvent, NegTarget, dsp_neg_sm_next

LEMMA NegLaterFacts ==
    /\ \A s \in NegState : s \in NegLater[s] /\ NegLater[s] \subseteq NegState
    /\ \A s \in NegState, e \in NegEvent : dsp_neg_sm_next(s, e) \in NegLater[s]
    /\ \A r \in NegState : \A s \in NegLater[r] : NegLater[s] \subseteq NegLater[r]
  <1>1. \A s \in NegState, e \in NegEvent : dsp_neg_sm_next(s, e) \in NegLater[s]
    BY DEF NegState, NegEvent, NegTarget, NegTaken, dsp_neg_sm_next, NegLater
  <1>2. \A r \in NegState : \A s \in NegLater[r] : NegLater[s] \subseteq NegLater[r]
    BY DEF NegState, NegLater
  <1>3. \A s \in NegState : s \in NegLater[s] /\ NegLater[s] \subseteq NegState
    BY DEF NegState, NegLater
  <1>. QED  BY <1>1, <1>2, <1>3

(* A store to one field of a slot keeps the type of the table.             *)
LEMMA NegStore == ASSUME NEW t \in [NegSlot -> NegEntry], NEW i \in NegSlot
                  PROVE  /\ [t EXCEPT ![i].active = TRUE] \in [NegSlot -> NegEntry]
                         /\ \A s \in NegState :
                              /\ [t EXCEPT ![i].state = s] \in [NegSlot -> NegEntry]
                              /\ [t EXCEPT ![i].active = TRUE, ![i].state = s]
                                    \in [NegSlot -> NegEntry]
                         /\ \A p \in PidOrNone :
                              [t EXCEPT ![i].cpid = p] \in [NegSlot -> NegEntry]
  BY DEF NegEntry

(* So does taking an event.                                                *)
LEMMA NegApply == ASSUME negTable \in [NegSlot -> NegEntry], NEW i \in NegSlot,
                         NEW e \in NegEvent, dsp_neg_apply(i, e)
                  PROVE  negTable' \in [NegSlot -> NegEntry]
  <1>1. dsp_neg_sm_next(negTable[i].state, e) \in NegState
    BY NegMachine DEF NegEntry
  <1>2. negTable' = [negTable EXCEPT ![i].state = dsp_neg_sm_next(negTable[i].state, e)]
    BY DEF dsp_neg_apply
  <1>. QED  BY <1>1, <1>2, NegStore

-----------------------------------------------------------------------------
(* What a slot holds, what it may become - it is not freed, its state      *)
(* moves forward, its identifier is written once - and what a handler that *)
(* has ended leaves in it.                                                 *)
NegIs(e, s, p) == e.active /\ e.state = s /\ e.cpid = p
NegBlank(e) == e.active \/ (e.state = "INITIAL" /\ e.cpid = NoPid)
NegGrows(d, e) == d.active => /\ e.active
                              /\ e.state \in NegLater[d.state]
                              /\ d.cpid = NoPid \/ e.cpid = d.cpid
NegWhole(e) == e.active => e.cpid \in Pid /\ e.state \in {"OFFERED", "AGREED", "TERMINATED"}

(* What makes a table good, whose answers so far are T.  The slots in use  *)
(* are the first ones; an identifier that some slot holds has a first      *)
(* slot; and the answers stand.                                            *)
NegHolds(nt, p, i) == nt[i].active /\ nt[i].cpid = p

NegPacked(nt) == \A i, j \in NegSlot : j < i /\ nt[i].active => nt[j].active

NegHasFirst(nt) == \A p \in Pid, j \in NegSlot :
                      NegHolds(nt, p, j) => \E i \in NegSlot : FirstNeg(nt, p, i)

NegStand(T, nt) ==
    \A a \in T : a[2] \in NegState =>
        \E i \in NegSlot : FirstNeg(nt, a[1], i) /\ nt[i].state \in NegLater[a[2]]

NegGood(T, nt) == NegPacked(nt) /\ NegHasFirst(nt) /\ NegStand(T, nt)

Named(T) == \A a \in T : a[1] \in Pid

(* What a store does to a good table: to a state, the claim of a slot, and *)
(* the identifier of the last slot in use.                                 *)

LEMMA NegStateStep ==
    ASSUME NEW T, NEW nt \in [NegSlot -> NegEntry], NEW nu \in [NegSlot -> NegEntry],
           NegGood(T, nt), \A i \in NegSlot : NegGrows(nt[i], nu[i]),
           \A i \in NegSlot : nu[i].active = nt[i].active /\ nu[i].cpid = nt[i].cpid
    PROVE  /\ NegGood(T, nu)
           /\ \A p, i : i \in NegSlot => (FirstNeg(nu, p, i) <=> FirstNeg(nt, p, i))
  <1>1. \A p, i : i \in NegSlot => (FirstNeg(nu, p, i) <=> FirstNeg(nt, p, i))
    BY DEF FirstNeg
  <1>2. NegPacked(nu) /\ NegHasFirst(nu)
    BY <1>1 DEF NegGood, NegPacked, NegHasFirst, NegHolds
  <1>3. NegStand(T, nu)
    <2>. SUFFICES ASSUME NEW a \in T, a[2] \in NegState
                  PROVE  \E i \in NegSlot : /\ FirstNeg(nu, a[1], i)
                                            /\ nu[i].state \in NegLater[a[2]]
      BY DEF NegStand
    <2>1. PICK i \in NegSlot : FirstNeg(nt, a[1], i) /\ nt[i].state \in NegLater[a[2]]
      BY DEF NegGood, NegStand
    <2>2. nu[i].state \in NegLater[nt[i].state]
      BY <2>1 DEF FirstNeg, NegGrows
    <2>. QED  BY <1>1, <2>1, <2>2, NegLaterFacts
  <1>. QED  BY <1>1, <1>2, <1>3 DEF NegGood

LEMMA NegClaimStep ==
    ASSUME PidAssumption, NEW T, Named(T),
           NEW nt \in [NegSlot -> NegEntry], NEW nu \in [NegSlot -> NegEntry],
           NegGood(T, nt), NEW i \in NegSlot, \A j \in NegSlot \ {i} : nu[j] = nt[j],
           ~nt[i].active, \A j \in NegSlot : j < i => nt[j].active,
           NegIs(nu[i], "INITIAL", NoPid)
    PROVE  NegGood(T, nu) /\ \A j \in NegSlot : nu[j].active => j <= i
  <1>1. \A p \in Pid : \A j \in NegSlot : FirstNeg(nt, p, j) => FirstNeg(nu, p, j)
    BY DEF FirstNeg, NegIs, PidAssumption
  <1>2. NegPacked(nu) /\ \A j \in NegSlot : nu[j].active => j <= i
    <2>1. i \in Nat /\ \A j \in NegSlot : j \in Nat
      BY DEF NegSlot
    <2>2. \A j \in NegSlot : i < j => ~nt[j].active
      BY DEF NegGood, NegPacked
    <2>. QED  BY <2>1, <2>2 DEF NegGood, NegPacked, NegIs
  <1>3. NegHasFirst(nu)
    <2>1. \A p \in Pid, j \in NegSlot : NegHolds(nu, p, j) => NegHolds(nt, p, j)
      BY DEF NegHolds, NegIs, PidAssumption
    <2>. QED  BY <1>1, <2>1 DEF NegGood, NegHasFirst
  <1>4. NegStand(T, nu)
    <2>. SUFFICES ASSUME NEW a \in T, a[2] \in NegState
                  PROVE  \E j \in NegSlot : /\ FirstNeg(nu, a[1], j)
                                            /\ nu[j].state \in NegLater[a[2]]
      BY DEF NegStand
    <2>1. PICK j \in NegSlot : FirstNeg(nt, a[1], j) /\ nt[j].state \in NegLater[a[2]]
      BY DEF NegGood, NegStand
    <2>2. j # i /\ a[1] \in Pid
      BY <2>1 DEF FirstNeg, Named
    <2>. QED  BY <1>1, <2>1, <2>2
  <1>. QED  BY <1>2, <1>3, <1>4 DEF NegGood

LEMMA NegNameStep ==
    ASSUME PidAssumption, NEW T, Named(T),
           NEW nt \in [NegSlot -> NegEntry], NEW nu \in [NegSlot -> NegEntry],
           NegGood(T, nt), NEW i \in NegSlot, \A j \in NegSlot \ {i} : nu[j] = nt[j],
           \A j \in NegSlot : nt[j].active => j <= i,
           nt[i].active, nt[i].cpid = NoPid, NEW p \in Pid, nu[i].active, nu[i].cpid = p
    PROVE  NegGood(T, nu)
  <1>0. i \in Nat /\ \A j \in NegSlot : j \in Nat
    BY DEF NegSlot
  <1>1. ASSUME NEW q \in Pid, NEW j \in NegSlot, FirstNeg(nt, q, j)
        PROVE  j # i /\ FirstNeg(nu, q, j)
    <2>1. j # i /\ j <= i
      BY <1>1 DEF FirstNeg, PidAssumption
    <2>. QED  BY <1>0, <1>1, <2>1 DEF FirstNeg
  <1>2. NegPacked(nu)
    BY DEF NegGood, NegPacked
  <1>3. NegHasFirst(nu)
    <2>. SUFFICES ASSUME NEW q \in Pid, NEW j \in NegSlot, NegHolds(nu, q, j)
                  PROVE  \E k \in NegSlot : FirstNeg(nu, q, k)
      BY DEF NegHasFirst
    <2>1. CASE \E k \in NegSlot : NegHolds(nt, q, k)
      BY <1>1, <2>1 DEF NegGood, NegHasFirst
    <2>2. CASE \A k \in NegSlot : ~NegHolds(nt, q, k)
      <3>1. j = i
        BY <2>2 DEF NegHolds
      <3>2. FirstNeg(nu, q, i)
        BY <1>0, <2>2, <3>1 DEF NegHolds, FirstNeg
      <3>. QED  BY <3>2
    <2>. QED  BY <2>1, <2>2
  <1>4. NegStand(T, nu)
    <2>. SUFFICES ASSUME NEW a \in T, a[2] \in NegState
                  PROVE  \E j \in NegSlot : /\ FirstNeg(nu, a[1], j)
                                            /\ nu[j].state \in NegLater[a[2]]
      BY DEF NegStand
    <2>1. PICK j \in NegSlot : FirstNeg(nt, a[1], j) /\ nt[j].state \in NegLater[a[2]]
      BY DEF NegGood, NegStand
    <2>2. a[1] \in Pid
      BY DEF Named
    <2>. QED  BY <1>1, <2>1, <2>2
  <1>. QED  BY <1>2, <1>3, <1>4 DEF NegGood

(* An answer that the first slot of its identifier bears out stands.       *)
LEMMA NegTell ==
    ASSUME NEW T, NEW nt \in [NegSlot -> NegEntry], NegGood(T, nt),
           NEW p \in Pid, NEW s,
           \/ s \notin NegState
           \/ \E i \in NegSlot : FirstNeg(nt, p, i) /\ nt[i].state \in NegLater[s]
    PROVE  NegGood(T \cup {<<p, s>>}, nt)
  BY DEF NegGood, NegStand

-----------------------------------------------------------------------------
(* The invariant: a request is half done in one slot at most, the last in  *)
(* use, and the table is good.                                             *)

OfferPc == {"offer_state", "offer_pid", "offer_apply"}
Offering == httpd.pc \in OfferPc

NegHandled ==
    /\ At("offer_state") => NegIs(negTable[httpd.slot], "INITIAL", NoPid)
    /\ At("offer_pid")   => NegIs(negTable[httpd.slot], "REQUESTED", NoPid)
    /\ At("offer_apply") => NegIs(negTable[httpd.slot], "REQUESTED", httpd.pid)

NegTypes ==
    /\ negTable \in [NegSlot -> NegEntry]
    /\ httpd = Idle \/ (Offering /\ httpd \in [pc: OfferPc, pid: Pid, slot: NegSlot])
    /\ Named(told)

(* A module that is not initialised has no server, and an empty table.     *)
NegLife == /\ server = "off" => httpd = Idle
           /\ ~negReady => server = "off" /\ negTable = NegZero /\ told = {}

NegBusy == /\ \A i \in NegSlot : NegWhole(negTable[i]) \/ (Offering /\ i = httpd.slot)
           /\ Offering => \A j \in NegSlot : negTable[j].active => j <= httpd.slot

NegInv == /\ NegTypes /\ NegLife /\ NegHandled /\ NegBusy
          /\ \A i \in NegSlot : NegBlank(negTable[i])
          /\ NegGood(told, negTable)

LEMMA NegZeroGood == /\ NegZero \in [NegSlot -> NegEntry]
                     /\ \A i \in NegSlot : NegBlank(NegZero[i]) /\ ~NegZero[i].active
                     /\ NegGood({}, NegZero)
  <1>1. NegZero \in [NegSlot -> NegEntry] /\ \A i \in NegSlot : ~NegZero[i].active
    BY DEF NegZero, NegEntry, NegState, PidOrNone
  <1>. QED
    BY <1>1 DEF NegZero, NegBlank, NegGood, NegPacked, NegHasFirst, NegHolds, NegStand

(* What holds of a cleared table, before a start and after a stop.         *)
LEMMA NegCleared ==
    ASSUME NEW h, NEW nt, h = Idle, nt = NegZero
    PROVE  /\ h.pc \notin {"offer_state", "offer_pid", "offer_apply"}
           /\ nt \in [NegSlot -> NegEntry]
           /\ \A i \in NegSlot : NegBlank(nt[i]) /\ NegWhole(nt[i])
           /\ NegGood({}, nt)
           /\ Named({})
  BY NegZeroGood DEF NegWhole, Idle, Named

LEMMA NegFirst == NegInit => NegInv
  <1>. SUFFICES ASSUME NegInit PROVE NegInv
    OBVIOUS
  <1>1. httpd = Idle /\ negTable = NegZero /\ told = {} /\ server = "off"
    BY DEF NegInit
  <1>2. ~Offering /\ NegTypes
    BY <1>1, NegCleared DEF OfferPc, Offering, NegTypes
  <1>3. NegLife /\ NegHandled /\ NegBusy
    BY <1>1, <1>2, NegCleared DEF NegLife, NegHandled, NegBusy, OfferPc, Offering, At
  <1>. QED  BY <1>1, <1>2, <1>3, NegCleared DEF NegInv

(* The steps that leave the table alone, or clear it.                      *)
LEMMA NegOutside ==
    ASSUME NegInv, NegSetup \/ NegTeardown \/ NegServerStep PROVE NegInv'
  <1>1. CASE NegSetup \/ NegTeardown
    <2>1. httpd' = Idle /\ negTable' = NegZero /\ told' = {} /\ server' = "off"
      BY <1>1 DEF NegSetup, dsp_neg_init, NegTeardown, dsp_neg_deinit, NegInv, NegLife
    <2>2. ~Offering' /\ NegTypes'
      BY <2>1, NegCleared DEF OfferPc, Offering, NegTypes
    <2>3. NegLife' /\ NegHandled' /\ NegBusy'
      BY <2>1, <2>2, NegCleared DEF NegLife, NegHandled, NegBusy, OfferPc, Offering, At
    <2>. QED  BY <2>1, <2>2, <2>3, NegCleared DEF NegInv
  <1>2. CASE NegServerStep
    <2>1. UNCHANGED <<httpd, told, negTable, negReady>> /\ negReady
      BY <1>2 DEF NegServerStep, HttpStart, HttpStopRequest, HttpStopped, negVars
    <2>2. NegLife'
      BY <1>2, <2>1 DEF NegServerStep, HttpStart, HttpStopRequest, HttpStopped, NegInv, NegLife
    <2>3. NegTypes' /\ NegHandled' /\ NegBusy'
      BY <2>1 DEF NegInv, NegTypes, NegHandled, NegBusy, OfferPc, Offering, At
    <2>. QED  BY <2>1, <2>2, <2>3 DEF NegInv
  <1>. QED  BY <1>1, <1>2

(* A request that is answered in one step applies an event at most.        *)
LEMMA NegRequestInv ==
    ASSUME PidAssumption, NegInv, NegRequest
    PROVE  /\ NegInv'
           /\ \A i \in NegSlot : NegGrows(negTable[i], negTable'[i])
  <1>. DEFINE Grows == \A i \in NegSlot : NegGrows(negTable[i], negTable'[i])
  <1>1. /\ httpd = Idle /\ server = "on" /\ negReady
        /\ negTable \in [NegSlot -> NegEntry] /\ Named(told) /\ NegGood(told, negTable)
        /\ UNCHANGED <<server, negReady>>
    BY DEF NegRequest, OfferClaim, Agree, Terminate, NegGet, Ready, NegInv, NegLife, NegTypes, negVars
  <1>2. \A i \in NegSlot : NegWhole(negTable[i]) /\ NegBlank(negTable[i])
    BY <1>1 DEF NegInv, NegBusy, OfferPc, Offering, Idle
  <1>3. \A i \in NegSlot : NegGrows(negTable[i], negTable[i])
    BY <1>1, NegLaterFacts DEF NegGrows, NegEntry
  <1>4. ASSUME httpd' = Idle, negTable' \in [NegSlot -> NegEntry], Named(told'),
               NegGood(told', negTable'),
               \A i \in NegSlot : NegWhole(negTable'[i]) /\ NegBlank(negTable'[i])
        PROVE  NegInv'
    <2>1. ~Offering'
      BY <1>4 DEF OfferPc, Offering, Idle
    <2>2. NegTypes' /\ NegLife'
      BY <1>1, <1>4 DEF NegTypes, NegLife
    <2>3. NegHandled' /\ NegBusy'
      BY <1>4, <2>1 DEF NegHandled, NegBusy, OfferPc, Offering, At
    <2>. QED  BY <1>4, <2>2, <2>3 DEF NegInv
  <1>5. ASSUME NEW p \in Pid, OfferClaim(p) PROVE NegInv' /\ Grows
    <2>1. PICK i \in NegSlot : /\ FreeNeg(i)
                               /\ negTable' = [negTable EXCEPT ![i].active = TRUE]
                               /\ httpd' = [pc |-> "offer_state", pid |-> p, slot |-> i]
                               /\ told' = told
      BY <1>5 DEF OfferClaim
    <2>2. ~negTable[i].active /\ \A j \in NegSlot : j < i => negTable[j].active
      BY <2>1 DEF FreeNeg
    <2>3. \A j \in NegSlot \ {i} : negTable'[j] = negTable[j]
      BY <1>1, <2>1
    <2>4. NegIs(negTable'[i], "INITIAL", NoPid) /\ negTable' \in [NegSlot -> NegEntry]
      BY <1>1, <1>2, <2>1, <2>2, NegStore, SMTT(30) DEF NegBlank, NegIs, NegEntry
    <2>5. NegGood(told, negTable') /\ \A j \in NegSlot : negTable'[j].active => j <= i
      BY <1>1, <2>2, <2>3, <2>4, NegClaimStep
    <2>6. Offering' /\ NegTypes'
      BY <1>1, <2>1, <2>4 DEF OfferPc, Offering, NegTypes
    <2>7. NegLife' /\ NegHandled' /\ NegBusy'
      BY <1>1, <1>2, <2>1, <2>3, <2>4, <2>5, <2>6
      DEF NegLife, NegHandled, NegBusy, At
    <2>8. \A j \in NegSlot : NegBlank(negTable'[j])
      BY <1>2, <2>3, <2>4 DEF NegBlank, NegIs
    <2>9. Grows
      BY <1>3, <2>2, <2>3 DEF NegGrows
    <2>. QED  BY <2>1, <2>5, <2>6, <2>7, <2>8, <2>9 DEF NegInv
  <1>6. ASSUME NEW p \in Pid, NEW i \in NegSlot, NEW e \in {"AGREE", "TERMINATE"},
               FirstNeg(negTable, p, i), dsp_neg_apply(i, e), httpd' = Idle,
               \/ told' = told
               \/ /\ e = "AGREE" => dsp_neg_sm_next(negTable[i].state, e) = "AGREED"
                  /\ told' = told \cup {<<p, NegTarget[e]>>}
        PROVE  NegInv' /\ Grows
    <2>1. /\ \A j \in NegSlot \ {i} : negTable'[j] = negTable[j]
          /\ negTable[i].active
          /\ negTable'[i].active /\ negTable'[i].cpid = negTable[i].cpid
          /\ negTable'[i].state = dsp_neg_sm_next(negTable[i].state, e)
          /\ negTable' \in [NegSlot -> NegEntry]
      BY <1>1, <1>6, NegApply DEF dsp_neg_apply, FirstNeg, NegEntry, NegEvent, NegTarget
    <2>2. negTable[i].state \in {"OFFERED", "AGREED", "TERMINATED"} /\ negTable[i].cpid \in Pid
      BY <1>2, <2>1 DEF NegWhole
    <2>3. /\ negTable'[i].state \in {"AGREED", "TERMINATED"} \cap NegLater[negTable[i].state]
          /\ e = "TERMINATE" => negTable'[i].state = "TERMINATED"
      BY <1>6, <2>1, <2>2 DEF dsp_neg_sm_next, NegTaken, NegTarget, NegLater
    <2>4. \A j \in NegSlot : NegWhole(negTable'[j]) /\ NegBlank(negTable'[j])
      BY <1>2, <2>1, <2>2, <2>3 DEF NegWhole, NegBlank
    <2>5. Grows
      BY <1>3, <2>1, <2>3 DEF NegGrows
    <2>6. \A j \in NegSlot : /\ negTable'[j].active = negTable[j].active
                             /\ negTable'[j].cpid = negTable[j].cpid
      BY <1>1, <2>1 DEF NegEntry
    <2>7. NegGood(told, negTable') /\ FirstNeg(negTable', p, i)
      BY <1>1, <1>6, <2>1, <2>5, <2>6, NegStateStep
    <2>8. NegGood(told', negTable') /\ Named(told')
      <3>1. CASE told' = told
        BY <1>1, <2>7, <3>1
      <3>2. CASE told' # told
        <4>1. /\ told' = told \cup {<<p, NegTarget[e]>>}
              /\ negTable'[i].state = NegTarget[e] /\ NegTarget[e] \in NegLater[NegTarget[e]]
          BY <1>6, <2>1, <2>3, <3>2 DEF NegTarget, NegLater
        <4>2. NegGood(told \cup {<<p, NegTarget[e]>>}, negTable')
          BY <1>6, <2>1, <2>7, <4>1, NegTell
        <4>. QED  BY <1>1, <4>1, <4>2 DEF Named
      <3>. QED  BY <3>1, <3>2
    <2>. QED  BY <1>4, <1>6, <2>1, <2>4, <2>5, <2>8
  <1>7. ASSUME NEW p \in Pid, Agree(p) PROVE NegInv' /\ Grows
    <2>1. PICK i \in NegSlot :
              /\ FoundByPath(p, i) /\ dsp_neg_apply(i, "AGREE")
              /\ \/ AgreeAnswers200(i) /\ Tell(UriId[p], "AGREED")
                 \/ UNCHANGED <<httpd, told>>
      BY <1>7 DEF Agree
    <2>2. UriId[p] \in Pid /\ FirstNeg(negTable, UriId[p], i) /\ NegTarget["AGREE"] = "AGREED"
      BY <2>1 DEF FoundByPath, FoundNeg, PidAssumption, NegTarget
    <2>. QED  BY <1>1, <1>6, <2>1, <2>2 DEF AgreeAnswers200, Tell
  <1>8. ASSUME NEW p \in Pid, Terminate(p) PROVE NegInv' /\ Grows
    <2>1. PICK i \in NegSlot : FoundNeg(p, i) /\ dsp_neg_apply(i, "TERMINATE")
      BY <1>8 DEF Terminate
    <2>2. FirstNeg(negTable, p, i) /\ NegTarget["TERMINATE"] = "TERMINATED"
      BY <2>1 DEF FoundNeg, NegTarget
    <2>. QED  BY <1>6, <1>8, <2>1, <2>2 DEF Terminate, Tell
  <1>9. ASSUME NEW p \in Pid, NegGet(p) PROVE NegInv' /\ Grows
    <2>1. PICK i \in NegSlot : FoundByPath(p, i) /\ Tell(UriId[p], NegReported(i))
      BY <1>9 DEF NegGet
    <2>. DEFINE s == NegReported(i)
    <2>2. UriId[p] \in Pid /\ FirstNeg(negTable, UriId[p], i) /\ NegWhole(negTable[i])
          /\ negTable[i].active
      BY <1>2, <2>1 DEF FoundByPath, FoundNeg, FirstNeg, PidAssumption
    <2>3. s = negTable[i].state /\ s \in NegLater[s]
      BY <2>2 DEF NegReported, NegWhole, NegLater
    <2>. HIDE DEF s
    <2>4. told' = told \cup {<<UriId[p], s>>} /\ httpd' = Idle /\ negTable' = negTable
      BY <1>9, <2>1 DEF NegGet, negVars, Tell, s
    <2>5. NegGood(told', negTable)
      BY <1>1, <2>2, <2>3, <2>4, NegTell
    <2>6. Named(told')
      BY <1>1, <2>2, <2>4 DEF Named
    <2>. QED  BY <1>1, <1>2, <1>3, <1>4, <2>4, <2>5, <2>6
  <1>. QED  BY <1>5, <1>7, <1>8, <1>9 DEF NegRequest

(* The steps of a repeated or first offer.                                 *)
LEMMA NegContinueInv ==
    ASSUME PidAssumption, NegInv, NegContinue
    PROVE  /\ NegInv'
           /\ \A i \in NegSlot : NegGrows(negTable[i], negTable'[i])
  <1>. DEFINE i == httpd.slot
              Grows == \A j \in NegSlot : NegGrows(negTable[j], negTable'[j])
  <1>1. /\ Offering /\ httpd # Idle /\ i \in NegSlot /\ httpd.pid \in Pid
        /\ httpd \in [pc: OfferPc, pid: Pid, slot: NegSlot]
    BY DEF NegContinue, OfferState, OfferPid, OfferApply, At, OfferPc, Offering, Idle, NegInv, NegTypes
  <1>2. /\ negTable \in [NegSlot -> NegEntry] /\ Named(told) /\ NegGood(told, negTable)
        /\ server # "off" /\ negReady /\ UNCHANGED <<server, negReady>>
        /\ \A j \in NegSlot \ {i} : NegWhole(negTable[j])
        /\ \A j \in NegSlot : NegBlank(negTable[j])
        /\ \A j \in NegSlot : negTable[j].active => j <= i
    BY <1>1 DEF NegInv, NegTypes, NegLife, NegBusy, NegContinue, OfferState, OfferPid, OfferApply
  <1>3. \A j \in NegSlot : NegGrows(negTable[j], negTable[j])
    BY <1>2, NegLaterFacts DEF NegGrows, NegEntry
  <1>4. ASSUME \A j \in NegSlot \ {i} : negTable'[j] = negTable[j],
               negTable[i].active, negTable'[i].active, told' = told, NegGood(told, negTable'),
               negTable' \in [NegSlot -> NegEntry],
               NEW pc \in {"offer_pid", "offer_apply"}, httpd' = [httpd EXCEPT !.pc = pc],
               NegIs(negTable'[i], "REQUESTED", IF pc = "offer_pid" THEN NoPid ELSE httpd.pid)
        PROVE  NegInv'
    <2>1. httpd'.pc = pc /\ httpd'.slot = i /\ httpd'.pid = httpd.pid /\ Offering'
      BY <1>1, <1>4 DEF OfferPc, Offering
    <2>2. NegTypes'
      BY <1>1, <1>2, <1>4, <2>1 DEF NegTypes, OfferPc
    <2>. HIDE DEF i
    <2>3. NegLife' /\ NegHandled'
      BY <1>2, <1>4, <2>1 DEF NegLife, NegHandled, At
    <2>4. NegBusy' /\ \A j \in NegSlot : NegBlank(negTable'[j])
      BY <1>1, <1>2, <1>4, <2>1 DEF NegBusy, NegBlank
    <2>. QED  BY <1>4, <2>2, <2>3, <2>4 DEF NegInv
  <1>5. CASE OfferState
    <2>1. NegIs(negTable[i], "INITIAL", NoPid)
      BY <1>5 DEF OfferState, NegInv, NegHandled
    <2>2. /\ \A j \in NegSlot \ {i} : negTable'[j] = negTable[j]
          /\ NegIs(negTable'[i], "REQUESTED", NoPid)
          /\ negTable' \in [NegSlot -> NegEntry]
      BY <1>1, <1>2, <1>5, <2>1, NegStore DEF OfferState, NegIs, NegEntry, NegState
    <2>3. Grows
      BY <1>3, <2>1, <2>2 DEF NegGrows, NegIs, NegLater, NegState
    <2>4. \A j \in NegSlot : /\ negTable'[j].active = negTable[j].active
                             /\ negTable'[j].cpid = negTable[j].cpid
      BY <1>1, <1>2, <2>1, <2>2 DEF NegIs, NegEntry
    <2>5. NegGood(told, negTable')
      BY <1>2, <2>2, <2>3, <2>4, NegStateStep
    <2>. QED  BY <1>4, <1>5, <2>1, <2>2, <2>3, <2>5 DEF OfferState, Goto, NegIs
  <1>6. CASE OfferPid
    <2>1. NegIs(negTable[i], "REQUESTED", NoPid)
      BY <1>6 DEF OfferPid, NegInv, NegHandled
    <2>2. /\ \A j \in NegSlot \ {i} : negTable'[j] = negTable[j]
          /\ NegIs(negTable'[i], "REQUESTED", httpd.pid)
          /\ negTable' \in [NegSlot -> NegEntry]
      BY <1>1, <1>2, <1>6, <2>1, NegStore DEF OfferPid, NegIs, NegEntry, PidOrNone
    <2>3. Grows
      BY <1>3, <2>1, <2>2 DEF NegGrows, NegIs, NegLater, NegState
    <2>4. NegGood(told, negTable')
      BY <1>1, <1>2, <2>1, <2>2, NegNameStep DEF NegIs
    <2>. QED  BY <1>4, <1>6, <2>1, <2>2, <2>3, <2>4 DEF OfferPid, Goto, NegIs
  <1>7. CASE OfferApply
    <2>1. NegIs(negTable[i], "REQUESTED", httpd.pid)
      BY <1>7 DEF OfferApply, NegInv, NegHandled
    <2>2. dsp_neg_sm_next("REQUESTED", "OFFER") = "OFFERED"
      BY DEF dsp_neg_sm_next, NegTaken, NegTarget
    <2>3. /\ \A j \in NegSlot \ {i} : negTable'[j] = negTable[j]
          /\ NegIs(negTable'[i], "OFFERED", httpd.pid)
          /\ negTable' \in [NegSlot -> NegEntry]
      BY <1>1, <1>2, <1>7, <2>1, <2>2, NegApply
      DEF OfferApply, dsp_neg_apply, NegIs, NegEntry, NegEvent, NegTarget
    <2>4. Grows
      BY <1>3, <2>1, <2>3 DEF NegGrows, NegIs, NegLater, NegState
    <2>5. \A j \in NegSlot : /\ negTable'[j].active = negTable[j].active
                             /\ negTable'[j].cpid = negTable[j].cpid
      BY <1>1, <1>2, <2>1, <2>3 DEF NegIs, NegEntry
    <2>6. NegGood(told, negTable')
      BY <1>2, <2>3, <2>4, <2>5, NegStateStep
    <2>7. \A j \in NegSlot : NegWhole(negTable'[j]) /\ NegBlank(negTable'[j])
      BY <1>1, <1>2, <2>3 DEF NegWhole, NegBlank, NegIs
    <2>8. PICK k \in NegSlot : FirstNeg(negTable', httpd.pid, k)
      BY <1>1, <2>3, <2>6 DEF NegGood, NegHasFirst, NegHolds, NegIs
    <2>9. negTable'[k].state \in NegLater["OFFERED"]
      BY <2>7, <2>8 DEF NegWhole, FirstNeg, NegLater
    <2>10. told' = told \cup {<<httpd.pid, "OFFERED">>} /\ httpd' = Idle
      BY <1>7 DEF OfferApply, Tell
    <2>11. NegGood(told', negTable') /\ Named(told')
      <3>1. NegGood(told \cup {<<httpd.pid, "OFFERED">>}, negTable')
        BY <1>1, <2>3, <2>6, <2>8, <2>9, NegTell
      <3>. QED  BY <1>1, <1>2, <2>10, <3>1 DEF Named
    <2>12. ~Offering' /\ NegTypes' /\ NegLife'
      BY <1>2, <2>3, <2>10, <2>11 DEF OfferPc, Offering, Idle, NegTypes, NegLife
    <2>13. NegHandled' /\ NegBusy'
      BY <2>7, <2>12 DEF NegHandled, NegBusy, OfferPc, Offering, At
    <2>. QED  BY <2>4, <2>7, <2>11, <2>12, <2>13 DEF NegInv
  <1>. QED  BY <1>5, <1>6, <1>7 DEF NegContinue

LEMMA NegStep ==
    ASSUME PidAssumption, NegInv, [NegNext]_NegAllVars PROVE NegInv'
  <1>1. CASE UNCHANGED NegAllVars
    <2>1. NegTypes' /\ NegLife' /\ NegHandled' /\ NegBusy'
      BY <1>1 DEF NegAllVars, negVars, NegInv, NegTypes, NegLife, NegHandled, NegBusy, OfferPc, Offering, At
    <2>. QED  BY <1>1, <2>1 DEF NegAllVars, negVars, NegInv
  <1>. QED  BY <1>1, NegOutside, NegRequestInv, NegContinueInv DEF NegNext

(* A 2xx answer stands, whatever requests, stops and restarts follow and   *)
(* however many slots and identifiers there are (dsp_neg.c, its handlers). *)
THEOREM NegAnswersAlwaysStand == NegSpec => []NegAnswersStand
  <1>1. NegInv /\ [NegNext]_NegAllVars => NegInv'
    BY PidAssumption, NegStep
  <1>2. NegInv => NegAnswersStand
    BY DEF NegInv, NegGood, NegStand, NegAnswersStand, FoundNeg
  <1>. QED  BY NegFirst, <1>1, <1>2, PTL DEF NegSpec

(* Until the table is cleared no slot is taken from its negotiation, loses *)
(* its identifier or goes back a state (dsp_neg_create, dsp_neg_apply).    *)
THEOREM NegSlotsAlwaysKept == NegSpec => NegSlotsKept
  <1>1. NegInv /\ [NegNext]_NegAllVars => NegInv'
    BY PidAssumption, NegStep
  <1>2. ASSUME NegInv, [NegNext]_NegAllVars, negReady', NEW i \in NegSlot, negTable[i].active
        PROVE  /\ negTable'[i].active
               /\ negTable[i].cpid # NoPid => negTable'[i].cpid = negTable[i].cpid
               /\ negTable'[i].state \in NegLater[negTable[i].state]
    <2>1. CASE NegRequest \/ NegContinue
      BY <1>2, <2>1, PidAssumption, NegRequestInv, NegContinueInv DEF NegGrows
    <2>2. CASE NegSetup \/ NegTeardown
      BY <1>2, <2>2, NegZeroGood DEF NegSetup, dsp_neg_init, NegTeardown, dsp_neg_deinit,
                                     NegInv, NegLife
    <2>3. CASE NegServerStep \/ UNCHANGED NegAllVars
      <3>1. negTable' = negTable
        BY <2>3 DEF NegServerStep, NegAllVars, negVars
      <3>2. negTable[i].state \in NegState
        BY <1>2 DEF NegInv, NegTypes, NegEntry
      <3>. QED  BY <1>2, <3>1, <3>2, NegLaterFacts
    <2>. QED  BY <1>2, <2>1, <2>2, <2>3 DEF NegNext
  <1>3. NegInv /\ [NegNext]_NegAllVars =>
          [negReady' => \A i \in NegSlot : negTable[i].active =>
             /\ negTable'[i].active
             /\ negTable[i].cpid # NoPid => negTable'[i].cpid = negTable[i].cpid
             /\ negTable'[i].state \in NegLater[negTable[i].state]]_NegAllVars
    BY <1>2
  <1>. QED  BY NegFirst, <1>1, <1>3, PTL DEF NegSpec, NegSlotsKept

-----------------------------------------------------------------------------
(* DspPower: types, and the image against the tables.                     *)

(* What a program counter says of the slot and identifier beside it.       *)
SlotType ==
    /\ httpd.pc \in {"offer_state", "offer_pid", "offer_apply"} =>
          httpd.slot \in NegSlot /\ httpd.pid \in Pid
    /\ httpd.pc \in {"start_pid", "start_apply"} =>
          httpd.slot \in XferSlot /\ httpd.pid \in Pid
    /\ power.pc \in {"neg", "neg_pid"} => power.slot \in NegSlot
    /\ power.pc \in {"xfer", "xfer_pid"} => power.slot \in XferSlot

TypeInv == TypeOK /\ SlotType

-----------------------------------------------------------------------------
(* Lemmas about the state machines and the tables.                         *)

LEMMA Machines ==
    /\ \A s \in NegState, e \in NegEvent : dsp_neg_sm_next(s, e) \in NegState
    /\ \A s \in XferState, e \in {"START", "COMPLETE", "FAIL"} :
          dsp_xfer_sm_next(s, e) \in XferState
  BY NegMachine DEF XferState, XferTarget, dsp_xfer_sm_next

LEMMA Zeroes == ASSUME PidAssumption, NegAssumption, XferAssumption
                PROVE  /\ NegZero \in [NegSlot -> NegEntry]
                       /\ XferZero \in [XferSlot -> XferEntry]
                       /\ 0 \in NegSlot /\ 0 \in XferSlot
                       /\ NoPid \in PidOrNone /\ Pid \subseteq PidOrNone
                       /\ Idle \in [pc: HandlerPc, pid: PidOrNone,
                                    slot: NegSlot \cup XferSlot]
  BY DEF NegZero, NegEntry, NegState, NegSlot, XferZero, XferEntry, XferState, XferSlot,
         PidOrNone, NegAssumption, XferAssumption, Idle, HandlerPc

(* A store to one field of a slot keeps the type of the table.             *)
LEMMA XferStore == ASSUME NEW t \in [XferSlot -> XferEntry], NEW i \in XferSlot
                   PROVE  /\ \A s \in XferState :
                               /\ [t EXCEPT ![i].state = s] \in [XferSlot -> XferEntry]
                               /\ [t EXCEPT ![i].active = TRUE, ![i].state = s]
                                     \in [XferSlot -> XferEntry]
                          /\ \A p \in PidOrNone :
                               [t EXCEPT ![i].pid = p] \in [XferSlot -> XferEntry]
  BY DEF XferEntry

(* So does taking an event.                                                *)
LEMMA XferApply == ASSUME xferTable \in [XferSlot -> XferEntry], NEW i \in XferSlot,
                          NEW e \in {"START", "COMPLETE", "FAIL"}, dsp_xfer_apply(i, e)
                   PROVE  xferTable' \in [XferSlot -> XferEntry]
  <1>1. dsp_xfer_sm_next(xferTable[i].state, e) \in XferState
    BY Machines DEF XferEntry
  <1>2. xferTable' = [xferTable EXCEPT ![i].state = dsp_xfer_sm_next(xferTable[i].state, e)]
    BY DEF dsp_xfer_apply
  <1>. QED  BY <1>1, <1>2, XferStore

-----------------------------------------------------------------------------
(* Types *)

HttpType == [pc: HandlerPc, pid: PidOrNone, slot: NegSlot \cup XferSlot]
PowerType == [pc: PowerPc, slot: NegSlot \cup XferSlot]

LEMMA RequestTypes == ASSUME PidAssumption, NegAssumption, XferAssumption, PowerAssumption,
                             TypeInv, Serve
                      PROVE  TypeInv'
  <1>. USE Zeroes, Machines DEF TypeInv, TypeOK, SlotType, Serve, httpVars, rtcVars, negVars, xferVars, Tell
  <1>1. httpd = Idle
    BY DEF Request, NegRequest, XferRequest, OfferClaim, Agree, Terminate, NegGet,
           StartClaim, Complete, XferGet, Ready
  <1>2. ASSUME NEW p \in Pid, OfferClaim(p), UNCHANGED xferVars PROVE TypeInv'
    <2>1. PICK i \in NegSlot : /\ negTable' = [negTable EXCEPT ![i].active = TRUE]
                               /\ httpd' = [pc |-> "offer_state", pid |-> p, slot |-> i]
      BY <1>2 DEF OfferClaim
    <2>2. negTable' \in [NegSlot -> NegEntry]
      BY <2>1, NegStore
    <2>3. httpd' \in HttpType /\ httpd'.pc = "offer_state" /\ httpd'.slot = i /\ httpd'.pid = p
      BY <2>1 DEF HttpType, HandlerPc
    <2>. QED  BY <1>2, <2>2, <2>3 DEF OfferClaim, HttpType
  <1>3. ASSUME NEW p \in Pid, Agree(p), UNCHANGED xferVars PROVE TypeInv'
    <2>1. PICK i \in NegSlot :
              /\ FoundByPath(p, i)
              /\ dsp_neg_apply(i, "AGREE")
              /\ \/ Tell(UriId[p], "AGREED")
                 \/ UNCHANGED <<httpd, told>>
      BY <1>3 DEF Agree
    <2>2. UriId[p] \in Pid
      BY <2>1 DEF FoundByPath, PidAssumption
    <2>3. negTable' \in [NegSlot -> NegEntry]
      BY <2>1, NegApply DEF NegEvent, NegTarget
    <2>4. httpd' = Idle /\ told' \in SUBSET (Pid \X (NegState \cup XferState))
      BY <1>1, <2>1, <2>2 DEF NegState
    <2>. QED  BY <1>1, <1>3, <2>3, <2>4 DEF Agree
  <1>4. ASSUME NEW p \in Pid, Terminate(p), UNCHANGED xferVars PROVE TypeInv'
    <2>1. PICK i \in NegSlot : dsp_neg_apply(i, "TERMINATE")
      BY <1>4 DEF Terminate
    <2>2. negTable' \in [NegSlot -> NegEntry]
      BY <2>1, NegApply DEF NegEvent, NegTarget
    <2>3. httpd' = Idle /\ told' \in SUBSET (Pid \X (NegState \cup XferState))
      BY <1>4 DEF Terminate, NegState
    <2>. QED  BY <1>1, <1>4, <2>2, <2>3 DEF Terminate
  <1>5. ASSUME NEW p \in Pid, NegGet(p), UNCHANGED xferVars PROVE TypeInv'
    <2>1. PICK i \in NegSlot : FoundByPath(p, i) /\ Tell(UriId[p], NegReported(i))
      BY <1>5 DEF NegGet
    <2>2. UriId[p] \in Pid /\ NegReported(i) \in NegState
      BY <2>1 DEF FoundByPath, PidAssumption, NegReported, NegEntry, NegState
    <2>. QED  BY <1>1, <1>5, <2>1, <2>2 DEF NegGet
  <1>6. ASSUME NEW p \in Pid, StartClaim(p) PROVE TypeInv'
    <2>1. PICK i \in XferSlot :
              /\ xferTable' = [xferTable EXCEPT ![i].active = TRUE, ![i].state = "INITIAL"]
              /\ httpd' = [pc |-> "start_pid", pid |-> p, slot |-> i]
      BY <1>6 DEF StartClaim
    <2>2. "INITIAL" \in XferState /\ xferTable \in [XferSlot -> XferEntry]
      BY DEF XferState
    <2>3. xferTable' \in [XferSlot -> XferEntry]
      BY <2>1, <2>2, XferStore
    <2>4. httpd' \in HttpType /\ httpd'.pc = "start_pid" /\ httpd'.slot = i /\ httpd'.pid = p
      BY <2>1 DEF HttpType, HandlerPc
    <2>. QED  BY <1>6, <2>3, <2>4 DEF StartClaim, HttpType
  <1>7. ASSUME NEW p \in Pid, Complete(p) PROVE TypeInv'
    <2>1. PICK i \in XferSlot : XferByPath(p, i) /\ dsp_xfer_apply(i, "COMPLETE")
      BY <1>7 DEF Complete
    <2>2. xferTable' \in [XferSlot -> XferEntry]
      BY <2>1, XferApply
    <2>3. httpd' = Idle /\ told' \in SUBSET (Pid \X (NegState \cup XferState))
      BY <1>7, <2>1 DEF Complete, XferByPath, XferState, PidAssumption
    <2>. QED  BY <1>1, <1>7, <2>2, <2>3 DEF Complete
  <1>8. ASSUME NEW p \in Pid, XferGet(p) PROVE TypeInv'
    <2>1. PICK i \in XferSlot : XferByPath(p, i) /\ Tell(UriId[p], XferReported(i))
      BY <1>8 DEF XferGet
    <2>2. UriId[p] \in Pid /\ XferReported(i) \in XferState
      BY <2>1 DEF XferByPath, PidAssumption, XferReported, XferEntry, XferState
    <2>. QED  BY <1>1, <1>8, <2>1, <2>2 DEF XferGet
  <1>. QED
    BY <1>2, <1>3, <1>4, <1>5, <1>6, <1>7, <1>8 DEF Request, NegRequest, XferRequest

LEMMA ContinueTypes == ASSUME PidAssumption, NegAssumption, XferAssumption, PowerAssumption,
                              TypeInv, ServeOn
                       PROVE  TypeInv'
  <1>. USE Zeroes, Machines
       DEF TypeInv, TypeOK, SlotType, ServeOn, httpVars, rtcVars, negVars, xferVars, At, Goto, Tell
  <1>1. CASE OfferState /\ UNCHANGED xferVars
    <2>1. negTable' \in [NegSlot -> NegEntry]
      BY <1>1, NegStore DEF OfferState, NegState
    <2>2. httpd' \in HttpType /\ httpd'.pc = "offer_pid" /\ httpd'.slot = httpd.slot
          /\ httpd'.pid = httpd.pid
      BY <1>1 DEF OfferState, HttpType, HandlerPc
    <2>. QED  BY <1>1, <2>1, <2>2 DEF OfferState, HttpType
  <1>2. CASE OfferPid /\ UNCHANGED xferVars
    <2>1. negTable' \in [NegSlot -> NegEntry]
      BY <1>2 DEF OfferPid, NegEntry
    <2>2. httpd' \in HttpType /\ httpd'.pc = "offer_apply" /\ httpd'.slot = httpd.slot
          /\ httpd'.pid = httpd.pid
      BY <1>2 DEF OfferPid, HttpType, HandlerPc
    <2>. QED  BY <1>2, <2>1, <2>2 DEF OfferPid, HttpType
  <1>3. CASE OfferApply /\ UNCHANGED xferVars
    <2>1. negTable' \in [NegSlot -> NegEntry]
      BY <1>3, NegApply DEF OfferApply, NegEvent, NegTarget
    <2>2. httpd' = Idle /\ told' \in SUBSET (Pid \X (NegState \cup XferState))
      BY <1>3 DEF OfferApply, NegState
    <2>. QED  BY <1>3, <2>1, <2>2 DEF OfferApply, Idle
  <1>4. CASE StartPid
    <2>1. xferTable' \in [XferSlot -> XferEntry]
      BY <1>4 DEF StartPid, XferEntry
    <2>2. httpd' \in HttpType /\ httpd'.pc = "start_apply" /\ httpd'.slot = httpd.slot
          /\ httpd'.pid = httpd.pid
      BY <1>4 DEF StartPid, HttpType, HandlerPc
    <2>. QED  BY <1>4, <2>1, <2>2 DEF StartPid, HttpType
  <1>5. CASE StartApply
    <2>1. xferTable' \in [XferSlot -> XferEntry]
      BY <1>5, XferApply DEF StartApply
    <2>2. httpd' = Idle /\ told' \in SUBSET (Pid \X (NegState \cup XferState))
      BY <1>5 DEF StartApply, XferState
    <2>. QED  BY <1>5, <2>1, <2>2 DEF StartApply, Idle
  <1>. QED
    BY <1>1, <1>2, <1>3, <1>4, <1>5 DEF Continue, NegContinue, XferContinue

(* After a slot of the save loops: the next one, or the next loop.         *)
LEMMA NextSlotTypes ==
    ASSUME NegAssumption, XferAssumption, power \in PowerType
    PROVE  /\ power.slot \in NegSlot /\ NextSlot("neg", power.slot, NegMax, "xfer") =>
                /\ power' \in PowerType
                /\ \/ /\ power'.pc = "neg" /\ power'.slot = power.slot + 1
                      /\ power'.slot \in NegSlot
                   \/ /\ power'.pc = "xfer" /\ power'.slot = 0 /\ power'.slot \in XferSlot
                      /\ power.slot = NegMax - 1
           /\ power.slot \in XferSlot /\ NextSlot("xfer", power.slot, XferMax, "seal") =>
                /\ power' \in PowerType
                /\ \/ /\ power'.pc = "xfer" /\ power'.slot = power.slot + 1
                      /\ power'.slot \in XferSlot
                   \/ power'.pc = "seal" /\ power'.slot = 0 /\ power.slot = XferMax - 1
  BY DEF NegAssumption, XferAssumption, NextSlot, NegSlot, XferSlot, PowerType, PowerPc

LEMMA SaveTypes == ASSUME PidAssumption, NegAssumption, XferAssumption, PowerAssumption,
                          TypeInv, Save
                   PROVE  TypeInv'
  <1>. USE Zeroes DEF TypeInv, TypeOK, SlotType, Save, httpVars, negVars, xferVars,
                      PowerAt, PowerGoto
  <1>0. power \in PowerType
    BY DEF PowerType
  <1>1. CASE SaveNegState
    <2>1. CASE negTable[power.slot].active
      <3>1. /\ rtcNeg' = [rtcNeg EXCEPT ![power.slot].active = TRUE,
                                        ![power.slot].state = negTable[power.slot].state]
            /\ power' = [power EXCEPT !.pc = "neg_pid"] /\ power.slot \in NegSlot
        BY <1>1, <2>1 DEF SaveNegState
      <3>2. negTable[power.slot].state \in NegState
        BY <3>1 DEF NegEntry
      <3>3. rtcNeg' \in [NegSlot -> NegEntry]
        BY <3>1, <3>2, NegStore
      <3>4. power' \in PowerType /\ power'.pc = "neg_pid" /\ power'.slot = power.slot
        BY <1>0, <3>1 DEF PowerType, PowerPc
      <3>. QED  BY <1>1, <3>1, <3>3, <3>4 DEF SaveNegState, PowerType
    <2>2. CASE ~negTable[power.slot].active
      <3>1. NextSlot("neg", power.slot, NegMax, "xfer") /\ power.slot \in NegSlot
            /\ UNCHANGED rtcNeg
        BY <1>1, <2>2 DEF SaveNegState
      <3>2. /\ power' \in PowerType
            /\ \/ power'.pc = "neg" /\ power'.slot \in NegSlot
               \/ power'.pc = "xfer" /\ power'.slot \in XferSlot
        BY <1>0, <3>1, NextSlotTypes
      <3>. QED  BY <1>1, <3>1, <3>2 DEF SaveNegState, PowerType
    <2>. QED  BY <2>1, <2>2
  <1>2. CASE SaveNegPid
    <2>1. NextSlot("neg", power.slot, NegMax, "xfer") /\ power.slot \in NegSlot
      BY <1>2 DEF SaveNegPid
    <2>2. /\ power' \in PowerType
          /\ \/ power'.pc = "neg" /\ power'.slot \in NegSlot
             \/ power'.pc = "xfer" /\ power'.slot \in XferSlot
      BY <1>0, <2>1, NextSlotTypes
    <2>3. negTable[power.slot].cpid \in PidOrNone
      BY <2>1 DEF NegEntry
    <2>4. rtcNeg' \in [NegSlot -> NegEntry]
      BY <1>2, <2>1, <2>3, NegStore DEF SaveNegPid
    <2>. QED  BY <1>2, <2>2, <2>4 DEF SaveNegPid, PowerType
  <1>3. CASE SaveXferState
    <2>1. CASE xferTable[power.slot].active
      <3>1. /\ rtcXfer' = [rtcXfer EXCEPT ![power.slot].active = TRUE,
                                          ![power.slot].state = xferTable[power.slot].state]
            /\ power' = [power EXCEPT !.pc = "xfer_pid"] /\ power.slot \in XferSlot
        BY <1>3, <2>1 DEF SaveXferState
      <3>2. xferTable[power.slot].state \in XferState
        BY <3>1 DEF XferEntry
      <3>3. rtcXfer' \in [XferSlot -> XferEntry]
        BY <3>1, <3>2, XferStore
      <3>4. power' \in PowerType /\ power'.pc = "xfer_pid" /\ power'.slot = power.slot
        BY <1>0, <3>1 DEF PowerType, PowerPc
      <3>. QED  BY <1>3, <3>1, <3>3, <3>4 DEF SaveXferState, PowerType
    <2>2. CASE ~xferTable[power.slot].active
      <3>1. NextSlot("xfer", power.slot, XferMax, "seal") /\ power.slot \in XferSlot
            /\ UNCHANGED rtcXfer
        BY <1>3, <2>2 DEF SaveXferState
      <3>2. /\ power' \in PowerType
            /\ \/ power'.pc = "xfer" /\ power'.slot \in XferSlot
               \/ power'.pc = "seal"
        BY <1>0, <3>1, NextSlotTypes
      <3>. QED  BY <1>3, <3>1, <3>2 DEF SaveXferState, PowerType
    <2>. QED  BY <2>1, <2>2
  <1>4. CASE SaveXferPid
    <2>1. NextSlot("xfer", power.slot, XferMax, "seal") /\ power.slot \in XferSlot
      BY <1>4 DEF SaveXferPid
    <2>2. /\ power' \in PowerType
          /\ \/ power'.pc = "xfer" /\ power'.slot \in XferSlot
             \/ power'.pc = "seal"
      BY <1>0, <2>1, NextSlotTypes
    <2>3. xferTable[power.slot].pid \in PidOrNone
      BY <2>1 DEF XferEntry
    <2>4. rtcXfer' \in [XferSlot -> XferEntry]
      BY <1>4, <2>1, <2>3, XferStore DEF SaveXferPid
    <2>. QED  BY <1>4, <2>2, <2>4 DEF SaveXferPid, PowerType
  <1>5. CASE SaveSeal
    <2>1. rtcCrc' \in [NegSlot -> NegEntry] \X [XferSlot -> XferEntry]
      BY <1>5 DEF SaveSeal
    <2>2. power' = [pc |-> "stop", slot |-> 0]
      BY <1>5 DEF SaveSeal
    <2>3. power' \in PowerType /\ power'.pc = "stop"
      BY <2>2 DEF PowerType, PowerPc
    <2>. QED  BY <1>5, <2>1, <2>3 DEF SaveSeal, PowerType
  <1>. QED  BY <1>1, <1>2, <1>3, <1>4, <1>5 DEF SaveStep

LEMMA GotoTypes ==
    ASSUME NegAssumption, XferAssumption, NEW pc \in PowerPc, power' = [pc |-> pc, slot |-> 0],
           pc \notin {"neg_pid", "xfer_pid"}
    PROVE  /\ power' \in [pc: PowerPc, slot: NegSlot \cup XferSlot] /\ power'.pc = pc
           /\ power'.pc \in {"neg", "neg_pid"} => power'.slot \in NegSlot
           /\ power'.pc \in {"xfer", "xfer_pid"} => power'.slot \in XferSlot
  BY DEF NegAssumption, XferAssumption, NegSlot, XferSlot

LEMMA PowerTypes == ASSUME PidAssumption, NegAssumption, XferAssumption, PowerAssumption,
                           TypeInv, [Next]_vars
                    PROVE  TypeInv'
  <1>. USE Zeroes DEF TypeInv, TypeOK, SlotType, httpVars, negVars, xferVars, rtcVars,
                      PowerAt, PowerGoto
  <1>1. CASE Serve
    BY <1>1, RequestTypes
  <1>2. CASE ServeOn
    BY <1>2, ContinueTypes
  <1>3. CASE StartServer \/ ServerStopped \/ StopServer
    BY <1>3 DEF StartServer, ServerStopped, StopServer, HttpStart, HttpStopped, HttpStopRequest
  <1>4. CASE EnterDeepSleep
    <2>1. power' = [pc |-> "neg", slot |-> 0]
      BY <1>4 DEF EnterDeepSleep, SaveBegin
    <2>. QED  BY <1>4, <2>1, GotoTypes DEF EnterDeepSleep, SaveBegin, PowerPc
  <1>5. CASE Save
    BY <1>5, SaveTypes
  <1>6. CASE Sleep
    <2>1. power' = [pc |-> "asleep", slot |-> 0]
      BY <1>6 DEF Sleep
    <2>. QED  BY <1>6, <2>1, GotoTypes DEF Sleep, LoseRam, PowerPc, Idle
  <1>7. CASE InitModules
    <2>1. power' = [pc |-> "wake", slot |-> 0]
      BY <1>7 DEF InitModules
    <2>. QED  BY <1>7, <2>1, GotoTypes
              DEF InitModules, dsp_neg_init, dsp_xfer_init, PowerPc
  <1>8. CASE RestoreTables
    <2>1. power' = [pc |-> "serve", slot |-> 0]
      BY <1>8 DEF RestoreTables
    <2>2. negTable' \in [NegSlot -> NegEntry] /\ xferTable' \in [XferSlot -> XferEntry]
      BY <1>8 DEF RestoreTables, LoadSlots
    <2>. QED  BY <1>8, <2>1, <2>2, GotoTypes DEF RestoreTables, LoadSlots, PowerPc
  <1>9. CASE SkipRestore
    <2>1. power' = [pc |-> "up", slot |-> 0]
      BY <1>9 DEF SkipRestore
    <2>. QED  BY <1>9, <2>1, GotoTypes DEF SkipRestore, PowerPc
  <1>10. CASE ResumeServer
    <2>1. power' = [pc |-> "up", slot |-> 0]
      BY <1>10 DEF ResumeServer
    <2>. QED  BY <1>10, <2>1, GotoTypes DEF ResumeServer, HttpStart, PowerPc
  <1>11. CASE Wake
    <2>1. power' = [pc |-> "boot", slot |-> 0]
      BY <1>11 DEF Wake
    <2>. QED  BY <1>11, <2>1, GotoTypes DEF Wake, PowerPc
  <1>12. CASE Corrupt
    BY <1>12 DEF Corrupt
  <1>13. CASE Reset
    <2>1. power' = [pc |-> "boot", slot |-> 0]
      BY <1>13 DEF Reset
    <2>. QED  BY <1>13, <2>1, GotoTypes DEF Reset, LoseRam, PowerPc, Idle
  <1>14. CASE UNCHANGED vars
    BY <1>14 DEF vars
  <1>. QED
    BY <1>1, <1>2, <1>3, <1>4, <1>5, <1>6, <1>7, <1>8, <1>9, <1>10, <1>11, <1>12, <1>13,
       <1>14 DEF Next, ServerNext, PowerNext

LEMMA TypeInvariant == Spec => []TypeInv
  <1>. USE PidAssumption, NegAssumption, XferAssumption, PowerAssumption
  <1>1. Init => TypeInv
    BY Zeroes DEF Init, TypeInv, TypeOK, SlotType, Idle, PowerPc, HandlerPc
  <1>. QED  BY <1>1, PowerTypes, PTL DEF Spec

(* Types hold for every set of identifiers and every number of slots, with *)
(* requests during the save or without.                                    *)
THEOREM TypeCorrect == Spec => []TypeOK
  <1>1. TypeInv => TypeOK
    BY DEF TypeInv
  <1>. QED  BY <1>1, TypeInvariant, PTL

-----------------------------------------------------------------------------
(* Slots. What the running handler has stored in its slot so far, and that *)
(* a slot that is not active has never been written.                       *)

XferIs(e, s, p) == e.active /\ e.state = s /\ e.pid = p

XferHandled ==
    /\ At("start_pid")   => XferIs(xferTable[httpd.slot], "INITIAL", NoPid)
    /\ At("start_apply") => XferIs(xferTable[httpd.slot], "INITIAL", httpd.pid)

XferBlank(e) == e.active \/ (e.state = "INITIAL" /\ e.pid = NoPid)

Blank == /\ \A i \in NegSlot : NegBlank(negTable[i])
         /\ \A i \in XferSlot : XferBlank(xferTable[i])

(* From the sleep to the end of the boot no handler runs.                  *)
Booting == power.pc \in {"asleep", "boot", "wake", "serve"}

BootInv == /\ Booting => server = "off" /\ httpd = Idle
           /\ PowerAt("wake") => negReady /\ xferReady
           /\ power.pc \in {"asleep", "boot", "wake"} =>
                 negTable = NegZero /\ xferTable = XferZero

SlotInv == NegHandled /\ XferHandled /\ Blank /\ BootInv

(* What a slot may become: it is not freed, its state moves forward, and   *)
(* its identifier is written once.                                         *)
XferGrows(d, e) == d.active => /\ e.active
                               /\ e.state \in XferLater[d.state]
                               /\ d.pid = NoPid \/ e.pid = d.pid

TablesGrow == /\ \A i \in NegSlot : NegGrows(negTable[i], negTable'[i])
              /\ \A i \in XferSlot : XferGrows(xferTable[i], xferTable'[i])

LEMMA LaterFacts ==
    /\ \A s \in NegState : s \in NegLater[s] /\ NegLater[s] \subseteq NegState
    /\ \A s \in NegState, e \in NegEvent : dsp_neg_sm_next(s, e) \in NegLater[s]
    /\ \A r \in NegState : \A s \in NegLater[r] : NegLater[s] \subseteq NegLater[r]
    /\ \A s \in XferState : s \in XferLater[s] /\ XferLater[s] \subseteq XferState
    /\ \A s \in XferState, e \in {"START", "COMPLETE", "FAIL"} :
          dsp_xfer_sm_next(s, e) \in XferLater[s]
    /\ \A r \in XferState : \A s \in XferLater[r] : XferLater[s] \subseteq XferLater[r]
  <1>1. \A s \in XferState, e \in {"START", "COMPLETE", "FAIL"} :
           dsp_xfer_sm_next(s, e) \in XferLater[s]
    BY DEF XferState, XferTarget, XferTaken, dsp_xfer_sm_next, XferLater
  <1>2. \A r \in XferState : \A s \in XferLater[r] : XferLater[s] \subseteq XferLater[r]
    BY DEF XferState, XferLater
  <1>3. \A s \in XferState : s \in XferLater[s] /\ XferLater[s] \subseteq XferState
    BY DEF XferState, XferLater
  <1>. QED  BY NegLaterFacts, <1>1, <1>2, <1>3

LEMMA RequestSlots == ASSUME PidAssumption, NegAssumption, XferAssumption, PowerAssumption,
                             TypeInv, SlotInv, Serve
                      PROVE  SlotInv' /\ TablesGrow
  <1>. USE DEF SlotInv, NegHandled, XferHandled, Blank, NegIs, XferIs, NegBlank, XferBlank, Booting, BootInv, Serve, Tell, At,
               PowerAt, rtcVars, negVars, xferVars
  <1>1. httpd = Idle /\ server = "on" /\ server' = "on" /\ negReady' = negReady
        /\ xferReady' = xferReady
    BY DEF Request, NegRequest, XferRequest, OfferClaim, Agree, Terminate, NegGet,
           StartClaim, Complete, XferGet, Ready
  <1>2. /\ negTable \in [NegSlot -> NegEntry] /\ xferTable \in [XferSlot -> XferEntry]
        /\ power.pc \in PowerPc
    BY DEF TypeInv, TypeOK
  <1>3. power' = power /\ ~Booting /\ ~Booting'
    BY <1>1
  <1>4. /\ \A i \in NegSlot : NegGrows(negTable[i], negTable[i])
        /\ \A i \in XferSlot : XferGrows(xferTable[i], xferTable[i])
    BY <1>2, LaterFacts DEF NegGrows, XferGrows, NegEntry, XferEntry
  <1>5. ASSUME NEW p \in Pid, OfferClaim(p), UNCHANGED xferVars
        PROVE  SlotInv' /\ TablesGrow
    <2>1. PICK i \in NegSlot : /\ FreeNeg(i)
                               /\ negTable' = [negTable EXCEPT ![i].active = TRUE]
                               /\ httpd' = [pc |-> "offer_state", pid |-> p, slot |-> i]
      BY <1>5 DEF OfferClaim
    <2>2. ~negTable[i].active /\ negTable[i].state = "INITIAL" /\ negTable[i].cpid = NoPid
      BY <2>1 DEF FreeNeg
    <2>3. /\ NegIs(negTable'[i], "INITIAL", NoPid)
          /\ \A j \in NegSlot \ {i} : negTable'[j] = negTable[j]
      BY <1>2, <2>1, <2>2
    <2>4. TablesGrow
      BY <1>4, <1>5, <2>2, <2>3 DEF TablesGrow, NegGrows
    <2>5. Blank'
      BY <1>5, <2>3
    <2>. QED  BY <1>1, <1>3, <2>1, <2>3, <2>4, <2>5
  <1>6. ASSUME NEW p \in Pid, Agree(p) \/ Terminate(p), UNCHANGED xferVars
        PROVE  SlotInv' /\ TablesGrow
    <2>1. PICK i \in NegSlot, e \in NegEvent : negTable[i].active /\ dsp_neg_apply(i, e)
      BY <1>6 DEF Agree, Terminate, FoundByPath, FoundNeg, FirstNeg, NegEvent, NegTarget
    <2>2. /\ negTable'[i] = [negTable[i] EXCEPT !.state = dsp_neg_sm_next(@, e)]
          /\ \A j \in NegSlot \ {i} : negTable'[j] = negTable[j]
      BY <1>2, <2>1 DEF dsp_neg_apply
    <2>3. /\ negTable'[i].active /\ negTable'[i].cpid = negTable[i].cpid
          /\ negTable'[i].state \in NegLater[negTable[i].state]
      BY <1>2, <2>1, <2>2, LaterFacts DEF NegEntry
    <2>4. TablesGrow
      BY <1>4, <1>6, <2>2, <2>3 DEF TablesGrow, NegGrows
    <2>5. Blank'
      BY <1>6, <2>2, <2>3, ZenonT(30)
    <2>6. httpd' = Idle
      BY <1>1, <1>6 DEF Agree, Terminate
    <2>. QED  BY <1>1, <1>3, <2>4, <2>5, <2>6 DEF Idle
  <1>7. ASSUME UNCHANGED <<negTable, xferTable>>, httpd' = Idle
        PROVE  SlotInv' /\ TablesGrow
    <2>1. TablesGrow
      BY <1>4, <1>7 DEF TablesGrow
    <2>. QED  BY <1>1, <1>3, <1>7, <2>1 DEF Idle
  <1>8. ASSUME NEW p \in Pid, StartClaim(p) PROVE SlotInv' /\ TablesGrow
    <2>1. PICK i \in XferSlot :
              /\ FreeXfer(i)
              /\ xferTable' = [xferTable EXCEPT ![i].active = TRUE, ![i].state = "INITIAL"]
              /\ httpd' = [pc |-> "start_pid", pid |-> p, slot |-> i]
      BY <1>8 DEF StartClaim
    <2>2. ~xferTable[i].active /\ xferTable[i].state = "INITIAL" /\ xferTable[i].pid = NoPid
      BY <2>1 DEF FreeXfer
    <2>3. /\ XferIs(xferTable'[i], "INITIAL", NoPid)
          /\ \A j \in XferSlot \ {i} : xferTable'[j] = xferTable[j]
      BY <1>2, <2>1, <2>2
    <2>4. TablesGrow
      BY <1>4, <1>8, <2>2, <2>3 DEF TablesGrow, XferGrows, StartClaim
    <2>5. Blank'
      BY <1>8, <2>3, ZenonT(30) DEF StartClaim
    <2>. QED  BY <1>1, <1>3, <2>1, <2>3, <2>4, <2>5
  <1>9. ASSUME NEW p \in Pid, Complete(p) PROVE SlotInv' /\ TablesGrow
    <2>1. PICK i \in XferSlot : xferTable[i].active /\ dsp_xfer_apply(i, "COMPLETE")
      BY <1>9 DEF Complete, XferByPath, FoundXfer, FirstXfer
    <2>2. /\ xferTable'[i] = [xferTable[i] EXCEPT !.state = dsp_xfer_sm_next(@, "COMPLETE")]
          /\ \A j \in XferSlot \ {i} : xferTable'[j] = xferTable[j]
      BY <1>2, <2>1 DEF dsp_xfer_apply
    <2>3. /\ xferTable'[i].active /\ xferTable'[i].pid = xferTable[i].pid
          /\ xferTable'[i].state \in XferLater[xferTable[i].state]
      BY <1>2, <2>1, <2>2, LaterFacts DEF XferEntry
    <2>4. TablesGrow
      BY <1>4, <1>9, <2>2, <2>3 DEF TablesGrow, XferGrows, Complete
    <2>5. Blank'
      <3>1. ASSUME NEW j \in XferSlot PROVE XferBlank(xferTable'[j])
        <4>1. CASE j = i
          BY <2>3, <4>1 DEF XferBlank
        <4>2. CASE j # i
          <5>1. xferTable'[j] = xferTable[j] /\ XferBlank(xferTable[j])
            BY <1>1, <2>2, <4>2 DEF Blank
          <5> QED
            BY <5>1
        <4> QED
          BY <4>1, <4>2
      <3>2. negTable' = negTable /\ \A j \in NegSlot : NegBlank(negTable[j])
        BY <1>1, <1>9 DEF Complete, Blank
      <3> QED
        BY <3>1, <3>2 DEF Blank
    <2>6. httpd' = Idle
      BY <1>9 DEF Complete
    <2>. QED  BY <1>1, <1>3, <2>4, <2>5, <2>6 DEF Idle
  <1>10. ASSUME NEW p \in Pid, (NegGet(p) /\ UNCHANGED xferVars) \/ XferGet(p)
         PROVE  UNCHANGED <<negTable, xferTable>> /\ httpd' = Idle
    BY <1>10 DEF NegGet, XferGet
  <1>. QED
    BY <1>5, <1>6, <1>7, <1>8, <1>9, <1>10 DEF Request, NegRequest, XferRequest

LEMMA ContinueSlots == ASSUME PidAssumption, NegAssumption, XferAssumption, PowerAssumption,
                              TypeInv, SlotInv, ServeOn
                       PROVE  SlotInv' /\ TablesGrow
  <1>. USE DEF SlotInv, NegHandled, XferHandled, Blank, NegIs, XferIs, NegBlank, XferBlank, Booting, BootInv, ServeOn, Tell, At,
               Goto, PowerAt, rtcVars, negVars, xferVars
  <1>1. httpd # Idle /\ negReady' = negReady /\ xferReady' = xferReady
    BY DEF Continue, NegContinue, XferContinue, OfferState, OfferPid, OfferApply, StartPid,
           StartApply, Idle
  <1>2. /\ negTable \in [NegSlot -> NegEntry] /\ xferTable \in [XferSlot -> XferEntry]
        /\ power.pc \in PowerPc /\ httpd \in HttpType
    BY DEF TypeInv, TypeOK, HttpType
  <1>3. power' = power /\ ~Booting /\ ~Booting'
    BY <1>1
  <1>4. /\ \A i \in NegSlot : NegGrows(negTable[i], negTable[i])
        /\ \A i \in XferSlot : XferGrows(xferTable[i], xferTable[i])
    BY <1>2, LaterFacts DEF NegGrows, XferGrows, NegEntry, XferEntry
  <1>5. CASE NegContinue /\ UNCHANGED xferVars
    <2>. DEFINE i == httpd.slot
    <2>1. httpd.pc \in {"offer_state", "offer_pid", "offer_apply"} /\ i \in NegSlot
          /\ httpd.pid \in Pid
      BY <1>5 DEF NegContinue, OfferState, OfferPid, OfferApply, TypeInv, SlotType
    <2>2. /\ \A j \in NegSlot \ {i} : negTable'[j] = negTable[j]
          /\ \/ /\ httpd'.pc = "offer_pid" /\ httpd'.pid = httpd.pid /\ httpd'.slot = i
                /\ negTable[i].state = "INITIAL" /\ negTable[i].cpid = NoPid
                /\ NegIs(negTable'[i], "REQUESTED", NoPid)
             \/ /\ httpd'.pc = "offer_apply" /\ httpd'.pid = httpd.pid /\ httpd'.slot = i
                /\ negTable[i].state = "REQUESTED" /\ negTable[i].cpid = NoPid
                /\ NegIs(negTable'[i], "REQUESTED", httpd.pid)
             \/ /\ httpd' = Idle /\ httpd'.pc = "idle"
                /\ negTable[i].state = "REQUESTED" /\ negTable[i].cpid = httpd.pid
                /\ NegIs(negTable'[i], "OFFERED", httpd.pid)
      <3>1. CASE OfferState
        BY <1>2, <2>1, <3>1 DEF OfferState, HttpType
      <3>2. CASE OfferPid
        BY <1>2, <2>1, <3>2 DEF OfferPid, HttpType
      <3>3. CASE OfferApply
        <4>1. dsp_neg_sm_next("REQUESTED", "OFFER") = "OFFERED"
          BY DEF dsp_neg_sm_next, NegTaken, NegTarget
        <4>. QED  BY <1>2, <2>1, <3>3, <4>1 DEF OfferApply, dsp_neg_apply, Idle
      <3>. QED  BY <1>5, <3>1, <3>2, <3>3 DEF NegContinue
    <2>. HIDE DEF i
    <2>3. NegGrows(negTable[i], negTable'[i])
      BY <2>2 DEF NegGrows, NegLater, NegState
    <2>4. TablesGrow
      BY <1>4, <1>5, <2>2, <2>3 DEF TablesGrow
    <2>5. Blank'
      BY <1>5, <2>1, <2>2
    <2>. QED  BY <1>3, <1>5, <2>1, <2>2, <2>4, <2>5
  <1>6. CASE XferContinue
    <2>. DEFINE i == httpd.slot
    <2>1. httpd.pc \in {"start_pid", "start_apply"} /\ i \in XferSlot /\ httpd.pid \in Pid
          /\ UNCHANGED negVars
      BY <1>6 DEF XferContinue, StartPid, StartApply, TypeInv, SlotType
    <2>2. /\ \A j \in XferSlot \ {i} : xferTable'[j] = xferTable[j]
          /\ \/ /\ httpd'.pc = "start_apply" /\ httpd'.pid = httpd.pid /\ httpd'.slot = i
                /\ xferTable[i].state = "INITIAL" /\ xferTable[i].pid = NoPid
                /\ XferIs(xferTable'[i], "INITIAL", httpd.pid)
             \/ /\ httpd' = Idle /\ httpd'.pc = "idle"
                /\ xferTable[i].state = "INITIAL" /\ xferTable[i].pid = httpd.pid
                /\ XferIs(xferTable'[i], "TRANSFERRING", httpd.pid)
      <3>1. CASE StartPid
        BY <1>2, <2>1, <3>1 DEF StartPid, HttpType
      <3>2. CASE StartApply
        <4>1. dsp_xfer_sm_next("INITIAL", "START") = "TRANSFERRING"
          BY DEF dsp_xfer_sm_next, XferTaken, XferTarget
        <4>. QED  BY <1>2, <2>1, <3>2, <4>1 DEF StartApply, dsp_xfer_apply, Idle
      <3>. QED  BY <1>6, <3>1, <3>2 DEF XferContinue
    <2>. HIDE DEF i
    <2>3. XferGrows(xferTable[i], xferTable'[i])
      BY <2>2 DEF XferGrows, XferLater, XferState
    <2>4. TablesGrow
      BY <1>4, <2>1, <2>2, <2>3 DEF TablesGrow
    <2>5. Blank'
      BY <2>1, <2>2
    <2>. QED  BY <1>3, <2>1, <2>2, <2>4, <2>5
  <1>. QED  BY <1>5, <1>6 DEF Continue

LEMMA NextSlots == ASSUME PidAssumption, NegAssumption, XferAssumption, PowerAssumption,
                          TypeInv, SlotInv, [Next]_vars
                   PROVE  SlotInv'
  <1>1. CASE Serve
    BY <1>1, RequestSlots
  <1>2. CASE ServeOn
    BY <1>2, ContinueSlots
  <1>. USE DEF SlotInv, NegHandled, XferHandled, Blank, BootInv, Booting, NegIs, XferIs,
               NegBlank, XferBlank, At, PowerAt, PowerGoto, httpVars, rtcVars, negVars,
               xferVars
  <1>3. ASSUME UNCHANGED <<httpd, negVars, xferVars>>, ~Booting'
        PROVE  SlotInv'
    BY <1>3
  <1>4. CASE StartServer \/ ServerStopped \/ StopServer
    BY <1>3, <1>4 DEF StartServer, ServerStopped, StopServer, HttpStart, HttpStopped,
                      HttpStopRequest
  <1>5. CASE EnterDeepSleep
    BY <1>3, <1>5 DEF EnterDeepSleep, SaveBegin
  <1>6. CASE Save
    <2>1. power \in PowerType
      BY DEF TypeInv, TypeOK, PowerType
    <2>2. power'.pc \in {"neg", "neg_pid", "xfer", "xfer_pid", "seal", "stop"}
      BY <1>6, <2>1 DEF Save, SaveStep, SaveNegState, SaveNegPid, SaveXferState, SaveXferPid,
                        SaveSeal, NextSlot, PowerType
    <2>. QED  BY <1>3, <1>6, <2>2 DEF Save
  <1>7. ASSUME httpd' = Idle, negTable' = NegZero, xferTable' = XferZero, server' = "off",
               power'.pc # "wake"
        PROVE  SlotInv'
    BY <1>7 DEF Idle, NegZero, XferZero
  <1>8. CASE Sleep
    BY <1>7, <1>8 DEF Sleep, LoseRam
  <1>9. CASE InitModules
    BY <1>9 DEF InitModules, dsp_neg_init, dsp_xfer_init, Idle, NegZero, XferZero
  <1>10. CASE RestoreTables
    <2>1. httpd' = Idle /\ server' = "off" /\ power'.pc = "serve"
          /\ negTable = NegZero /\ xferTable = XferZero
      BY <1>10 DEF RestoreTables
    <2>2. /\ \A i \in NegSlot : \/ rtcNeg[i].active /\ negTable'[i] = rtcNeg[i]
                                \/ negTable'[i] = negTable[i]
          /\ \A i \in XferSlot : \/ rtcXfer[i].active /\ xferTable'[i] = rtcXfer[i]
                                 \/ xferTable'[i] = xferTable[i]
      BY <1>10 DEF RestoreTables, LoadSlots
    <2>3. Blank'
      BY <2>2
    <2>. QED  BY <2>1, <2>3 DEF Idle
  <1>11. CASE SkipRestore
    BY <1>3, <1>11 DEF SkipRestore
  <1>12. CASE ResumeServer
    BY <1>3, <1>12 DEF ResumeServer, HttpStart
  <1>13. CASE Wake
    BY <1>7, <1>13 DEF Wake
  <1>14. CASE Corrupt
    BY <1>7, <1>14 DEF Corrupt
  <1>15. CASE Reset
    BY <1>7, <1>15 DEF Reset, LoseRam
  <1>16. CASE UNCHANGED vars
    BY <1>16 DEF vars
  <1>. QED
    BY <1>1, <1>2, <1>4, <1>5, <1>6, <1>8, <1>9, <1>10, <1>11, <1>12, <1>13, <1>14, <1>15,
       <1>16 DEF Next, ServerNext, PowerNext

LEMMA SlotInvariant == Spec => []SlotInv
  <1>. USE PidAssumption, NegAssumption, XferAssumption, PowerAssumption
  <1>1. Init => SlotInv
    BY DEF Init, SlotInv, NegHandled, XferHandled, Blank, BootInv, Booting, NegBlank,
           XferBlank, At, PowerAt, Idle, NegZero, XferZero
  <1>. QED  BY <1>1, NextSlots, TypeInvariant, PTL DEF Spec

-----------------------------------------------------------------------------
(* The image during the save, with requests running. A slot of the image   *)
(* that the save has not come to is blank.                                 *)

Saving == power.pc \in {"neg", "neg_pid", "xfer", "xfer_pid", "seal", "stop"}

ImageInv == /\ ImageNotAhead
            /\ Saving =>
                  /\ \A i \in NegSlot : NegBlank(rtcNeg[i])
                  /\ \A i \in XferSlot : XferBlank(rtcXfer[i])
            /\ PowerAt("neg_pid") => rtcNeg[power.slot].active
            /\ PowerAt("xfer_pid") => rtcXfer[power.slot].active

(* One slot: what the image says of it, and the slot.                      *)
NegBehind(r, e) == r.active => /\ e.active
                               /\ e.state \in NegLater[r.state]
                               /\ r.cpid \in {NoPid, e.cpid}

XferBehind(r, e) == r.active => /\ e.active
                                /\ e.state \in XferLater[r.state]
                                /\ r.pid \in {NoPid, e.pid}

LEMMA ImageBehind ==
    ImageNotAhead <=> (Saving => /\ \A i \in NegSlot : NegBehind(rtcNeg[i], negTable[i])
                                 /\ \A i \in XferSlot : XferBehind(rtcXfer[i], xferTable[i]))
  BY DEF ImageNotAhead, Saving, NegBehind, XferBehind

LEMMA BehindGrows ==
    /\ \A r, d, e \in NegEntry : NegBehind(r, d) /\ NegGrows(d, e) => NegBehind(r, e)
    /\ \A r, d, e \in XferEntry : XferBehind(r, d) /\ XferGrows(d, e) => XferBehind(r, e)
  <1>1. ASSUME NEW r \in NegEntry, NEW d \in NegEntry, NEW e \in NegEntry,
               NegBehind(r, d), NegGrows(d, e), r.active
        PROVE  e.active /\ e.state \in NegLater[r.state] /\ r.cpid \in {NoPid, e.cpid}
    <2>1. d.active /\ e.active /\ r.state \in NegState /\ d.state \in NegLater[r.state]
          /\ e.state \in NegLater[d.state]
      BY <1>1 DEF NegBehind, NegGrows, NegEntry
    <2>2. e.state \in NegLater[r.state]
      BY <2>1, LaterFacts
    <2>3. r.cpid \in {NoPid, e.cpid}
      BY <1>1, <2>1 DEF NegBehind, NegGrows
    <2>. QED  BY <2>1, <2>2, <2>3
  <1>2. ASSUME NEW r \in XferEntry, NEW d \in XferEntry, NEW e \in XferEntry,
               XferBehind(r, d), XferGrows(d, e), r.active
        PROVE  e.active /\ e.state \in XferLater[r.state] /\ r.pid \in {NoPid, e.pid}
    <2>1. d.active /\ e.active /\ r.state \in XferState /\ d.state \in XferLater[r.state]
          /\ e.state \in XferLater[d.state]
      BY <1>2 DEF XferBehind, XferGrows, XferEntry
    <2>2. e.state \in XferLater[r.state]
      BY <2>1, LaterFacts
    <2>3. r.pid \in {NoPid, e.pid}
      BY <1>2, <2>1 DEF XferBehind, XferGrows
    <2>. QED  BY <2>1, <2>2, <2>3
  <1>. QED  BY <1>1, <1>2 DEF NegBehind, XferBehind

LEMMA SaveImage == ASSUME PidAssumption, NegAssumption, XferAssumption, PowerAssumption,
                          TypeInv, SlotInv, ImageInv, Save
                   PROVE  ImageInv'
  <1>. USE DEF Save, PowerAt, PowerGoto
  <1>1. /\ negTable \in [NegSlot -> NegEntry] /\ xferTable \in [XferSlot -> XferEntry]
        /\ rtcNeg \in [NegSlot -> NegEntry] /\ rtcXfer \in [XferSlot -> XferEntry]
        /\ power \in PowerType /\ negTable' = negTable /\ xferTable' = xferTable
    BY DEF TypeInv, TypeOK, PowerType, negVars, xferVars
  <1>2. /\ Saving
        /\ \A i \in NegSlot : NegBehind(rtcNeg[i], negTable[i]) /\ NegBlank(rtcNeg[i])
        /\ \A i \in XferSlot : XferBehind(rtcXfer[i], xferTable[i]) /\ XferBlank(rtcXfer[i])
        /\ PowerAt("neg_pid") => rtcNeg[power.slot].active
        /\ PowerAt("xfer_pid") => rtcXfer[power.slot].active
    BY ImageBehind DEF ImageInv, SaveStep, SaveNegState, SaveNegPid, SaveXferState,
                       SaveXferPid, SaveSeal, Saving
  <1>3. ASSUME Saving' => /\ \A i \in NegSlot : NegBehind(rtcNeg'[i], negTable[i])
                                                /\ NegBlank(rtcNeg'[i])
                          /\ \A i \in XferSlot : XferBehind(rtcXfer'[i], xferTable[i])
                                                 /\ XferBlank(rtcXfer'[i]),
               PowerAt("neg_pid")' => rtcNeg'[power'.slot].active,
               PowerAt("xfer_pid")' => rtcXfer'[power'.slot].active
        PROVE  ImageInv'
    BY <1>1, <1>3 DEF ImageInv, ImageNotAhead, Saving, NegBehind, XferBehind
  <1>4. CASE SaveNegState
    <2>. DEFINE i == power.slot
    <2>1. i \in NegSlot /\ rtcXfer' = rtcXfer
      BY <1>4 DEF SaveNegState, TypeInv, SlotType
    <2>2. CASE negTable[i].active
      <3>1. /\ rtcNeg'[i].active /\ rtcNeg'[i].state = negTable[i].state
            /\ rtcNeg'[i].cpid = rtcNeg[i].cpid
            /\ \A j \in NegSlot \ {i} : rtcNeg'[j] = rtcNeg[j]
            /\ power'.pc = "neg_pid" /\ power'.slot = i
        BY <1>1, <1>4, <2>1, <2>2 DEF SaveNegState, NegEntry, PowerType
      <3>2. rtcNeg[i].cpid \in {NoPid, negTable[i].cpid}
        BY <1>2, <2>1 DEF NegBehind, NegBlank
      <3>3. negTable[i].state \in NegLater[negTable[i].state]
        BY <1>1, <2>1, LaterFacts DEF NegEntry
      <3>4. NegBehind(rtcNeg'[i], negTable[i]) /\ NegBlank(rtcNeg'[i])
        BY <2>2, <3>1, <3>2, <3>3 DEF NegBehind, NegBlank
      <3>. HIDE DEF i
      <3>. QED  BY <1>2, <1>3, <2>1, <3>1, <3>4
    <2>3. CASE ~negTable[i].active
      <3>1. rtcNeg' = rtcNeg /\ power'.pc \in {"neg", "xfer"}
        BY <1>1, <1>4, <2>1, <2>3 DEF SaveNegState, NextSlot
      <3>. QED  BY <1>2, <1>3, <2>1, <3>1
    <2>. QED  BY <2>2, <2>3
  <1>5. CASE SaveNegPid
    <2>. DEFINE i == power.slot
    <2>1. i \in NegSlot /\ rtcXfer' = rtcXfer /\ power'.pc \in {"neg", "xfer"}
      BY <1>1, <1>5 DEF SaveNegPid, TypeInv, SlotType, NextSlot
    <2>2. /\ rtcNeg'[i].active = rtcNeg[i].active /\ rtcNeg'[i].state = rtcNeg[i].state
          /\ rtcNeg'[i].cpid = negTable[i].cpid /\ rtcNeg[i].active
          /\ \A j \in NegSlot \ {i} : rtcNeg'[j] = rtcNeg[j]
      BY <1>1, <1>2, <1>5, <2>1 DEF SaveNegPid, NegEntry
    <2>3. NegBehind(rtcNeg'[i], negTable[i]) /\ NegBlank(rtcNeg'[i])
      BY <1>2, <2>1, <2>2 DEF NegBehind, NegBlank
    <2>. HIDE DEF i
    <2>. QED  BY <1>2, <1>3, <2>1, <2>2, <2>3
  <1>6. CASE SaveXferState
    <2>. DEFINE i == power.slot
    <2>1. i \in XferSlot /\ rtcNeg' = rtcNeg
      BY <1>6 DEF SaveXferState, TypeInv, SlotType
    <2>2. CASE xferTable[i].active
      <3>1. /\ rtcXfer'[i].active /\ rtcXfer'[i].state = xferTable[i].state
            /\ rtcXfer'[i].pid = rtcXfer[i].pid
            /\ \A j \in XferSlot \ {i} : rtcXfer'[j] = rtcXfer[j]
            /\ power'.pc = "xfer_pid" /\ power'.slot = i
        BY <1>1, <1>6, <2>1, <2>2 DEF SaveXferState, XferEntry, PowerType
      <3>2. rtcXfer[i].pid \in {NoPid, xferTable[i].pid}
        BY <1>2, <2>1 DEF XferBehind, XferBlank
      <3>3. xferTable[i].state \in XferLater[xferTable[i].state]
        BY <1>1, <2>1, LaterFacts DEF XferEntry
      <3>4. XferBehind(rtcXfer'[i], xferTable[i]) /\ XferBlank(rtcXfer'[i])
        BY <2>2, <3>1, <3>2, <3>3 DEF XferBehind, XferBlank
      <3>. HIDE DEF i
      <3>. QED  BY <1>2, <1>3, <2>1, <3>1, <3>4
    <2>3. CASE ~xferTable[i].active
      <3>1. rtcXfer' = rtcXfer /\ power'.pc \in {"xfer", "seal"}
        BY <1>1, <1>6, <2>1, <2>3 DEF SaveXferState, NextSlot
      <3>. QED  BY <1>2, <1>3, <2>1, <3>1
    <2>. QED  BY <2>2, <2>3
  <1>7. CASE SaveXferPid
    <2>. DEFINE i == power.slot
    <2>1. i \in XferSlot /\ rtcNeg' = rtcNeg /\ power'.pc \in {"xfer", "seal"}
      BY <1>1, <1>7 DEF SaveXferPid, TypeInv, SlotType, NextSlot
    <2>2. /\ rtcXfer'[i].active = rtcXfer[i].active /\ rtcXfer'[i].state = rtcXfer[i].state
          /\ rtcXfer'[i].pid = xferTable[i].pid /\ rtcXfer[i].active
          /\ \A j \in XferSlot \ {i} : rtcXfer'[j] = rtcXfer[j]
      BY <1>1, <1>2, <1>7, <2>1 DEF SaveXferPid, XferEntry
    <2>3. XferBehind(rtcXfer'[i], xferTable[i]) /\ XferBlank(rtcXfer'[i])
      BY <1>2, <2>1, <2>2 DEF XferBehind, XferBlank
    <2>. HIDE DEF i
    <2>. QED  BY <1>2, <1>3, <2>1, <2>2, <2>3
  <1>8. CASE SaveSeal
    <2>1. rtcNeg' = rtcNeg /\ rtcXfer' = rtcXfer /\ power'.pc = "stop"
      BY <1>8 DEF SaveSeal
    <2>. QED  BY <1>2, <1>3, <2>1
  <1>. QED  BY <1>4, <1>5, <1>6, <1>7, <1>8 DEF SaveStep

LEMMA NextImage == ASSUME PidAssumption, NegAssumption, XferAssumption, PowerAssumption,
                          TypeInv, TypeInv', SlotInv, ImageInv, [Next]_vars
                   PROVE  ImageInv'
  <1>1. CASE Save
    BY <1>1, SaveImage
  <1>2. CASE Serve \/ ServeOn
    <2>1. TablesGrow /\ UNCHANGED <<rtcVars, power>>
      BY <1>2, RequestSlots, ContinueSlots DEF Serve, ServeOn
    <2>2. CASE ~Saving
      BY <2>1, <2>2 DEF Saving, ImageInv, ImageNotAhead, PowerAt
    <2>3. CASE Saving
      <3>1. /\ \A i \in NegSlot : NegBehind(rtcNeg[i], negTable[i])
            /\ \A i \in XferSlot : XferBehind(rtcXfer[i], xferTable[i])
        BY <2>3, ImageBehind DEF ImageInv
      <3>2. /\ \A i \in NegSlot : rtcNeg[i] \in NegEntry /\ negTable[i] \in NegEntry
                                  /\ negTable'[i] \in NegEntry
            /\ \A i \in XferSlot : rtcXfer[i] \in XferEntry /\ xferTable[i] \in XferEntry
                                   /\ xferTable'[i] \in XferEntry
        BY DEF TypeInv, TypeOK
      <3>3. /\ \A i \in NegSlot : NegBehind(rtcNeg[i], negTable'[i])
            /\ \A i \in XferSlot : XferBehind(rtcXfer[i], xferTable'[i])
        BY <2>1, <3>1, <3>2, BehindGrows DEF TablesGrow
      <3>4. ImageNotAhead'
        BY <2>1, <3>3 DEF ImageNotAhead, NegBehind, XferBehind, rtcVars
      <3>. QED  BY <2>1, <3>4 DEF ImageInv, Saving, PowerAt, rtcVars
    <2>. QED  BY <2>2, <2>3
  <1>3. CASE EnterDeepSleep
    <2>1. rtcNeg' = NegZero /\ rtcXfer' = XferZero /\ power'.pc = "neg"
      BY <1>3 DEF EnterDeepSleep, SaveBegin, PowerGoto
    <2>. QED  BY <2>1 DEF ImageInv, ImageNotAhead, NegBlank, XferBlank, NegZero, XferZero,
                          PowerAt
  <1>4. CASE StartServer \/ ServerStopped \/ StopServer \/ UNCHANGED vars
    <2>1. UNCHANGED <<negTable, xferTable, rtcNeg, rtcXfer, power>>
      BY <1>4 DEF StartServer, ServerStopped, StopServer, vars, negVars, xferVars, rtcVars
    <2>. QED  BY <2>1 DEF ImageInv, ImageNotAhead, Saving, PowerAt
  <1>5. CASE Sleep \/ InitModules \/ RestoreTables \/ SkipRestore \/ ResumeServer \/ Wake
             \/ Corrupt \/ Reset
    <2>1. power'.pc \in {"asleep", "wake", "serve", "up", "boot"}
      BY <1>5 DEF Sleep, InitModules, RestoreTables, SkipRestore, ResumeServer, Wake,
                  Corrupt, Reset, PowerAt, PowerGoto
    <2>. QED  BY <2>1 DEF ImageInv, ImageNotAhead, Saving, PowerAt
  <1>. QED
    BY <1>1, <1>2, <1>3, <1>4, <1>5 DEF Next, ServerNext, PowerNext

(* Whatever requests run during dsp_rtc_state_save, and for any number of  *)
(* slots, the image in RTC memory never claims more than the tables.       *)
THEOREM ImageNeverAhead == Spec => []ImageNotAhead
  <1>. USE PidAssumption, NegAssumption, XferAssumption, PowerAssumption
  <1>1. Init => ImageInv
    BY DEF Init, ImageInv, ImageNotAhead, Saving, PowerAt
  <1>2. ImageInv => ImageNotAhead
    BY DEF ImageInv
  <1>. QED  BY <1>1, <1>2, NextImage, TypeInvariant, SlotInvariant, PTL DEF Spec

-----------------------------------------------------------------------------
(* DspPower with ~LateRequests.                                           *)

(* What makes a table of transfers good, as NegGood one of negotiations.   *)
XferHolds(xt, p, i) == xt[i].active /\ xt[i].pid = p

XferPacked(xt) == \A i, j \in XferSlot : j < i /\ xt[i].active => xt[j].active

XferHasFirst(xt) == \A p \in Pid, j \in XferSlot :
                       XferHolds(xt, p, j) => \E i \in XferSlot : FirstXfer(xt, p, i)

XferStand(T, xt) ==
    \A a \in T : a[2] \in XferState =>
        \E i \in XferSlot : FirstXfer(xt, a[1], i) /\ xt[i].state \in XferLater[a[2]]

XferGood(T, xt) == XferPacked(xt) /\ XferHasFirst(xt) /\ XferStand(T, xt)

Told == SUBSET (Pid \X (NegState \cup XferState))

-----------------------------------------------------------------------------
(* What a store does to a good table: to a state, the claim of a slot, and *)
(* the identifier of the last slot in use.                                 *)

LEMMA XferStateStep ==
    ASSUME NEW T \in Told, NEW xt \in [XferSlot -> XferEntry], NEW xu \in [XferSlot -> XferEntry],
           XferGood(T, xt), \A i \in XferSlot : XferGrows(xt[i], xu[i]),
           \A i \in XferSlot : xu[i].active = xt[i].active /\ xu[i].pid = xt[i].pid
    PROVE  /\ XferGood(T, xu)
           /\ \A p, i : i \in XferSlot => (FirstXfer(xu, p, i) <=> FirstXfer(xt, p, i))
  <1>1. \A p, i : i \in XferSlot => (FirstXfer(xu, p, i) <=> FirstXfer(xt, p, i))
    BY DEF FirstXfer
  <1>2. XferPacked(xu) /\ XferHasFirst(xu)
    BY <1>1 DEF XferGood, XferPacked, XferHasFirst, XferHolds
  <1>3. XferStand(T, xu)
    <2>. SUFFICES ASSUME NEW a \in T, a[2] \in XferState
                  PROVE  \E i \in XferSlot : /\ FirstXfer(xu, a[1], i)
                                             /\ xu[i].state \in XferLater[a[2]]
      BY DEF XferStand
    <2>1. PICK i \in XferSlot : FirstXfer(xt, a[1], i) /\ xt[i].state \in XferLater[a[2]]
      BY DEF XferGood, XferStand
    <2>2. xu[i].state \in XferLater[xt[i].state]
      BY <2>1 DEF FirstXfer, XferGrows
    <2>. QED  BY <1>1, <2>1, <2>2, LaterFacts
  <1>. QED  BY <1>1, <1>2, <1>3 DEF XferGood

LEMMA XferClaimStep ==
    ASSUME PidAssumption,
           NEW T \in Told, NEW xt \in [XferSlot -> XferEntry], NEW xu \in [XferSlot -> XferEntry],
           XferGood(T, xt), NEW i \in XferSlot, \A j \in XferSlot \ {i} : xu[j] = xt[j],
           ~xt[i].active, \A j \in XferSlot : j < i => xt[j].active,
           XferIs(xu[i], "INITIAL", NoPid)
    PROVE  XferGood(T, xu) /\ \A j \in XferSlot : xu[j].active => j <= i
  <1>1. \A p \in Pid : \A j \in XferSlot : FirstXfer(xt, p, j) => FirstXfer(xu, p, j)
    BY DEF FirstXfer, XferIs, PidAssumption
  <1>2. XferPacked(xu) /\ \A j \in XferSlot : xu[j].active => j <= i
    <2>1. i \in Nat /\ \A j \in XferSlot : j \in Nat
      BY DEF XferSlot
    <2>2. \A j \in XferSlot : i < j => ~xt[j].active
      BY DEF XferGood, XferPacked
    <2>. QED  BY <2>1, <2>2 DEF XferGood, XferPacked, XferIs
  <1>3. XferHasFirst(xu)
    <2>1. \A p \in Pid, j \in XferSlot : XferHolds(xu, p, j) => XferHolds(xt, p, j)
      BY DEF XferHolds, XferIs, PidAssumption
    <2>. QED  BY <1>1, <2>1 DEF XferGood, XferHasFirst
  <1>4. XferStand(T, xu)
    <2>. SUFFICES ASSUME NEW a \in T, a[2] \in XferState
                  PROVE  \E j \in XferSlot : /\ FirstXfer(xu, a[1], j)
                                             /\ xu[j].state \in XferLater[a[2]]
      BY DEF XferStand
    <2>1. PICK j \in XferSlot : FirstXfer(xt, a[1], j) /\ xt[j].state \in XferLater[a[2]]
      BY DEF XferGood, XferStand
    <2>2. j # i /\ a[1] \in Pid
      BY <2>1 DEF FirstXfer, Told
    <2>. QED  BY <1>1, <2>1, <2>2
  <1>. QED  BY <1>2, <1>3, <1>4 DEF XferGood

LEMMA XferNameStep ==
    ASSUME PidAssumption,
           NEW T \in Told, NEW xt \in [XferSlot -> XferEntry], NEW xu \in [XferSlot -> XferEntry],
           XferGood(T, xt), NEW i \in XferSlot, \A j \in XferSlot \ {i} : xu[j] = xt[j],
           \A j \in XferSlot : xt[j].active => j <= i,
           xt[i].active, xt[i].pid = NoPid, NEW p \in Pid, xu[i].active, xu[i].pid = p
    PROVE  XferGood(T, xu)
  <1>0. i \in Nat /\ \A j \in XferSlot : j \in Nat
    BY DEF XferSlot
  <1>1. ASSUME NEW q \in Pid, NEW j \in XferSlot, FirstXfer(xt, q, j)
        PROVE  j # i /\ FirstXfer(xu, q, j)
    <2>1. j # i /\ j <= i
      BY <1>1 DEF FirstXfer, PidAssumption
    <2>. QED  BY <1>0, <1>1, <2>1 DEF FirstXfer
  <1>2. XferPacked(xu)
    BY DEF XferGood, XferPacked
  <1>3. XferHasFirst(xu)
    <2>. SUFFICES ASSUME NEW q \in Pid, NEW j \in XferSlot, XferHolds(xu, q, j)
                  PROVE  \E k \in XferSlot : FirstXfer(xu, q, k)
      BY DEF XferHasFirst
    <2>1. CASE \E k \in XferSlot : XferHolds(xt, q, k)
      BY <1>1, <2>1 DEF XferGood, XferHasFirst
    <2>2. CASE \A k \in XferSlot : ~XferHolds(xt, q, k)
      <3>1. j = i
        BY <2>2 DEF XferHolds
      <3>2. FirstXfer(xu, q, i)
        BY <1>0, <2>2, <3>1 DEF XferHolds, FirstXfer
      <3>. QED  BY <3>2
    <2>. QED  BY <2>1, <2>2
  <1>4. XferStand(T, xu)
    <2>. SUFFICES ASSUME NEW a \in T, a[2] \in XferState
                  PROVE  \E j \in XferSlot : /\ FirstXfer(xu, a[1], j)
                                             /\ xu[j].state \in XferLater[a[2]]
      BY DEF XferStand
    <2>1. PICK j \in XferSlot : FirstXfer(xt, a[1], j) /\ xt[j].state \in XferLater[a[2]]
      BY DEF XferGood, XferStand
    <2>2. a[1] \in Pid
      BY DEF Told
    <2>. QED  BY <1>1, <2>1, <2>2
  <1>. QED  BY <1>2, <1>3, <1>4 DEF XferGood

LEMMA XferTell ==
    ASSUME NEW T \in Told, NEW xt \in [XferSlot -> XferEntry], XferGood(T, xt),
           NEW p \in Pid, NEW s \in NegState \cup XferState,
           \/ s \notin XferState
           \/ \E i \in XferSlot : FirstXfer(xt, p, i) /\ xt[i].state \in XferLater[s]
    PROVE  XferGood(T \cup {<<p, s>>}, xt)
  BY DEF XferGood, XferStand

-----------------------------------------------------------------------------
(* Transfers and the negotiations behind them.                             *)

AgreedFor(nt, p) ==
    \E n \in NegSlot : nt[n].active /\ nt[n].cpid = p /\ nt[n].state \in WasAgreed

Backed(nt, xt) ==
    \A x \in XferSlot :
        xt[x].active /\ xt[x].state # "INITIAL" => AgreedFor(nt, xt[x].pid)

LEMMA AgreedGrows ==
    ASSUME PidAssumption,
           NEW nt \in [NegSlot -> NegEntry], NEW nu \in [NegSlot -> NegEntry],
           \A i \in NegSlot : NegGrows(nt[i], nu[i])
    PROVE  \A p \in Pid : AgreedFor(nt, p) => AgreedFor(nu, p)
  <1>. SUFFICES ASSUME NEW p \in Pid, AgreedFor(nt, p) PROVE AgreedFor(nu, p)
    OBVIOUS
  <1>1. PICK n \in NegSlot : nt[n].active /\ nt[n].cpid = p /\ nt[n].state \in WasAgreed
    BY DEF AgreedFor
  <1>2. nu[n].active /\ nu[n].state \in NegLater[nt[n].state] /\ nu[n].cpid = p
    BY <1>1 DEF NegGrows, PidAssumption
  <1>3. nu[n].state \in WasAgreed
    BY <1>1, <1>2 DEF WasAgreed, NegLater
  <1>. QED  BY <1>2, <1>3 DEF AgreedFor

-----------------------------------------------------------------------------
(* The tables in RAM. What a handler that has ended leaves in its slot:    *)

XferWhole(e) == e.active => e.pid \in Pid /\ e.state \in {"TRANSFERRING", "COMPLETED"}

Starting == httpd.pc \in {"start_pid", "start_apply"}

Good(nt, xt) == NegGood(told, nt) /\ XferGood(told, xt) /\ Backed(nt, xt)

(* The tables are good, and whole but for the slot of the handler that     *)
(* runs, which is the last one in use.                                     *)
Busy == /\ \A i \in NegSlot : NegWhole(negTable[i]) \/ (Offering /\ i = httpd.slot)
        /\ \A i \in XferSlot : XferWhole(xferTable[i]) \/ (Starting /\ i = httpd.slot)
        /\ Offering => \A j \in NegSlot : negTable[j].active => j <= httpd.slot
        /\ Starting => /\ \A j \in XferSlot : xferTable[j].active => j <= httpd.slot
                       /\ AgreedFor(negTable, httpd.pid)

RamGood == Good(negTable, xferTable) /\ Busy

LEMMA QuietRequest ==
    ASSUME PidAssumption, NegAssumption, XferAssumption, PowerAssumption,
           TypeInv, TypeInv', SlotInv, RamGood, Serve
    PROVE  RamGood'
  <1>. USE DEF Serve, Tell, RamGood, Good
  <1>1. httpd = Idle
    BY DEF Request, NegRequest, XferRequest, OfferClaim, Agree, Terminate, NegGet,
           StartClaim, Complete, XferGet, Ready
  <1>2. /\ \A i \in NegSlot : NegWhole(negTable[i])
        /\ \A i \in XferSlot : XferWhole(xferTable[i])
    BY <1>1 DEF Busy, OfferPc, Offering, Starting, Idle
  <1>3. /\ negTable \in [NegSlot -> NegEntry] /\ negTable' \in [NegSlot -> NegEntry]
        /\ xferTable \in [XferSlot -> XferEntry] /\ xferTable' \in [XferSlot -> XferEntry]
        /\ told \in Told /\ told' \in Told /\ Named(told)
        /\ NegGood(told, negTable) /\ XferGood(told, xferTable) /\ Backed(negTable, xferTable)
    BY DEF TypeInv, TypeOK, Told, Named
  <1>4. TablesGrow
    BY RequestSlots
  <1>5. \A p \in Pid : AgreedFor(negTable, p) => AgreedFor(negTable', p)
    BY <1>3, <1>4, AgreedGrows DEF TablesGrow
  <1>6. ASSUME xferTable' = xferTable
        PROVE  Backed(negTable', xferTable')
    BY <1>2, <1>3, <1>5, <1>6 DEF Backed, XferWhole
  <1>7. ASSUME httpd' = Idle,
               \A i \in NegSlot : NegWhole(negTable'[i]),
               \A i \in XferSlot : XferWhole(xferTable'[i])
        PROVE  Busy'
    BY <1>7 DEF Busy, OfferPc, Offering, Starting, Idle
  <1>8. ASSUME NEW p \in Pid, OfferClaim(p), UNCHANGED xferVars PROVE RamGood'
    <2>1. PICK i \in NegSlot : /\ FreeNeg(i)
                               /\ negTable' = [negTable EXCEPT ![i].active = TRUE]
                               /\ httpd' = [pc |-> "offer_state", pid |-> p, slot |-> i]
                               /\ told' = told /\ xferTable' = xferTable
      BY <1>8 DEF OfferClaim, xferVars
    <2>2. ~negTable[i].active /\ \A j \in NegSlot : j < i => negTable[j].active
      BY <2>1 DEF FreeNeg
    <2>3. \A j \in NegSlot \ {i} : negTable'[j] = negTable[j]
      BY <1>3, <2>1
    <2>4. NegIs(negTable'[i], "INITIAL", NoPid)
      BY <1>3, <2>1, <2>2 DEF SlotInv, Blank, NegBlank, NegIs, NegEntry
    <2>5. NegGood(told, negTable') /\ \A j \in NegSlot : negTable'[j].active => j <= i
      BY <1>3, <2>2, <2>3, <2>4, NegClaimStep
    <2>6. Busy'
      BY <1>2, <2>1, <2>3, <2>5 DEF Busy, OfferPc, Offering, Starting
    <2>. QED  BY <1>3, <1>6, <2>1, <2>5, <2>6
  <1>9. ASSUME NEW p \in Pid, NEW i \in NegSlot, NEW e \in {"AGREE", "TERMINATE"},
               negTable[i].active, dsp_neg_apply(i, e), xferTable' = xferTable, httpd' = Idle,
               \/ told' = told
               \/ /\ FirstNeg(negTable, p, i)
                  /\ \/ e = "AGREE" /\ dsp_neg_sm_next(negTable[i].state, e) = "AGREED"
                     \/ e = "TERMINATE"
                  /\ told' = told \cup {<<p, NegTarget[e]>>}
        PROVE  RamGood'
    <2>1. /\ \A j \in NegSlot \ {i} : negTable'[j] = negTable[j]
          /\ negTable'[i].active /\ negTable'[i].cpid = negTable[i].cpid
          /\ negTable'[i].state = dsp_neg_sm_next(negTable[i].state, e)
      BY <1>3, <1>9 DEF dsp_neg_apply, NegEntry
    <2>2. negTable[i].state \in {"OFFERED", "AGREED", "TERMINATED"} /\ negTable[i].cpid \in Pid
      BY <1>2, <1>9 DEF NegWhole
    <2>3. /\ negTable'[i].state \in {"AGREED", "TERMINATED"}
          /\ e = "TERMINATE" => negTable'[i].state = "TERMINATED"
      BY <1>9, <2>1, <2>2 DEF dsp_neg_sm_next, NegTaken, NegTarget
    <2>4. \A j \in NegSlot : NegWhole(negTable'[j])
      BY <1>2, <2>1, <2>2, <2>3 DEF NegWhole
    <2>5. /\ NegGood(told, negTable')
          /\ \A q, j : j \in NegSlot => (FirstNeg(negTable', q, j) <=> FirstNeg(negTable, q, j))
      <3>1. \A j \in NegSlot : /\ negTable'[j].active = negTable[j].active
                               /\ negTable'[j].cpid = negTable[j].cpid
        BY <1>3, <1>9, <2>1 DEF NegEntry
      <3>. QED  BY <1>3, <1>4, <3>1, NegStateStep DEF TablesGrow
    <2>6. NegGood(told', negTable') /\ XferGood(told', xferTable')
      <3>1. CASE told' = told
        BY <1>3, <1>9, <2>5, <3>1
      <3>2. CASE told' # told
        <4>. DEFINE s == NegTarget[e]
        <4>1. /\ told' = told \cup {<<p, s>>} /\ s \in NegState /\ s \notin XferState
              /\ negTable'[i].state = s /\ s \in NegLater[s] /\ FirstNeg(negTable', p, i)
          BY <1>9, <2>1, <2>3, <2>5, <3>2 DEF NegTarget, NegState, XferState, NegLater
        <4>. HIDE DEF s
        <4>2. NegGood(told \cup {<<p, s>>}, negTable')
          BY <1>3, <2>5, <4>1, NegTell
        <4>3. XferGood(told \cup {<<p, s>>}, xferTable)
          BY <1>3, <4>1, XferTell
        <4>. QED  BY <1>9, <4>1, <4>2, <4>3
      <3>. QED  BY <3>1, <3>2
    <2>. QED  BY <1>2, <1>6, <1>7, <1>9, <2>4, <2>6
  <1>10. ASSUME NEW p \in Pid, Agree(p), UNCHANGED xferVars PROVE RamGood'
    <2>1. PICK i \in NegSlot :
              /\ FoundByPath(p, i) /\ dsp_neg_apply(i, "AGREE")
              /\ \/ AgreeAnswers200(i) /\ Tell(UriId[p], "AGREED")
                 \/ UNCHANGED <<httpd, told>>
      BY <1>10 DEF Agree
    <2>2. UriId[p] \in Pid /\ negTable[i].active /\ FirstNeg(negTable, UriId[p], i)
      BY <2>1 DEF FoundByPath, FoundNeg, FirstNeg, PidAssumption
    <2>3. NegTarget["AGREE"] = "AGREED"
      BY DEF NegTarget
    <2>. QED  BY <1>1, <1>9, <1>10, <2>1, <2>2, <2>3 DEF AgreeAnswers200, xferVars
  <1>11. ASSUME NEW p \in Pid, Terminate(p), UNCHANGED xferVars PROVE RamGood'
    <2>1. PICK i \in NegSlot : FoundNeg(p, i) /\ dsp_neg_apply(i, "TERMINATE")
      BY <1>11 DEF Terminate
    <2>2. negTable[i].active /\ FirstNeg(negTable, p, i)
      BY <2>1 DEF FoundNeg, FirstNeg
    <2>3. NegTarget["TERMINATE"] = "TERMINATED"
      BY DEF NegTarget
    <2>. QED  BY <1>9, <1>11, <2>1, <2>2, <2>3 DEF Terminate, xferVars
  <1>12. ASSUME NEW p \in Pid, NegGet(p), UNCHANGED xferVars PROVE RamGood'
    <2>1. PICK i \in NegSlot : FoundByPath(p, i) /\ Tell(UriId[p], NegReported(i))
      BY <1>12 DEF NegGet
    <2>. DEFINE s == NegReported(i)
    <2>2. UriId[p] \in Pid /\ FirstNeg(negTable, UriId[p], i) /\ NegWhole(negTable[i])
          /\ negTable[i].active
      BY <1>2, <2>1 DEF FoundByPath, FoundNeg, FirstNeg, PidAssumption
    <2>3. s = negTable[i].state /\ s \in NegState /\ s \notin XferState /\ s \in NegLater[s]
      BY <2>2 DEF NegReported, NegWhole, NegState, XferState, NegLater
    <2>. HIDE DEF s
    <2>4. told' = told \cup {<<UriId[p], s>>} /\ httpd' = Idle
          /\ negTable' = negTable /\ xferTable' = xferTable
      BY <1>12, <2>1 DEF NegGet, negVars, xferVars, s
    <2>5. NegGood(told', negTable)
      BY <1>3, <2>2, <2>3, <2>4, NegTell
    <2>6. XferGood(told', xferTable)
      BY <1>3, <2>2, <2>3, <2>4, XferTell
    <2>. QED  BY <1>2, <1>3, <1>7, <2>4, <2>5, <2>6
  <1>13. ASSUME NEW p \in Pid, StartClaim(p) PROVE RamGood'
    <2>1. PICK i \in XferSlot :
              /\ FreeXfer(i)
              /\ xferTable' = [xferTable EXCEPT ![i].active = TRUE, ![i].state = "INITIAL"]
              /\ httpd' = [pc |-> "start_pid", pid |-> p, slot |-> i]
              /\ told' = told /\ negTable' = negTable
      BY <1>13 DEF StartClaim, negVars
    <2>2. ~xferTable[i].active /\ \A j \in XferSlot : j < i => xferTable[j].active
      BY <2>1 DEF FreeXfer
    <2>3. \A j \in XferSlot \ {i} : xferTable'[j] = xferTable[j]
      BY <1>3, <2>1
    <2>4. XferIs(xferTable'[i], "INITIAL", NoPid)
      BY <1>3, <2>1, <2>2 DEF SlotInv, Blank, XferBlank, XferIs, XferEntry
    <2>5. XferGood(told, xferTable') /\ \A j \in XferSlot : xferTable'[j].active => j <= i
      BY <1>3, <2>2, <2>3, <2>4, XferClaimStep
    <2>6. Backed(negTable', xferTable')
      BY <1>3, <2>1, <2>3, <2>4 DEF Backed, XferIs
    <2>7. AgreedFor(negTable, p)
      BY <1>13 DEF StartClaim, Startable, FoundNeg, FirstNeg, AgreedFor, WasAgreed
    <2>8. Busy'
      BY <1>2, <2>1, <2>3, <2>5, <2>7 DEF Busy, OfferPc, Offering, Starting
    <2>. QED  BY <1>3, <2>1, <2>5, <2>6, <2>8
  <1>14. ASSUME NEW p \in Pid, Complete(p) PROVE RamGood'
    <2>1. PICK i \in XferSlot : /\ XferByPath(p, i) /\ xferTable[i].state = "TRANSFERRING"
                                /\ dsp_xfer_apply(i, "COMPLETE")
      BY <1>14 DEF Complete
    <2>2. UriId[p] \in Pid /\ FirstXfer(xferTable, UriId[p], i) /\ xferTable[i].active
      BY <2>1 DEF XferByPath, FoundXfer, FirstXfer, PidAssumption
    <2>3. dsp_xfer_sm_next("TRANSFERRING", "COMPLETE") = "COMPLETED"
      BY DEF dsp_xfer_sm_next, XferTaken, XferTarget
    <2>4. /\ \A j \in XferSlot \ {i} : xferTable'[j] = xferTable[j]
          /\ XferIs(xferTable'[i], "COMPLETED", xferTable[i].pid)
      BY <1>3, <2>1, <2>2, <2>3 DEF dsp_xfer_apply, XferEntry, XferIs
    <2>5. /\ XferGood(told, xferTable')
          /\ \A q, j : j \in XferSlot =>
                (FirstXfer(xferTable', q, j) <=> FirstXfer(xferTable, q, j))
      <3>1. \A j \in XferSlot : /\ xferTable'[j].active = xferTable[j].active
                                /\ xferTable'[j].pid = xferTable[j].pid
        BY <1>3, <2>2, <2>4 DEF XferEntry, XferIs
      <3>. QED  BY <1>3, <1>4, <3>1, XferStateStep DEF TablesGrow
    <2>6. "COMPLETED" \in XferState /\ "COMPLETED" \notin NegState
          /\ "COMPLETED" \in XferLater["COMPLETED"]
      BY DEF XferState, NegState, XferLater
    <2>7. told' = told \cup {<<UriId[p], "COMPLETED">>} /\ httpd' = Idle
          /\ negTable' = negTable
      BY <1>14 DEF Complete, negVars
    <2>8. XferGood(told', xferTable')
      BY <1>3, <2>2, <2>4, <2>5, <2>6, <2>7, XferTell DEF XferIs
    <2>9. NegGood(told', negTable')
      BY <1>3, <2>2, <2>6, <2>7, NegTell
    <2>10. Backed(negTable', xferTable')
      BY <1>3, <2>1, <2>2, <2>4, <2>7 DEF Backed, XferIs
    <2>11. \A j \in XferSlot : XferWhole(xferTable'[j])
      BY <1>2, <2>2, <2>4 DEF XferWhole, XferIs
    <2>. QED  BY <1>2, <1>7, <2>7, <2>8, <2>9, <2>10, <2>11
  <1>15. ASSUME NEW p \in Pid, XferGet(p) PROVE RamGood'
    <2>1. PICK i \in XferSlot : XferByPath(p, i) /\ Tell(UriId[p], XferReported(i))
      BY <1>15 DEF XferGet
    <2>. DEFINE s == XferReported(i)
    <2>2. UriId[p] \in Pid /\ FirstXfer(xferTable, UriId[p], i) /\ XferWhole(xferTable[i])
          /\ xferTable[i].active
      BY <1>2, <2>1 DEF XferByPath, FoundXfer, FirstXfer, PidAssumption
    <2>3. s = xferTable[i].state /\ s \in XferState /\ s \notin NegState /\ s \in XferLater[s]
      BY <2>2 DEF XferReported, XferWhole, NegState, XferState, XferLater
    <2>. HIDE DEF s
    <2>4. told' = told \cup {<<UriId[p], s>>} /\ httpd' = Idle
          /\ negTable' = negTable /\ xferTable' = xferTable
      BY <1>15, <2>1 DEF XferGet, negVars, xferVars, s
    <2>5. NegGood(told', negTable)
      BY <1>3, <2>2, <2>3, <2>4, NegTell
    <2>6. XferGood(told', xferTable)
      BY <1>3, <2>2, <2>3, <2>4, XferTell
    <2>. QED  BY <1>2, <1>3, <1>7, <2>4, <2>5, <2>6
  <1>. QED
    BY <1>8, <1>10, <1>11, <1>12, <1>13, <1>14, <1>15 DEF Request, NegRequest, XferRequest

LEMMA QuietContinue ==
    ASSUME PidAssumption, NegAssumption, XferAssumption, PowerAssumption,
           TypeInv, TypeInv', SlotInv, RamGood, ServeOn
    PROVE  RamGood'
  <1>. USE DEF ServeOn, Tell, RamGood, Good, At, Goto
  <1>1. /\ negTable \in [NegSlot -> NegEntry] /\ negTable' \in [NegSlot -> NegEntry]
        /\ xferTable \in [XferSlot -> XferEntry] /\ xferTable' \in [XferSlot -> XferEntry]
        /\ told \in Told /\ told' \in Told /\ Named(told)
        /\ httpd \in HttpType
        /\ NegGood(told, negTable) /\ XferGood(told, xferTable) /\ Backed(negTable, xferTable)
    BY DEF TypeInv, TypeOK, Told, Named, HttpType
  <1>2. TablesGrow
    BY ContinueSlots
  <1>3. \A p \in Pid : AgreedFor(negTable, p) => AgreedFor(negTable', p)
    BY <1>1, <1>2, AgreedGrows DEF TablesGrow
  <1>4. CASE NegContinue /\ UNCHANGED xferVars
    <2>. DEFINE i == httpd.slot
    <2>1. /\ Offering /\ ~Starting /\ i \in NegSlot /\ httpd.pid \in Pid
          /\ xferTable' = xferTable
      BY <1>4 DEF NegContinue, OfferState, OfferPid, OfferApply, TypeInv, SlotType,
                  OfferPc, Offering, Starting, xferVars
    <2>2. /\ \A j \in NegSlot \ {i} : NegWhole(negTable[j])
          /\ \A j \in NegSlot : negTable[j].active => j <= i
          /\ \A j \in XferSlot : XferWhole(xferTable[j])
      BY <2>1 DEF Busy
    <2>3. Backed(negTable', xferTable')
      BY <1>1, <1>3, <2>1, <2>2 DEF Backed, XferWhole
    <2>4. ASSUME \A j \in NegSlot \ {i} : negTable'[j] = negTable[j], negTable[i].active,
                 httpd'.slot = i, httpd'.pc \in {"offer_pid", "offer_apply"}
          PROVE  Busy'
      <3>. HIDE DEF i
      <3>1. Offering' /\ ~Starting'
        BY <2>4 DEF OfferPc, Offering, Starting
      <3>. QED  BY <2>1, <2>2, <2>4, <3>1 DEF Busy
    <2>5. CASE OfferState
      <3>1. /\ \A j \in NegSlot \ {i} : negTable'[j] = negTable[j]
            /\ negTable[i].active /\ negTable'[i].active = negTable[i].active
            /\ negTable'[i].cpid = negTable[i].cpid
        BY <1>1, <2>1, <2>5 DEF OfferState, SlotInv, NegHandled, NegIs, NegEntry
      <3>2. \A j \in NegSlot : /\ negTable'[j].active = negTable[j].active
                               /\ negTable'[j].cpid = negTable[j].cpid
        BY <3>1
      <3>3. NegGood(told, negTable')
        BY <1>1, <1>2, <3>2, NegStateStep DEF TablesGrow
      <3>4. told' = told /\ httpd'.slot = i /\ httpd'.pc = "offer_pid"
        BY <1>1, <2>5 DEF OfferState, HttpType
      <3>. QED  BY <1>1, <2>1, <2>3, <2>4, <3>1, <3>3, <3>4
    <2>6. CASE OfferPid
      <3>1. /\ \A j \in NegSlot \ {i} : negTable'[j] = negTable[j]
            /\ negTable[i].active /\ negTable'[i].active
            /\ negTable[i].cpid = NoPid /\ negTable'[i].cpid = httpd.pid
        BY <1>1, <2>1, <2>6 DEF OfferPid, SlotInv, NegHandled, NegIs, NegEntry
      <3>2. NegGood(told, negTable')
        BY <1>1, <2>1, <2>2, <3>1, NegNameStep
      <3>3. told' = told /\ httpd'.slot = i /\ httpd'.pc = "offer_apply"
        BY <1>1, <2>6 DEF OfferPid, HttpType
      <3>. QED  BY <1>1, <2>1, <2>3, <2>4, <3>1, <3>2, <3>3
    <2>7. CASE OfferApply
      <3>1. dsp_neg_sm_next("REQUESTED", "OFFER") = "OFFERED"
        BY DEF dsp_neg_sm_next, NegTaken, NegTarget
      <3>2. /\ \A j \in NegSlot \ {i} : negTable'[j] = negTable[j]
            /\ negTable[i].active /\ negTable[i].cpid = httpd.pid
            /\ NegIs(negTable'[i], "OFFERED", httpd.pid)
        BY <1>1, <2>1, <2>7, <3>1
           DEF OfferApply, dsp_neg_apply, SlotInv, NegHandled, NegIs, NegEntry
      <3>3. \A j \in NegSlot : /\ negTable'[j].active = negTable[j].active
                               /\ negTable'[j].cpid = negTable[j].cpid
        BY <1>1, <3>2 DEF NegIs, NegEntry
      <3>4. NegGood(told, negTable')
        BY <1>1, <1>2, <3>3, NegStateStep DEF TablesGrow
      <3>5. \A j \in NegSlot : NegWhole(negTable'[j])
        BY <2>1, <2>2, <3>2 DEF NegWhole, NegIs
      <3>6. PICK k \in NegSlot : FirstNeg(negTable', httpd.pid, k)
        BY <2>1, <3>2, <3>4 DEF NegGood, NegHasFirst, NegHolds, NegIs
      <3>7. negTable'[k].state \in NegLater["OFFERED"]
        BY <3>5, <3>6 DEF NegWhole, FirstNeg, NegLater
      <3>8. "OFFERED" \in NegState /\ "OFFERED" \notin XferState
        BY DEF NegState, XferState
      <3>9. told' = told \cup {<<httpd.pid, "OFFERED">>} /\ httpd' = Idle
        BY <2>7 DEF OfferApply
      <3>10. NegGood(told', negTable')
        BY <1>1, <2>1, <3>4, <3>6, <3>7, <3>8, <3>9, NegTell
      <3>11. XferGood(told', xferTable')
        BY <1>1, <2>1, <3>8, <3>9, XferTell
      <3>12. Busy'
        BY <2>1, <2>2, <3>5, <3>9 DEF Busy, OfferPc, Offering, Starting, Idle
      <3>. QED  BY <2>3, <3>10, <3>11, <3>12
    <2>. QED  BY <1>4, <2>5, <2>6, <2>7 DEF NegContinue
  <1>5. CASE XferContinue
    <2>. DEFINE i == httpd.slot
    <2>1. /\ Starting /\ ~Offering /\ i \in XferSlot /\ httpd.pid \in Pid
          /\ negTable' = negTable
      BY <1>5 DEF XferContinue, StartPid, StartApply, TypeInv, SlotType,
                  OfferPc, Offering, Starting, negVars
    <2>2. /\ \A j \in XferSlot \ {i} : XferWhole(xferTable[j])
          /\ \A j \in XferSlot : xferTable[j].active => j <= i
          /\ \A j \in NegSlot : NegWhole(negTable[j])
          /\ AgreedFor(negTable, httpd.pid)
      BY <2>1 DEF Busy
    <2>3. CASE StartPid
      <3>1. /\ \A j \in XferSlot \ {i} : xferTable'[j] = xferTable[j]
            /\ xferTable[i].active /\ xferTable'[i].active
            /\ xferTable[i].pid = NoPid /\ xferTable'[i].pid = httpd.pid
            /\ xferTable'[i].state = "INITIAL"
        BY <1>1, <2>1, <2>3 DEF StartPid, SlotInv, XferHandled, XferIs, XferEntry
      <3>2. XferGood(told, xferTable')
        BY <1>1, <2>1, <2>2, <3>1, XferNameStep
      <3>3. told' = told /\ httpd'.slot = i /\ httpd'.pc = "start_apply"
            /\ httpd'.pid = httpd.pid
        BY <1>1, <2>3 DEF StartPid, HttpType
      <3>4. Backed(negTable', xferTable')
        BY <1>1, <2>1, <3>1 DEF Backed
      <3>5. Busy'
        <4>. HIDE DEF i
        <4>1. ~Offering' /\ Starting'
          BY <3>3 DEF OfferPc, Offering, Starting
        <4>. QED  BY <2>1, <2>2, <3>1, <3>3, <4>1 DEF Busy
      <3>. QED  BY <1>1, <2>1, <3>2, <3>3, <3>4, <3>5
    <2>4. CASE StartApply
      <3>1. dsp_xfer_sm_next("INITIAL", "START") = "TRANSFERRING"
        BY DEF dsp_xfer_sm_next, XferTaken, XferTarget
      <3>2. /\ \A j \in XferSlot \ {i} : xferTable'[j] = xferTable[j]
            /\ xferTable[i].active /\ xferTable[i].pid = httpd.pid
            /\ XferIs(xferTable'[i], "TRANSFERRING", httpd.pid)
        BY <1>1, <2>1, <2>4, <3>1
           DEF StartApply, dsp_xfer_apply, SlotInv, XferHandled, XferIs, XferEntry
      <3>3. \A j \in XferSlot : /\ xferTable'[j].active = xferTable[j].active
                                /\ xferTable'[j].pid = xferTable[j].pid
        BY <1>1, <3>2 DEF XferIs, XferEntry
      <3>4. XferGood(told, xferTable')
        BY <1>1, <1>2, <3>3, XferStateStep DEF TablesGrow
      <3>5. \A j \in XferSlot : XferWhole(xferTable'[j])
        BY <2>1, <2>2, <3>2 DEF XferWhole, XferIs
      <3>6. PICK k \in XferSlot : FirstXfer(xferTable', httpd.pid, k)
        BY <2>1, <3>2, <3>4 DEF XferGood, XferHasFirst, XferHolds, XferIs
      <3>7. xferTable'[k].state \in XferLater["TRANSFERRING"]
        BY <3>5, <3>6 DEF XferWhole, FirstXfer, XferLater, XferState
      <3>8. "TRANSFERRING" \in XferState /\ "TRANSFERRING" \notin NegState
        BY DEF NegState, XferState
      <3>9. told' = told \cup {<<httpd.pid, "TRANSFERRING">>} /\ httpd' = Idle
        BY <2>4 DEF StartApply
      <3>10. XferGood(told', xferTable')
        BY <1>1, <2>1, <3>4, <3>6, <3>7, <3>8, <3>9, XferTell
      <3>11. NegGood(told', negTable')
        BY <1>1, <2>1, <3>8, <3>9, NegTell
      <3>12. Backed(negTable', xferTable')
        BY <1>1, <2>1, <2>2, <3>2 DEF Backed, XferIs
      <3>13. Busy'
        BY <2>1, <2>2, <3>5, <3>9 DEF Busy, OfferPc, Offering, Starting, Idle
      <3>. QED  BY <3>10, <3>11, <3>12, <3>13
    <2>. QED  BY <1>5, <2>3, <2>4 DEF XferContinue
  <1>. QED  BY <1>4, <1>5 DEF Continue

-----------------------------------------------------------------------------
(* The save copies tables that nobody changes.                             *)

Awake == power.pc \notin {"asleep", "boot", "wake"}

Still == ~PowerAt("up") => httpd = Idle

(* The slots of the image before last are copies, the others blank.        *)
NegCopied(last) ==
    \A j \in NegSlot : rtcNeg[j] = IF j < last THEN negTable[j] ELSE NegZero[j]

XferCopied(last) ==
    \A j \in XferSlot : rtcXfer[j] = IF j < last THEN xferTable[j] ELSE XferZero[j]

(* The slot being copied has all but its identifier.                       *)
NegHalf(i) ==
    /\ negTable[i].active
    /\ NegIs(rtcNeg[i], negTable[i].state, NoPid)
    /\ \A j \in NegSlot \ {i} : rtcNeg[j] = IF j < i THEN negTable[j] ELSE NegZero[j]

XferHalf(i) ==
    /\ xferTable[i].active
    /\ XferIs(rtcXfer[i], xferTable[i].state, NoPid)
    /\ \A j \in XferSlot \ {i} : rtcXfer[j] = IF j < i THEN xferTable[j] ELSE XferZero[j]

CopyInv ==
    /\ PowerAt("neg") => NegCopied(power.slot)
    /\ PowerAt("neg_pid") => NegHalf(power.slot)
    /\ power.pc \in {"neg", "neg_pid"} => rtcXfer = XferZero
    /\ power.pc \in {"xfer", "xfer_pid", "seal", "stop"} => rtcNeg = negTable
    /\ PowerAt("xfer") => XferCopied(power.slot)
    /\ PowerAt("xfer_pid") => XferHalf(power.slot)
    /\ power.pc \in {"seal", "stop"} => rtcXfer = xferTable

LEMMA NegExt ==
    ASSUME NEW d \in NegEntry, NEW e \in NegEntry,
           d.active = e.active, d.state = e.state, d.cpid = e.cpid
    PROVE  d = e
  <1>1. d = [active |-> d.active, state |-> d.state, cpid |-> d.cpid]
    BY DEF NegEntry
  <1>2. e = [active |-> e.active, state |-> e.state, cpid |-> e.cpid]
    BY DEF NegEntry
  <1>. QED  BY <1>1, <1>2, Zenon

LEMMA XferExt ==
    ASSUME NEW d \in XferEntry, NEW e \in XferEntry,
           d.active = e.active, d.state = e.state, d.pid = e.pid
    PROVE  d = e
  <1>1. d = [active |-> d.active, state |-> d.state, pid |-> d.pid]
    BY DEF XferEntry
  <1>2. e = [active |-> e.active, state |-> e.state, pid |-> e.pid]
    BY DEF XferEntry
  <1>. QED  BY <1>1, <1>2, Zenon

LEMMA BlankIsZero ==
    /\ \A i \in NegSlot : \A e \in NegEntry :
          ~e.active /\ NegBlank(e) => e = NegZero[i]
    /\ \A i \in XferSlot : \A e \in XferEntry :
          ~e.active /\ XferBlank(e) => e = XferZero[i]
  BY NegExt, XferExt DEF NegBlank, XferBlank, NegZero, XferZero, NegEntry, XferEntry

(* Done with the last slot, the image is the table.                        *)
LEMMA NegAllCopied ==
    ASSUME NegAssumption, TypeInv, power.slot \in NegSlot, NextSlot("neg", power.slot, NegMax, "xfer"),
           power' \in PowerType,
           \A j \in NegSlot : rtcNeg'[j] = IF j < power.slot + 1 THEN negTable[j] ELSE NegZero[j],
           rtcNeg' \in [NegSlot -> NegEntry]
    PROVE  \/ power'.pc = "neg" /\ \A j \in NegSlot :
                 rtcNeg'[j] = IF j < power'.slot THEN negTable[j] ELSE NegZero[j]
           \/ power'.pc = "xfer" /\ power'.slot = 0 /\ rtcNeg' = negTable
  <1>1. CASE power.slot + 1 < NegMax
    BY <1>1 DEF NextSlot
  <1>2. CASE ~(power.slot + 1 < NegMax)
    <2>1. \A j \in NegSlot : j < power.slot + 1
      BY <1>2 DEF NegSlot, NegAssumption
    <2>2. negTable \in [NegSlot -> NegEntry]
      BY DEF TypeInv, TypeOK
    <2>3. rtcNeg' = negTable
      BY <2>1, <2>2
    <2>. QED  BY <1>2, <2>3 DEF NextSlot
  <1>. QED  BY <1>1, <1>2

LEMMA XferAllCopied ==
    ASSUME XferAssumption, TypeInv, power.slot \in XferSlot,
           NextSlot("xfer", power.slot, XferMax, "seal"), power' \in PowerType,
           \A j \in XferSlot :
              rtcXfer'[j] = IF j < power.slot + 1 THEN xferTable[j] ELSE XferZero[j],
           rtcXfer' \in [XferSlot -> XferEntry]
    PROVE  \/ power'.pc = "xfer" /\ \A j \in XferSlot :
                 rtcXfer'[j] = IF j < power'.slot THEN xferTable[j] ELSE XferZero[j]
           \/ power'.pc = "seal" /\ rtcXfer' = xferTable
  <1>1. CASE power.slot + 1 < XferMax
    BY <1>1 DEF NextSlot
  <1>2. CASE ~(power.slot + 1 < XferMax)
    <2>1. \A j \in XferSlot : j < power.slot + 1
      BY <1>2 DEF XferSlot, XferAssumption
    <2>2. xferTable \in [XferSlot -> XferEntry]
      BY DEF TypeInv, TypeOK
    <2>3. rtcXfer' = xferTable
      BY <2>1, <2>2
    <2>. QED  BY <1>2, <2>3 DEF NextSlot
  <1>. QED  BY <1>1, <1>2

LEMMA SaveCopies ==
    ASSUME PidAssumption, NegAssumption, XferAssumption, PowerAssumption,
           TypeInv, TypeInv', SlotInv, CopyInv, Save
    PROVE  CopyInv'
  <1>. USE DEF Save, PowerAt, PowerGoto, CopyInv
  <1>1. /\ negTable \in [NegSlot -> NegEntry] /\ xferTable \in [XferSlot -> XferEntry]
        /\ rtcNeg \in [NegSlot -> NegEntry] /\ rtcXfer \in [XferSlot -> XferEntry]
        /\ rtcNeg' \in [NegSlot -> NegEntry] /\ rtcXfer' \in [XferSlot -> XferEntry]
        /\ power \in PowerType /\ power' \in PowerType
        /\ negTable' = negTable /\ xferTable' = xferTable
        /\ \A i \in NegSlot : i \in Nat /\ NegBlank(negTable[i])
        /\ \A i \in XferSlot : i \in Nat /\ XferBlank(xferTable[i])
    BY DEF TypeInv, TypeOK, PowerType, negVars, xferVars, SlotInv, Blank, NegSlot, XferSlot
  <1>2. CASE SaveNegState
    <2>. DEFINE i == power.slot
    <2>1. /\ i \in NegSlot /\ rtcXfer' = rtcXfer /\ rtcXfer = XferZero
          /\ \A j \in NegSlot : rtcNeg[j] = IF j < i THEN negTable[j] ELSE NegZero[j]
      BY <1>2 DEF SaveNegState, TypeInv, SlotType, NegCopied
    <2>2. CASE negTable[i].active
      <3>1. rtcNeg[i] = NegZero[i] /\ NegZero[i].cpid = NoPid
        <4>1. i \in Nat /\ ~(i < i)
          BY <1>1, <2>1
        <4>2. rtcNeg[i] = NegZero[i]
          BY <2>1, <4>1
        <4>3. NegZero[i].cpid = NoPid
          BY <2>1 DEF NegZero
        <4>. QED  BY <4>2, <4>3
      <3>2. /\ NegIs(rtcNeg'[i], negTable[i].state, NoPid)
            /\ \A j \in NegSlot \ {i} : rtcNeg'[j] = rtcNeg[j]
            /\ power'.pc = "neg_pid" /\ power'.slot = i
        BY <1>1, <1>2, <2>1, <2>2, <3>1 DEF SaveNegState, NegEntry, PowerType, NegIs
      <3>. HIDE DEF i
      <3>3. NegHalf(power.slot)'
        BY <1>1, <2>1, <2>2, <3>2 DEF NegHalf
      <3>. QED  BY <2>1, <3>2, <3>3
    <2>3. CASE ~negTable[i].active
      <3>1. rtcNeg' = rtcNeg /\ NextSlot("neg", i, NegMax, "xfer")
        BY <1>2, <2>3 DEF SaveNegState
      <3>2. negTable[i] = NegZero[i]
        BY <1>1, <2>1, <2>3, BlankIsZero
      <3>3. \A j \in NegSlot : rtcNeg'[j] = IF j < i + 1 THEN negTable[j] ELSE NegZero[j]
        BY <1>1, <2>1, <3>1, <3>2
      <3>4. \/ power'.pc = "neg" /\ \A j \in NegSlot :
                 rtcNeg'[j] = IF j < power'.slot THEN negTable[j] ELSE NegZero[j]
            \/ power'.pc = "xfer" /\ power'.slot = 0 /\ rtcNeg' = negTable
        BY <1>1, <2>1, <3>1, <3>3, NegAllCopied
      <3>. QED  BY <1>1, <2>1, <3>4 DEF NegCopied, XferCopied
    <2>. QED  BY <2>2, <2>3
  <1>3. CASE SaveNegPid
    <2>. DEFINE i == power.slot
    <2>1. /\ i \in NegSlot /\ rtcXfer' = rtcXfer /\ rtcXfer = XferZero /\ NegHalf(i)
          /\ NextSlot("neg", i, NegMax, "xfer")
      BY <1>3 DEF SaveNegPid, TypeInv, SlotType
    <2>2. /\ NegIs(rtcNeg'[i], negTable[i].state, negTable[i].cpid) /\ negTable[i].active
          /\ \A j \in NegSlot \ {i} : rtcNeg'[j] = rtcNeg[j]
      BY <1>1, <1>3, <2>1 DEF SaveNegPid, NegHalf, NegIs, NegEntry
    <2>3. rtcNeg'[i] = negTable[i]
      BY <1>1, <2>1, <2>2, NegExt DEF NegIs, NegEntry
    <2>4. \A j \in NegSlot : rtcNeg'[j] = IF j < i + 1 THEN negTable[j] ELSE NegZero[j]
      BY <1>1, <2>1, <2>2, <2>3 DEF NegHalf
    <2>5. \/ power'.pc = "neg" /\ \A j \in NegSlot :
               rtcNeg'[j] = IF j < power'.slot THEN negTable[j] ELSE NegZero[j]
          \/ power'.pc = "xfer" /\ power'.slot = 0 /\ rtcNeg' = negTable
      BY <1>1, <2>1, <2>4, NegAllCopied
    <2>. QED  BY <1>1, <2>1, <2>5 DEF NegCopied, XferCopied
  <1>4. CASE SaveXferState
    <2>. DEFINE i == power.slot
    <2>1. /\ i \in XferSlot /\ rtcNeg' = rtcNeg /\ rtcNeg = negTable
          /\ \A j \in XferSlot : rtcXfer[j] = IF j < i THEN xferTable[j] ELSE XferZero[j]
      BY <1>4 DEF SaveXferState, TypeInv, SlotType, XferCopied
    <2>2. CASE xferTable[i].active
      <3>1. rtcXfer[i] = XferZero[i] /\ XferZero[i].pid = NoPid
        <4>1. i \in Nat /\ ~(i < i)
          BY <1>1, <2>1
        <4>2. rtcXfer[i] = XferZero[i]
          BY <2>1, <4>1
        <4>3. XferZero[i].pid = NoPid
          BY <2>1 DEF XferZero
        <4>. QED  BY <4>2, <4>3
      <3>2. /\ XferIs(rtcXfer'[i], xferTable[i].state, NoPid)
            /\ \A j \in XferSlot \ {i} : rtcXfer'[j] = rtcXfer[j]
            /\ power'.pc = "xfer_pid" /\ power'.slot = i
        BY <1>1, <1>4, <2>1, <2>2, <3>1 DEF SaveXferState, XferEntry, PowerType, XferIs
      <3>. HIDE DEF i
      <3>3. XferHalf(power.slot)'
        BY <1>1, <2>1, <2>2, <3>2 DEF XferHalf
      <3>. QED  BY <1>1, <2>1, <3>2, <3>3
    <2>3. CASE ~xferTable[i].active
      <3>1. rtcXfer' = rtcXfer /\ NextSlot("xfer", i, XferMax, "seal")
        BY <1>4, <2>3 DEF SaveXferState
      <3>2. xferTable[i] = XferZero[i]
        BY <1>1, <2>1, <2>3, BlankIsZero
      <3>3. \A j \in XferSlot : rtcXfer'[j] = IF j < i + 1 THEN xferTable[j] ELSE XferZero[j]
        BY <1>1, <2>1, <3>1, <3>2
      <3>4. \/ power'.pc = "xfer" /\ \A j \in XferSlot :
                 rtcXfer'[j] = IF j < power'.slot THEN xferTable[j] ELSE XferZero[j]
            \/ power'.pc = "seal" /\ rtcXfer' = xferTable
        BY <1>1, <2>1, <3>1, <3>3, XferAllCopied
      <3>. QED  BY <1>1, <2>1, <3>4 DEF XferCopied
    <2>. QED  BY <2>2, <2>3
  <1>5. CASE SaveXferPid
    <2>. DEFINE i == power.slot
    <2>1. /\ i \in XferSlot /\ rtcNeg' = rtcNeg /\ rtcNeg = negTable /\ XferHalf(i)
          /\ NextSlot("xfer", i, XferMax, "seal")
      BY <1>5 DEF SaveXferPid, TypeInv, SlotType
    <2>2. /\ XferIs(rtcXfer'[i], xferTable[i].state, xferTable[i].pid) /\ xferTable[i].active
          /\ \A j \in XferSlot \ {i} : rtcXfer'[j] = rtcXfer[j]
      BY <1>1, <1>5, <2>1 DEF SaveXferPid, XferHalf, XferIs, XferEntry
    <2>3. rtcXfer'[i] = xferTable[i]
      BY <1>1, <2>1, <2>2, XferExt DEF XferIs, XferEntry
    <2>4. \A j \in XferSlot : rtcXfer'[j] = IF j < i + 1 THEN xferTable[j] ELSE XferZero[j]
      BY <1>1, <2>1, <2>2, <2>3 DEF XferHalf
    <2>5. \/ power'.pc = "xfer" /\ \A j \in XferSlot :
               rtcXfer'[j] = IF j < power'.slot THEN xferTable[j] ELSE XferZero[j]
          \/ power'.pc = "seal" /\ rtcXfer' = xferTable
      BY <1>1, <2>1, <2>4, XferAllCopied
    <2>. QED  BY <1>1, <2>1, <2>5 DEF XferCopied
  <1>6. CASE SaveSeal
    BY <1>1, <1>6 DEF SaveSeal
  <1>. QED  BY <1>2, <1>3, <1>4, <1>5, <1>6 DEF SaveStep

-----------------------------------------------------------------------------
(* The invariant of a node that is left in peace while it goes to sleep:   *)
(* the tables are good while it is awake, the image while it is not.       *)

RtcGood == /\ Good(rtcNeg, rtcXfer)
           /\ \A i \in NegSlot : NegWhole(rtcNeg[i]) /\ NegBlank(rtcNeg[i])
           /\ \A i \in XferSlot : XferWhole(rtcXfer[i]) /\ XferBlank(rtcXfer[i])

QuietInv == /\ Still /\ CopyInv
            /\ Awake => RamGood
            /\ ~Awake /\ rtcMagic => RtcGood

LEMMA ZeroGood ==
    /\ NegGood({}, NegZero) /\ XferGood({}, XferZero) /\ Backed(NegZero, XferZero)
    /\ \A i \in NegSlot : NegWhole(NegZero[i])
    /\ \A i \in XferSlot : XferWhole(XferZero[i])
  BY DEF NegGood, NegPacked, NegHasFirst, NegHolds, NegStand, NegZero, NegWhole,
         XferGood, XferPacked, XferHasFirst, XferHolds, XferStand, XferZero, XferWhole, Backed

LEMMA RamGoodStays ==
    ASSUME RamGood, UNCHANGED <<negTable, xferTable, told, httpd>>
    PROVE  RamGood'
  BY DEF RamGood, Good, Busy, OfferPc, Offering, Starting

LEMMA RestoredTables ==
    ASSUME PidAssumption, NegAssumption, XferAssumption, PowerAssumption,
           TypeInv, SlotInv, QuietInv, RestoreTables
    PROVE  negTable' = rtcNeg /\ xferTable' = rtcXfer
  <1>1. /\ RtcGood /\ negReady /\ xferReady /\ negTable = NegZero /\ xferTable = XferZero
    BY DEF RestoreTables, Restorable, RtcValid, QuietInv, Awake, SlotInv, BootInv, PowerAt
  <1>2. /\ negTable' = [i \in NegSlot |-> IF rtcNeg[i].active THEN rtcNeg[i] ELSE NegZero[i]]
        /\ xferTable' = [i \in XferSlot |->
                            IF rtcXfer[i].active THEN rtcXfer[i] ELSE XferZero[i]]
    BY <1>1 DEF RestoreTables, LoadSlots
  <1>3. rtcNeg \in [NegSlot -> NegEntry] /\ rtcXfer \in [XferSlot -> XferEntry]
    BY DEF TypeInv, TypeOK
  <1>4. \A i \in NegSlot : ~rtcNeg[i].active => rtcNeg[i] = NegZero[i]
    BY <1>1, <1>3, BlankIsZero DEF RtcGood
  <1>5. \A i \in XferSlot : ~rtcXfer[i].active => rtcXfer[i] = XferZero[i]
    BY <1>1, <1>3, BlankIsZero DEF RtcGood
  <1>. QED  BY <1>2, <1>3, <1>4, <1>5

LEMMA RestoredGood ==
    ASSUME PidAssumption, NegAssumption, XferAssumption, PowerAssumption,
           TypeInv, SlotInv, QuietInv, RestoreTables
    PROVE  RamGood'
  <1>1. RtcGood /\ httpd = Idle /\ httpd' = Idle /\ told' = told
    BY DEF RestoreTables, Restorable, RtcValid, QuietInv, Awake, Still, PowerAt, httpVars
  <1>2. negTable' = rtcNeg /\ xferTable' = rtcXfer
    BY RestoredTables
  <1>3. Busy'
    BY <1>1, <1>2 DEF Busy, RtcGood, OfferPc, Offering, Starting, Idle
  <1>. QED  BY <1>1, <1>2, <1>3 DEF RamGood, RtcGood, Good

LEMMA NextQuiet ==
    ASSUME PidAssumption, NegAssumption, XferAssumption, PowerAssumption, ~LateRequests,
           TypeInv, TypeInv', SlotInv, SlotInv', QuietInv, [Next]_vars
    PROVE  QuietInv'
  <1>. USE DEF PowerAt, PowerGoto
  <1>1. CASE Serve
    <2>1. power.pc = "up" /\ power' = power
      BY <1>1 DEF Serve
    <2>2. RamGood'
      BY <1>1, <2>1, QuietRequest DEF QuietInv, Awake
    <2>. QED  BY <2>1, <2>2 DEF QuietInv, Still, CopyInv, Awake
  <1>2. CASE ServeOn
    <2>1. httpd # Idle /\ power' = power
      BY <1>2 DEF ServeOn, Continue, NegContinue, XferContinue, OfferState, OfferPid,
                  OfferApply, StartPid, StartApply, At, Idle
    <2>2. power.pc = "up"
      BY <2>1 DEF QuietInv, Still
    <2>3. RamGood'
      BY <1>2, <2>2, QuietContinue DEF QuietInv, Awake
    <2>. QED  BY <2>1, <2>2, <2>3 DEF QuietInv, Still, CopyInv, Awake
  <1>3. CASE StartServer \/ ServerStopped \/ StopServer \/ UNCHANGED vars
    <2>1. UNCHANGED <<negTable, xferTable, told, httpd, rtcNeg, rtcXfer, rtcMagic, power>>
      BY <1>3 DEF StartServer, ServerStopped, StopServer, HttpStart, HttpStopped,
                  HttpStopRequest, vars, negVars, xferVars, rtcVars
    <2>2. Awake => RamGood'
      BY <2>1, RamGoodStays DEF QuietInv
    <2>3. Still' /\ (Awake' <=> Awake)
      BY <2>1 DEF QuietInv, Still, Awake
    <2>4. CopyInv'
      BY <2>1 DEF QuietInv, CopyInv, NegCopied, XferCopied, NegHalf, XferHalf
    <2>5. ~Awake /\ rtcMagic => RtcGood'
      BY <2>1 DEF QuietInv, RtcGood, Good
    <2>. QED  BY <2>1, <2>2, <2>3, <2>4, <2>5 DEF QuietInv
  <1>4. CASE EnterDeepSleep
    <2>1. /\ power.pc = "up" /\ httpd = Idle /\ power' = [pc |-> "neg", slot |-> 0]
          /\ rtcNeg' = NegZero /\ rtcXfer' = XferZero
          /\ UNCHANGED <<negTable, xferTable, told, httpd>>
      BY <1>4 DEF EnterDeepSleep, SaveBegin, httpVars, negVars, xferVars
    <2>2. RamGood'
      BY <2>1, RamGoodStays DEF QuietInv, Awake
    <2>3. NegCopied(power.slot)'
      BY <2>1 DEF NegCopied, NegSlot
    <2>4. CopyInv'
      BY <2>1, <2>3 DEF CopyInv
    <2>. QED  BY <2>1, <2>2, <2>4 DEF QuietInv, Still, Awake
  <1>5. CASE Save
    <2>1. UNCHANGED <<negTable, xferTable, told, httpd>>
      BY <1>5 DEF Save, httpVars, negVars, xferVars
    <2>2. /\ power.pc \in {"neg", "neg_pid", "xfer", "xfer_pid", "seal"}
          /\ power'.pc \in {"neg", "neg_pid", "xfer", "xfer_pid", "seal", "stop"}
      <3>1. power \in PowerType
        BY DEF TypeInv, TypeOK, PowerType
      <3>. QED  BY <1>5, <3>1 DEF Save, SaveStep, SaveNegState, SaveNegPid, SaveXferState,
                                  SaveXferPid, SaveSeal, NextSlot, PowerType
    <2>3. RamGood'
      BY <2>1, <2>2, RamGoodStays DEF QuietInv, Awake
    <2>4. CopyInv'
      BY <1>5, SaveCopies DEF QuietInv
    <2>. QED  BY <2>1, <2>2, <2>3, <2>4 DEF QuietInv, Still, Awake
  <1>6. CASE Sleep
    <2>1. /\ power.pc = "stop" /\ power'.pc = "asleep" /\ httpd = Idle /\ httpd' = Idle
          /\ told' = told /\ rtcNeg' = rtcNeg /\ rtcXfer' = rtcXfer
      BY <1>6 DEF Sleep, LoseRam, rtcVars, QuietInv, Still
    <2>2. RamGood /\ rtcNeg = negTable /\ rtcXfer = xferTable
      BY <2>1 DEF QuietInv, Awake, CopyInv
    <2>3. /\ \A i \in NegSlot : NegWhole(negTable[i]) /\ NegBlank(negTable[i])
          /\ \A i \in XferSlot : XferWhole(xferTable[i]) /\ XferBlank(xferTable[i])
      BY <2>1, <2>2 DEF RamGood, Busy, OfferPc, Offering, Starting, Idle, SlotInv, Blank
    <2>4. RtcGood'
      BY <2>1, <2>2, <2>3 DEF RtcGood, RamGood, Good
    <2>. QED  BY <2>1, <2>4 DEF QuietInv, Still, CopyInv, Awake
  <1>7. CASE InitModules \/ Wake \/ Corrupt
    <2>1. /\ power.pc \in {"asleep", "boot"} /\ power'.pc \in {"asleep", "boot", "wake"}
          /\ UNCHANGED <<told, httpd, rtcNeg, rtcXfer, rtcMagic>>
      BY <1>7 DEF InitModules, Wake, Corrupt, httpVars, rtcVars
    <2>2. rtcMagic => RtcGood'
      BY <2>1 DEF QuietInv, Awake, RtcGood, Good
    <2>. QED  BY <2>1, <2>2 DEF QuietInv, Still, CopyInv, Awake
  <1>8. CASE RestoreTables
    <2>1. power.pc = "wake" /\ power'.pc = "serve" /\ httpd' = httpd
      BY <1>8 DEF RestoreTables, httpVars
    <2>2. RamGood'
      BY <1>8, RestoredGood
    <2>. QED  BY <2>1, <2>2 DEF QuietInv, Still, CopyInv, Awake
  <1>9. CASE SkipRestore
    <2>1. /\ power.pc = "wake" /\ power'.pc = "up" /\ told' = {}
          /\ httpd = Idle /\ httpd' = Idle
          /\ negTable' = NegZero /\ xferTable' = XferZero
      BY <1>9 DEF SkipRestore, negVars, xferVars, QuietInv, Still, SlotInv, BootInv
    <2>2. RamGood'
      BY <2>1, ZeroGood DEF RamGood, Good, Busy, OfferPc, Offering, Starting, Idle
    <2>. QED  BY <2>1, <2>2 DEF QuietInv, Still, CopyInv, Awake
  <1>10. CASE ResumeServer
    <2>1. /\ power.pc = "serve" /\ power'.pc = "up"
          /\ UNCHANGED <<negTable, xferTable, told, httpd>>
      BY <1>10 DEF ResumeServer, HttpStart, httpVars, negVars, xferVars
    <2>2. RamGood'
      BY <2>1, RamGoodStays DEF QuietInv, Awake
    <2>. QED  BY <2>1, <2>2 DEF QuietInv, Still, CopyInv, Awake
  <1>11. CASE Reset
    <2>1. power'.pc = "boot" /\ httpd' = Idle /\ rtcMagic' = FALSE
      BY <1>11 DEF Reset, LoseRam
    <2>. QED  BY <2>1 DEF QuietInv, Still, CopyInv, Awake
  <1>. QED
    BY <1>1, <1>2, <1>3, <1>4, <1>5, <1>6, <1>7, <1>8, <1>9, <1>10, <1>11
       DEF Next, ServerNext, PowerNext

LEMMA QuietInvariant == ASSUME ~LateRequests PROVE Spec => []QuietInv
  <1>. USE PidAssumption, NegAssumption, XferAssumption, PowerAssumption
  <1>1. Init => QuietInv
    BY DEF Init, QuietInv, Still, CopyInv, Awake, PowerAt
  <1>2. TypeInv /\ TypeInv' /\ SlotInv /\ SlotInv' /\ QuietInv /\ [Next]_vars => QuietInv'
    BY NextQuiet
  <1>. QED  BY <1>1, <1>2, TypeInvariant, SlotInvariant, PTL DEF Spec

-----------------------------------------------------------------------------
(* Deep sleep and wake keep every answer: with no request during the save, *)
(* each 2xx answer stands whenever the node is up, for any number of       *)
(* identifiers and slots and after any number of sleeps, resets and image  *)
(* corruptions.                                                            *)
THEOREM QuietAnswersStand == ASSUME ~LateRequests PROVE Spec => []AnswersStand
  <1>1. QuietInv => AnswersStand
    BY DEF QuietInv, Awake, AnswersStand, PowerAt, RamGood, Good, NegGood, XferGood,
           NegStand, XferStand, NegAnswersStand, XferAnswersStand, FoundNeg, FoundXfer
  <1>. QED  BY <1>1, QuietInvariant, PTL

(* No transfer without an agreed negotiation, in any state of the node.    *)
THEOREM QuietTransferAgreed == ASSUME ~LateRequests PROVE Spec => []TransferAgreed
  <1>1. SlotInv /\ QuietInv => TransferAgreed
    <2>. SUFFICES ASSUME SlotInv, QuietInv PROVE TransferAgreed
      OBVIOUS
    <2>1. CASE Awake
      BY <2>1 DEF QuietInv, RamGood, Good, Backed, AgreedFor, TransferAgreed
    <2>2. CASE ~Awake
      BY <2>2 DEF Awake, SlotInv, BootInv, XferZero, TransferAgreed
    <2>. QED  BY <2>1, <2>2
  <1>. QED  BY <1>1, SlotInvariant, QuietInvariant, PTL

(* No half-written slot survives a handler, a sleep or a restore.          *)
THEOREM QuietNoTornSlot == ASSUME ~LateRequests PROVE Spec => []NoTornSlot
  <1>. USE PidAssumption
  <1>1. QuietInv => NoTornSlot
    BY DEF QuietInv, Awake, PowerAt, RamGood, Busy, OfferPc, Offering, Starting, Idle, NegWhole,
           XferWhole, NoTornSlot, PidAssumption
  <1>. QED  BY <1>1, QuietInvariant, PTL

-----------------------------------------------------------------------------
(* What a consumer sees of an identifier in a table of either kind.        *)
NegSeen(nt, p) == IF \E i \in NegSlot : FirstNeg(nt, p, i)
                  THEN ContractOf[nt[CHOOSE i \in NegSlot : FirstNeg(nt, p, i)].state]
                  ELSE "None"

XferSeen(xt, p) == IF \E i \in XferSlot : FirstXfer(xt, p, i)
                   THEN TransferOf[xt[CHOOSE i \in XferSlot : FirstXfer(xt, p, i)].state]
                   ELSE "None"

LEMMA ViewsAre ==
    /\ ContractView = [p \in Pid |-> NegSeen(NegHeld, p)]
    /\ TransferView = [p \in Pid |-> XferSeen(XferHeld, p)]
    /\ ContractView' = [p \in Pid |-> NegSeen(NegHeld', p)]
    /\ TransferView' = [p \in Pid |-> XferSeen(XferHeld', p)]
  BY DEF ContractView, TransferView, NegSeen, XferSeen

(* An identifier has one first slot at most, so that is the slot seen.     *)
LEMMA NegSeenAt ==
    ASSUME NEW nt, NEW p, NEW i \in NegSlot, FirstNeg(nt, p, i)
    PROVE  NegSeen(nt, p) = ContractOf[nt[i].state]
  <1>1. \A j \in NegSlot : FirstNeg(nt, p, j) => j = i
    BY DEF FirstNeg, NegSlot
  <1>2. (CHOOSE j \in NegSlot : FirstNeg(nt, p, j)) = i
    BY <1>1
  <1>. QED  BY <1>2 DEF NegSeen

LEMMA XferSeenAt ==
    ASSUME NEW xt, NEW p, NEW i \in XferSlot, FirstXfer(xt, p, i)
    PROVE  XferSeen(xt, p) = TransferOf[xt[i].state]
  <1>1. \A j \in XferSlot : FirstXfer(xt, p, j) => j = i
    BY DEF FirstXfer, XferSlot
  <1>2. (CHOOSE j \in XferSlot : FirstXfer(xt, p, j)) = i
    BY <1>1
  <1>. QED  BY <1>2 DEF XferSeen

(* A store to the state of a slot shows in the identifier that finds it    *)
(* there, and in no other.                                                 *)
LEMMA NegSeenStep ==
    ASSUME NEW nt, NEW nu, NEW i \in NegSlot,
           \A j \in NegSlot : nu[j].active = nt[j].active /\ nu[j].cpid = nt[j].cpid,
           \A j \in NegSlot \ {i} : nu[j].state = nt[j].state
    PROVE  \A p : NegSeen(nu, p) = IF FirstNeg(nt, p, i) THEN ContractOf[nu[i].state]
                                                         ELSE NegSeen(nt, p)
  <1>. SUFFICES ASSUME NEW p
                PROVE  NegSeen(nu, p) = IF FirstNeg(nt, p, i) THEN ContractOf[nu[i].state]
                                                              ELSE NegSeen(nt, p)
    OBVIOUS
  <1>1. \A j \in NegSlot : FirstNeg(nu, p, j) <=> FirstNeg(nt, p, j)
    BY DEF FirstNeg
  <1>2. CASE FirstNeg(nt, p, i)
    BY <1>1, <1>2, NegSeenAt
  <1>3. CASE ~FirstNeg(nt, p, i) /\ \E j \in NegSlot : FirstNeg(nt, p, j)
    <2>1. PICK j \in NegSlot : FirstNeg(nt, p, j)
      BY <1>3
    <2>. QED  BY <1>1, <1>3, <2>1, NegSeenAt
  <1>4. CASE ~\E j \in NegSlot : FirstNeg(nt, p, j)
    BY <1>1, <1>4 DEF NegSeen
  <1>. QED  BY <1>2, <1>3, <1>4

LEMMA XferSeenStep ==
    ASSUME NEW xt, NEW xu, NEW i \in XferSlot,
           \A j \in XferSlot : xu[j].active = xt[j].active /\ xu[j].pid = xt[j].pid,
           \A j \in XferSlot \ {i} : xu[j].state = xt[j].state
    PROVE  \A p : XferSeen(xu, p) = IF FirstXfer(xt, p, i) THEN TransferOf[xu[i].state]
                                                           ELSE XferSeen(xt, p)
  <1>. SUFFICES ASSUME NEW p
                PROVE  XferSeen(xu, p) = IF FirstXfer(xt, p, i) THEN TransferOf[xu[i].state]
                                                                ELSE XferSeen(xt, p)
    OBVIOUS
  <1>1. \A j \in XferSlot : FirstXfer(xu, p, j) <=> FirstXfer(xt, p, j)
    BY DEF FirstXfer
  <1>2. CASE FirstXfer(xt, p, i)
    BY <1>1, <1>2, XferSeenAt
  <1>3. CASE ~FirstXfer(xt, p, i) /\ \E j \in XferSlot : FirstXfer(xt, p, j)
    <2>1. PICK j \in XferSlot : FirstXfer(xt, p, j)
      BY <1>3
    <2>. QED  BY <1>1, <1>3, <2>1, XferSeenAt
  <1>4. CASE ~\E j \in XferSlot : FirstXfer(xt, p, j)
    BY <1>1, <1>4 DEF XferSeen
  <1>. QED  BY <1>2, <1>3, <1>4

(* The claim of a slot past all others, and the identifier written to it,  *)
(* show nowhere: until a handler is done, its slot counts for nothing.     *)
LEMMA NegSeenHalf ==
    ASSUME PidAssumption, NEW nt, NEW nu, NEW i \in NegSlot,
           \A j \in NegSlot \ {i} : nu[j] = nt[j],
           \A j \in NegSlot : nt[j].active => j <= i,
           ~nt[i].active \/ nt[i].cpid = NoPid,
           nu[i].active, nu[i].state \in {"INITIAL", "REQUESTED"},
           nu[i].cpid \in PidOrNone
    PROVE  \A p \in Pid : NegSeen(nu, p) = NegSeen(nt, p)
  <1>. SUFFICES ASSUME NEW p \in Pid PROVE NegSeen(nu, p) = NegSeen(nt, p)
    OBVIOUS
  <1>0. i \in Nat /\ \A j \in NegSlot : j \in Nat
    BY DEF NegSlot
  <1>1. CASE \E j \in NegSlot : FirstNeg(nt, p, j)
    <2>1. PICK j \in NegSlot : FirstNeg(nt, p, j)
      BY <1>1
    <2>2. j # i /\ j <= i
      BY <2>1 DEF FirstNeg, PidAssumption
    <2>3. FirstNeg(nu, p, j)
      BY <1>0, <2>1, <2>2 DEF FirstNeg
    <2>. QED  BY <2>1, <2>2, <2>3, NegSeenAt
  <1>2. CASE ~\E j \in NegSlot : FirstNeg(nt, p, j)
    <2>1. NegSeen(nt, p) = "None"
      BY <1>2 DEF NegSeen
    <2>2. CASE \E j \in NegSlot : FirstNeg(nu, p, j)
      <3>1. PICK j \in NegSlot : FirstNeg(nu, p, j)
        BY <2>2
      <3>2. CASE j = i
        BY <2>1, <3>1, <3>2, NegSeenAt DEF ContractOf
      <3>3. CASE j # i
        <4>1. nt[j].active /\ j < i
          BY <1>0, <3>1, <3>3 DEF FirstNeg
        <4>2. FirstNeg(nt, p, j)
          BY <1>0, <3>1, <3>3, <4>1 DEF FirstNeg
        <4>. QED  BY <1>2, <4>2
      <3>. QED  BY <3>2, <3>3
    <2>3. CASE ~\E j \in NegSlot : FirstNeg(nu, p, j)
      BY <2>1, <2>3 DEF NegSeen
    <2>. QED  BY <2>2, <2>3
  <1>. QED  BY <1>1, <1>2

LEMMA XferSeenHalf ==
    ASSUME PidAssumption, NEW xt, NEW xu, NEW i \in XferSlot,
           \A j \in XferSlot \ {i} : xu[j] = xt[j],
           \A j \in XferSlot : xt[j].active => j <= i,
           ~xt[i].active \/ xt[i].pid = NoPid,
           xu[i].active, xu[i].state = "INITIAL", xu[i].pid \in PidOrNone
    PROVE  \A p \in Pid : XferSeen(xu, p) = XferSeen(xt, p)
  <1>. SUFFICES ASSUME NEW p \in Pid PROVE XferSeen(xu, p) = XferSeen(xt, p)
    OBVIOUS
  <1>0. i \in Nat /\ \A j \in XferSlot : j \in Nat
    BY DEF XferSlot
  <1>1. CASE \E j \in XferSlot : FirstXfer(xt, p, j)
    <2>1. PICK j \in XferSlot : FirstXfer(xt, p, j)
      BY <1>1
    <2>2. j # i /\ j <= i
      BY <2>1 DEF FirstXfer, PidAssumption
    <2>3. FirstXfer(xu, p, j)
      BY <1>0, <2>1, <2>2 DEF FirstXfer
    <2>. QED  BY <2>1, <2>2, <2>3, XferSeenAt
  <1>2. CASE ~\E j \in XferSlot : FirstXfer(xt, p, j)
    <2>1. XferSeen(xt, p) = "None"
      BY <1>2 DEF XferSeen
    <2>2. CASE \E j \in XferSlot : FirstXfer(xu, p, j)
      <3>1. PICK j \in XferSlot : FirstXfer(xu, p, j)
        BY <2>2
      <3>2. CASE j = i
        BY <2>1, <3>1, <3>2, XferSeenAt DEF TransferOf
      <3>3. CASE j # i
        <4>1. xt[j].active /\ j < i
          BY <1>0, <3>1, <3>3 DEF FirstXfer
        <4>2. FirstXfer(xt, p, j)
          BY <1>0, <3>1, <3>3, <4>1 DEF FirstXfer
        <4>. QED  BY <1>2, <4>2
      <3>. QED  BY <3>2, <3>3
    <2>3. CASE ~\E j \in XferSlot : FirstXfer(xu, p, j)
      BY <2>1, <2>3 DEF XferSeen
    <2>. QED  BY <2>2, <2>3
  <1>. QED  BY <1>1, <1>2

-----------------------------------------------------------------------------
(* A transfer handler works under an agreed negotiation until it is done,  *)
(* and a sealed image is valid.                                            *)

ServiceInv == /\ Starting => Startable(httpd.pid)
              /\ PowerAt("stop") => RtcValid

LEMMA NextService ==
    ASSUME PidAssumption, NegAssumption, XferAssumption, PowerAssumption,
           TypeInv, SlotInv, ServiceInv, [Next]_vars
    PROVE  ServiceInv'
  <1>. USE DEF PowerAt, PowerGoto
  <1>1. ASSUME httpd' = Idle, power'.pc # "stop" PROVE ServiceInv'
    BY <1>1 DEF ServiceInv, Starting, Idle
  <1>2. ASSUME UNCHANGED <<httpd, negTable, rtcVars>>, power'.pc = "stop" => power.pc = "stop"
        PROVE  ServiceInv'
    BY <1>2 DEF ServiceInv, Starting, Startable, FoundNeg, FirstNeg, RtcValid, rtcVars
  <1>3. CASE Serve
    <2>1. UNCHANGED <<rtcVars, power>> /\ httpd = Idle
      BY <1>3 DEF Serve, Request, NegRequest, XferRequest, OfferClaim, Agree, Terminate,
                  NegGet, StartClaim, Complete, XferGet, Ready
    <2>2. PowerAt("stop") => RtcValid'
      BY <2>1 DEF ServiceInv, RtcValid, rtcVars
    <2>3. Starting' => \E p \in Pid : StartClaim(p)
      BY <1>3, <2>1 DEF Serve, Request, NegRequest, XferRequest, OfferClaim, Agree, Terminate,
                        NegGet, Complete, XferGet, Tell, Starting, Idle
    <2>4. ASSUME NEW p \in Pid, StartClaim(p) PROVE httpd'.pid = p /\ Startable(p)'
      BY <2>4 DEF StartClaim, Startable, FoundNeg, FirstNeg, negVars
    <2>. QED  BY <2>1, <2>2, <2>3, <2>4 DEF ServiceInv
  <1>4. CASE ServeOn
    <2>1. UNCHANGED <<rtcVars, power>>
      BY <1>4 DEF ServeOn
    <2>2. PowerAt("stop") => RtcValid'
      BY <2>1 DEF ServiceInv, RtcValid, rtcVars
    <2>3. httpd \in HttpType
      BY DEF TypeInv, TypeOK, HttpType
    <2>4. Starting' => StartPid
      BY <1>4, <2>3 DEF ServeOn, Continue, NegContinue, XferContinue, OfferState, OfferPid,
                        OfferApply, StartApply, Tell, Goto, Starting, Idle, HttpType
    <2>5. ASSUME StartPid PROVE Starting /\ httpd'.pid = httpd.pid /\ negTable' = negTable
      BY <2>3, <2>5 DEF StartPid, At, Goto, Starting, HttpType, negVars
    <2>6. Starting' => Startable(httpd.pid)'
      BY <2>4, <2>5 DEF ServiceInv, Startable, FoundNeg, FirstNeg
    <2>. QED  BY <2>1, <2>2, <2>6 DEF ServiceInv
  <1>5. CASE StartServer \/ ServerStopped \/ StopServer \/ UNCHANGED vars
    BY <1>2, <1>5 DEF StartServer, ServerStopped, StopServer, HttpStart, HttpStopped,
                      HttpStopRequest, vars, negVars, xferVars
  <1>6. CASE EnterDeepSleep
    <2>1. httpd' = httpd /\ negTable' = negTable /\ power'.pc = "neg"
      BY <1>6 DEF EnterDeepSleep, SaveBegin, httpVars, negVars
    <2>. QED  BY <2>1 DEF ServiceInv, Starting, Startable, FoundNeg, FirstNeg
  <1>7. CASE Save
    <2>1. httpd' = httpd /\ negTable' = negTable
      BY <1>7 DEF Save, httpVars, negVars
    <2>2. power \in PowerType
      BY DEF TypeInv, TypeOK, PowerType
    <2>3. power'.pc = "stop" => SaveSeal
      BY <1>7, <2>2 DEF Save, SaveStep, SaveNegState, SaveNegPid, SaveXferState,
                        SaveXferPid, NextSlot, PowerType
    <2>4. SaveSeal => RtcValid'
      BY DEF SaveSeal, RtcValid
    <2>. QED  BY <2>1, <2>3, <2>4 DEF ServiceInv, Starting, Startable, FoundNeg, FirstNeg
  <1>8. CASE Sleep \/ Reset
    BY <1>1, <1>8 DEF Sleep, Reset, LoseRam
  <1>9. CASE Wake \/ InitModules \/ RestoreTables \/ SkipRestore \/ Corrupt
    <2>1. httpd' = httpd /\ power.pc \in {"asleep", "boot", "wake"} /\ power'.pc # "stop"
      BY <1>9 DEF Wake, InitModules, RestoreTables, SkipRestore, Corrupt, httpVars
    <2>. QED  BY <1>1, <2>1 DEF SlotInv, BootInv, Booting
  <1>10. CASE ResumeServer
    BY <1>2, <1>10 DEF ResumeServer, HttpStart, httpVars, negVars
  <1>. QED
    BY <1>3, <1>4, <1>5, <1>6, <1>7, <1>8, <1>9, <1>10 DEF Next, ServerNext, PowerNext

LEMMA ServiceInvariant == Spec => []ServiceInv
  <1>. USE PidAssumption, NegAssumption, XferAssumption, PowerAssumption
  <1>1. Init => ServiceInv
    BY DEF Init, ServiceInv, Starting, Idle, PowerAt
  <1>. QED  BY <1>1, NextService, TypeInvariant, SlotInvariant, PTL DEF Spec

-----------------------------------------------------------------------------
(* The steps of an awake node as a consumer sees them.                     *)

LEMMA SameView ==
    ASSUME NegHeld' = NegHeld, XferHeld' = XferHeld
    PROVE  ContractView' = ContractView /\ TransferView' = TransferView
  BY ViewsAre

LEMMA NothingHeld ==
    ASSUME NegHeld = NegZero, XferHeld = XferZero
    PROVE  Service!Nothing
  <1>1. \A p : NegSeen(NegZero, p) = "None" /\ XferSeen(XferZero, p) = "None"
    BY DEF NegSeen, XferSeen, FirstNeg, FirstXfer, NegZero, XferZero
  <1>. QED  BY <1>1, ViewsAre DEF Service!Nothing

LEMMA RamHeld == /\ InRam => NegHeld = negTable /\ XferHeld = xferTable
                 /\ InRam' => NegHeld' = negTable' /\ XferHeld' = xferTable'
  BY DEF NegHeld, XferHeld

(* A store to the state of slot i, which identifier q finds there.         *)
LEMMA ContractMoves ==
    ASSUME InRam, InRam', NEW i \in NegSlot, NEW q \in Pid,
           negTable \in [NegSlot -> NegEntry], negTable' \in [NegSlot -> NegEntry],
           negTable[i].cpid = q,
           \A j \in NegSlot :
              negTable'[j].active = negTable[j].active /\ negTable'[j].cpid = negTable[j].cpid,
           \A j \in NegSlot \ {i} : negTable'[j].state = negTable[j].state
    PROVE  /\ FirstNeg(negTable, q, i) =>
                 /\ ContractView[q] = ContractOf[negTable[i].state]
                 /\ ContractView' = [ContractView EXCEPT ![q] = ContractOf[negTable'[i].state]]
           /\ ~FirstNeg(negTable, q, i) => ContractView' = ContractView
  <1>1. \A p \in Pid : NegSeen(negTable', p) = IF FirstNeg(negTable, p, i)
                                               THEN ContractOf[negTable'[i].state]
                                               ELSE NegSeen(negTable, p)
    BY NegSeenStep
  <1>2. \A p : FirstNeg(negTable, p, i) => p = q
    BY DEF FirstNeg
  <1>3. /\ ContractView = [p \in Pid |-> NegSeen(negTable, p)]
        /\ ContractView' = [p \in Pid |-> NegSeen(negTable', p)]
    BY ViewsAre, RamHeld
  <1>4. FirstNeg(negTable, q, i) => NegSeen(negTable, q) = ContractOf[negTable[i].state]
    BY NegSeenAt
  <1>. QED  BY <1>1, <1>2, <1>3, <1>4

LEMMA TransferMoves ==
    ASSUME InRam, InRam', NEW i \in XferSlot, NEW q \in Pid,
           xferTable \in [XferSlot -> XferEntry], xferTable' \in [XferSlot -> XferEntry],
           xferTable[i].pid = q,
           \A j \in XferSlot :
              xferTable'[j].active = xferTable[j].active /\ xferTable'[j].pid = xferTable[j].pid,
           \A j \in XferSlot \ {i} : xferTable'[j].state = xferTable[j].state
    PROVE  /\ FirstXfer(xferTable, q, i) =>
                 /\ TransferView[q] = TransferOf[xferTable[i].state]
                 /\ TransferView' = [TransferView EXCEPT ![q] = TransferOf[xferTable'[i].state]]
           /\ ~FirstXfer(xferTable, q, i) => TransferView' = TransferView
  <1>1. \A p \in Pid : XferSeen(xferTable', p) = IF FirstXfer(xferTable, p, i)
                                                 THEN TransferOf[xferTable'[i].state]
                                                 ELSE XferSeen(xferTable, p)
    BY XferSeenStep
  <1>2. \A p : FirstXfer(xferTable, p, i) => p = q
    BY DEF FirstXfer
  <1>3. /\ TransferView = [p \in Pid |-> XferSeen(xferTable, p)]
        /\ TransferView' = [p \in Pid |-> XferSeen(xferTable', p)]
    BY ViewsAre, RamHeld
  <1>4. FirstXfer(xferTable, q, i) => XferSeen(xferTable, q) = TransferOf[xferTable[i].state]
    BY XferSeenAt
  <1>. QED  BY <1>1, <1>2, <1>3, <1>4

(* A table that nobody stores to shows the same.                           *)
LEMMA ContractStays == ASSUME InRam, InRam', negTable' = negTable
                       PROVE  ContractView' = ContractView
  BY RamHeld, ViewsAre

LEMMA TransferStays == ASSUME InRam, InRam', xferTable' = xferTable
                       PROVE  TransferView' = TransferView
  BY RamHeld, ViewsAre

LEMMA SeesRequest ==
    ASSUME PidAssumption, NegAssumption, XferAssumption, PowerAssumption,
           TypeInv, TypeInv', SlotInv, RamGood, Serve, InRam
    PROVE  [Service!ServiceNext]_(Service!serviceVars)
  <1>. USE DEF Service!ServiceNext, Service!serviceVars
  <1>1. /\ httpd = Idle /\ InRam'
        /\ negTable \in [NegSlot -> NegEntry] /\ negTable' \in [NegSlot -> NegEntry]
        /\ xferTable \in [XferSlot -> XferEntry] /\ xferTable' \in [XferSlot -> XferEntry]
    BY DEF Serve, Request, NegRequest, XferRequest, OfferClaim, Agree, Terminate, NegGet,
           StartClaim, Complete, XferGet, Ready, InRam, TypeInv, TypeOK
  <1>2. /\ \A i \in NegSlot : NegWhole(negTable[i]) /\ NegBlank(negTable[i])
        /\ \A i \in XferSlot : XferWhole(xferTable[i]) /\ XferBlank(xferTable[i])
        /\ NegPacked(negTable) /\ XferPacked(xferTable)
    BY <1>1 DEF RamGood, Good, NegGood, XferGood, Busy, OfferPc, Offering, Starting, Idle,
                SlotInv, Blank
  <1>3. ASSUME NEW p \in Pid, OfferClaim(p), UNCHANGED xferVars PROVE UNCHANGED Service!serviceVars
    <2>1. PICK i \in NegSlot : FreeNeg(i) /\ negTable' = [negTable EXCEPT ![i].active = TRUE]
      BY <1>3 DEF OfferClaim
    <2>2. ~negTable[i].active /\ \A j \in NegSlot : negTable[j].active => j <= i
      BY <1>2, <2>1 DEF FreeNeg, NegPacked, NegSlot
    <2>3. /\ \A j \in NegSlot \ {i} : negTable'[j] = negTable[j]
          /\ NegIs(negTable'[i], "INITIAL", NoPid)
      BY <1>1, <1>2, <2>1, <2>2 DEF NegBlank, NegIs, NegEntry
    <2>4. \A q \in Pid : NegSeen(negTable', q) = NegSeen(negTable, q)
      BY <2>2, <2>3, NegSeenHalf DEF NegIs, PidOrNone
    <2>5. xferTable' = xferTable
      BY <1>3 DEF xferVars
    <2>. QED  BY <1>1, <2>4, <2>5, ViewsAre, RamHeld, TransferStays
  <1>4. ASSUME NEW i \in NegSlot, NEW p \in Pid, FirstNeg(negTable, p, i),
               NEW e \in {"AGREE", "TERMINATE"}, dsp_neg_apply(i, e), xferTable' = xferTable
        PROVE  [Service!Agree(p) \/ Service!Terminate(p)]_(Service!serviceVars)
    <2>1. negTable[i].active /\ negTable[i].cpid = p
      BY <1>4 DEF FirstNeg
    <2>2. /\ \A j \in NegSlot \ {i} : negTable'[j] = negTable[j]
          /\ negTable'[i].active = negTable[i].active /\ negTable'[i].cpid = negTable[i].cpid
          /\ negTable'[i].state = dsp_neg_sm_next(negTable[i].state, e)
      BY <1>1, <1>4 DEF dsp_neg_apply, NegEntry
    <2>3. negTable[i].state \in {"OFFERED", "AGREED", "TERMINATED"}
      BY <1>2, <2>1 DEF NegWhole
    <2>4. \/ negTable'[i].state = negTable[i].state
          \/ negTable[i].state = "OFFERED" /\ negTable'[i].state = "AGREED"
          \/ negTable[i].state \in {"OFFERED", "AGREED"} /\ negTable'[i].state = "TERMINATED"
      BY <1>4, <2>2, <2>3 DEF dsp_neg_sm_next, NegTaken, NegTarget
    <2>5. /\ ContractView[p] = ContractOf[negTable[i].state]
          /\ ContractView' = [ContractView EXCEPT ![p] = ContractOf[negTable'[i].state]]
      <3>1. \A j \in NegSlot : /\ negTable'[j].active = negTable[j].active
                               /\ negTable'[j].cpid = negTable[j].cpid
        BY <2>2
      <3>2. \A j \in NegSlot \ {i} : negTable'[j].state = negTable[j].state
        BY <2>2
      <3>. QED  BY <1>1, <1>4, <2>1, <3>1, <3>2, ContractMoves
    <2>6. TransferView' = TransferView
      BY <1>1, <1>4, TransferStays
    <2>7. ContractView = [ContractView EXCEPT ![p] = ContractView[p]]
      BY DEF ContractView
    <2>8. CASE negTable'[i].state = negTable[i].state
      BY <2>5, <2>6, <2>7, <2>8
    <2>9. CASE negTable[i].state = "OFFERED" /\ negTable'[i].state = "AGREED"
      BY <2>5, <2>6, <2>9 DEF ContractOf, Service!Agree
    <2>10. CASE negTable[i].state \in {"OFFERED", "AGREED"} /\ negTable'[i].state = "TERMINATED"
      BY <2>5, <2>6, <2>10 DEF ContractOf, Service!Terminate
    <2>. QED  BY <2>4, <2>8, <2>9, <2>10
  <1>5. ASSUME NEW p \in Pid, Agree(p), UNCHANGED xferVars
        PROVE  [Service!ServiceNext]_(Service!serviceVars)
    <2>1. PICK i \in NegSlot : FoundByPath(p, i) /\ dsp_neg_apply(i, "AGREE")
      BY <1>5 DEF Agree
    <2>2. UriId[p] \in Pid /\ FirstNeg(negTable, UriId[p], i)
      BY <2>1 DEF FoundByPath, FoundNeg, PidAssumption
    <2>. QED  BY <1>4, <1>5, <2>1, <2>2 DEF xferVars
  <1>6. ASSUME NEW p \in Pid, Terminate(p), UNCHANGED xferVars
        PROVE  [Service!ServiceNext]_(Service!serviceVars)
    <2>1. PICK i \in NegSlot : FoundNeg(p, i) /\ dsp_neg_apply(i, "TERMINATE")
      BY <1>6 DEF Terminate
    <2>. QED  BY <1>4, <1>6, <2>1 DEF FoundNeg, xferVars
  <1>7. ASSUME NEW p \in Pid, (NegGet(p) /\ UNCHANGED xferVars) \/ XferGet(p)
        PROVE  UNCHANGED Service!serviceVars
    <2>1. negTable' = negTable /\ xferTable' = xferTable
      BY <1>7 DEF NegGet, XferGet, negVars, xferVars
    <2>. QED  BY <1>1, <2>1, ContractStays, TransferStays
  <1>8. ASSUME NEW p \in Pid, StartClaim(p) PROVE UNCHANGED Service!serviceVars
    <2>1. PICK i \in XferSlot :
              /\ FreeXfer(i)
              /\ xferTable' = [xferTable EXCEPT ![i].active = TRUE, ![i].state = "INITIAL"]
      BY <1>8 DEF StartClaim
    <2>2. ~xferTable[i].active /\ \A j \in XferSlot : xferTable[j].active => j <= i
      BY <1>2, <2>1 DEF FreeXfer, XferPacked, XferSlot
    <2>3. /\ \A j \in XferSlot \ {i} : xferTable'[j] = xferTable[j]
          /\ XferIs(xferTable'[i], "INITIAL", NoPid)
      BY <1>1, <1>2, <2>1, <2>2 DEF XferBlank, XferIs, XferEntry
    <2>4. \A q \in Pid : XferSeen(xferTable', q) = XferSeen(xferTable, q)
      BY <2>2, <2>3, XferSeenHalf DEF XferIs, PidOrNone
    <2>5. negTable' = negTable
      BY <1>8 DEF StartClaim, negVars
    <2>. QED  BY <1>1, <2>4, <2>5, ViewsAre, RamHeld, ContractStays
  <1>9. ASSUME NEW p \in Pid, Complete(p)
        PROVE  [Service!ServiceNext]_(Service!serviceVars)
    <2>1. PICK i \in XferSlot : /\ XferByPath(p, i) /\ xferTable[i].state = "TRANSFERRING"
                                /\ dsp_xfer_apply(i, "COMPLETE")
      BY <1>9 DEF Complete
    <2>. DEFINE q == UriId[p]
    <2>2. q \in Pid /\ FirstXfer(xferTable, q, i) /\ xferTable[i].pid = q
      BY <2>1 DEF XferByPath, FoundXfer, FirstXfer, PidAssumption
    <2>. HIDE DEF q
    <2>3. /\ \A j \in XferSlot \ {i} : xferTable'[j] = xferTable[j]
          /\ xferTable'[i].active = xferTable[i].active /\ xferTable'[i].pid = xferTable[i].pid
          /\ xferTable'[i].state = "COMPLETED"
      BY <1>1, <2>1 DEF dsp_xfer_apply, dsp_xfer_sm_next, XferTaken, XferTarget, XferEntry
    <2>4. /\ TransferView[q] = "Transferring"
          /\ TransferView' = [TransferView EXCEPT ![q] = "Completed"]
      BY <1>1, <2>1, <2>2, <2>3, TransferMoves DEF TransferOf
    <2>5. ContractView' = ContractView
      BY <1>1, <1>9, ContractStays DEF Complete, negVars
    <2>. QED  BY <2>2, <2>4, <2>5 DEF Service!Complete
  <1>. QED
    BY <1>3, <1>5, <1>6, <1>7, <1>8, <1>9 DEF Serve, Request, NegRequest, XferRequest

LEMMA SeesContinue ==
    ASSUME PidAssumption, NegAssumption, XferAssumption, PowerAssumption,
           TypeInv, TypeInv', SlotInv, RamGood, ServiceInv, ServeOn, InRam
    PROVE  [Service!ServiceNext]_(Service!serviceVars)
  <1>. USE DEF Service!ServiceNext, Service!serviceVars
  <1>1. /\ InRam' /\ httpd \in HttpType
        /\ negTable \in [NegSlot -> NegEntry] /\ negTable' \in [NegSlot -> NegEntry]
        /\ xferTable \in [XferSlot -> XferEntry] /\ xferTable' \in [XferSlot -> XferEntry]
    BY DEF ServeOn, InRam, TypeInv, TypeOK, HttpType
  <1>2. CASE NegContinue /\ UNCHANGED xferVars
    <2>. DEFINE i == httpd.slot
    <2>1. /\ Offering /\ i \in NegSlot /\ httpd.pid \in Pid /\ xferTable' = xferTable
      BY <1>2 DEF NegContinue, OfferState, OfferPid, OfferApply, At, TypeInv, SlotType,
                  OfferPc, Offering, xferVars
    <2>2. TransferView' = TransferView
      BY <1>1, <2>1, TransferStays
    <2>3. \A j \in NegSlot : negTable[j].active => j <= i
      BY <2>1 DEF RamGood, Busy
    <2>4. CASE OfferState
      <3>1. /\ \A j \in NegSlot \ {i} : negTable'[j] = negTable[j]
            /\ negTable[i].cpid = NoPid /\ NegIs(negTable'[i], "REQUESTED", NoPid)
        BY <1>1, <2>1, <2>4 DEF OfferState, SlotInv, NegHandled, NegIs, NegEntry
      <3>2. \A q \in Pid : NegSeen(negTable', q) = NegSeen(negTable, q)
        BY <2>1, <2>3, <3>1, NegSeenHalf DEF NegIs, PidOrNone
      <3>. QED  BY <1>1, <2>2, <3>2, ViewsAre, RamHeld
    <2>5. CASE OfferPid
      <3>1. /\ \A j \in NegSlot \ {i} : negTable'[j] = negTable[j]
            /\ negTable[i].cpid = NoPid /\ NegIs(negTable'[i], "REQUESTED", httpd.pid)
        BY <1>1, <2>1, <2>5 DEF OfferPid, SlotInv, NegHandled, NegIs, NegEntry
      <3>2. \A q \in Pid : NegSeen(negTable', q) = NegSeen(negTable, q)
        BY <2>1, <2>3, <3>1, NegSeenHalf DEF NegIs, PidOrNone
      <3>. QED  BY <1>1, <2>2, <3>2, ViewsAre, RamHeld
    <2>6. CASE OfferApply
      <3>1. dsp_neg_sm_next("REQUESTED", "OFFER") = "OFFERED"
        BY DEF dsp_neg_sm_next, NegTaken, NegTarget
      <3>2. /\ \A j \in NegSlot \ {i} : negTable'[j] = negTable[j]
            /\ NegIs(negTable[i], "REQUESTED", httpd.pid)
            /\ NegIs(negTable'[i], "OFFERED", httpd.pid)
        BY <1>1, <2>1, <2>6, <3>1
           DEF OfferApply, dsp_neg_apply, SlotInv, NegHandled, NegIs, NegEntry
      <3>3. /\ \A j \in NegSlot : /\ negTable'[j].active = negTable[j].active
                                  /\ negTable'[j].cpid = negTable[j].cpid
            /\ \A j \in NegSlot \ {i} : negTable'[j].state = negTable[j].state
        BY <1>1, <3>2 DEF NegIs, NegEntry
      <3>4. /\ FirstNeg(negTable, httpd.pid, i) =>
                  /\ ContractView[httpd.pid] = "None"
                  /\ ContractView' = [ContractView EXCEPT ![httpd.pid] = "Offered"]
            /\ ~FirstNeg(negTable, httpd.pid, i) => ContractView' = ContractView
        BY <1>1, <2>1, <3>2, <3>3, ContractMoves DEF NegIs, ContractOf
      <3>. QED  BY <2>1, <2>2, <3>4 DEF Service!Offer
    <2>. QED  BY <1>2, <2>4, <2>5, <2>6 DEF NegContinue
  <1>3. CASE XferContinue
    <2>. DEFINE i == httpd.slot
    <2>1. /\ Starting /\ i \in XferSlot /\ httpd.pid \in Pid /\ negTable' = negTable
      BY <1>3 DEF XferContinue, StartPid, StartApply, At, TypeInv, SlotType, Starting, negVars
    <2>2. ContractView' = ContractView
      BY <1>1, <2>1, ContractStays
    <2>3. \A j \in XferSlot : xferTable[j].active => j <= i
      BY <2>1 DEF RamGood, Busy
    <2>4. CASE StartPid
      <3>1. /\ \A j \in XferSlot \ {i} : xferTable'[j] = xferTable[j]
            /\ xferTable[i].pid = NoPid /\ XferIs(xferTable'[i], "INITIAL", httpd.pid)
        BY <1>1, <2>1, <2>4 DEF StartPid, SlotInv, XferHandled, XferIs, XferEntry
      <3>2. \A q \in Pid : XferSeen(xferTable', q) = XferSeen(xferTable, q)
        BY <2>1, <2>3, <3>1, XferSeenHalf DEF XferIs, PidOrNone
      <3>. QED  BY <1>1, <2>2, <3>2, ViewsAre, RamHeld
    <2>5. CASE StartApply
      <3>1. dsp_xfer_sm_next("INITIAL", "START") = "TRANSFERRING"
        BY DEF dsp_xfer_sm_next, XferTaken, XferTarget
      <3>2. /\ \A j \in XferSlot \ {i} : xferTable'[j] = xferTable[j]
            /\ XferIs(xferTable[i], "INITIAL", httpd.pid)
            /\ XferIs(xferTable'[i], "TRANSFERRING", httpd.pid)
        BY <1>1, <2>1, <2>5, <3>1
           DEF StartApply, dsp_xfer_apply, SlotInv, XferHandled, XferIs, XferEntry
      <3>3. /\ \A j \in XferSlot : /\ xferTable'[j].active = xferTable[j].active
                                   /\ xferTable'[j].pid = xferTable[j].pid
            /\ \A j \in XferSlot \ {i} : xferTable'[j].state = xferTable[j].state
        BY <1>1, <3>2 DEF XferIs, XferEntry
      <3>4. /\ FirstXfer(xferTable, httpd.pid, i) =>
                  /\ TransferView[httpd.pid] = "None"
                  /\ TransferView' = [TransferView EXCEPT ![httpd.pid] = "Transferring"]
            /\ ~FirstXfer(xferTable, httpd.pid, i) => TransferView' = TransferView
        BY <1>1, <2>1, <3>2, <3>3, TransferMoves DEF XferIs, TransferOf
      <3>5. ContractView[httpd.pid] = "Agreed"
        <4>1. PICK n \in NegSlot : /\ FirstNeg(negTable, httpd.pid, n)
                                   /\ negTable[n].state = "AGREED"
          BY <2>1 DEF ServiceInv, Startable, FoundNeg
        <4>2. NegSeen(negTable, httpd.pid) = "Agreed"
          BY <4>1, NegSeenAt DEF ContractOf
        <4>. QED  BY <2>1, <4>2, ViewsAre, RamHeld
      <3>. QED  BY <2>1, <2>2, <3>4, <3>5 DEF Service!Start
    <2>. QED  BY <1>3, <2>4, <2>5 DEF XferContinue
  <1>. QED  BY <1>2, <1>3 DEF ServeOn, Continue

-----------------------------------------------------------------------------
(* The steps of the power manager: the tables go into the image and come   *)
(* back, or all is forgotten.                                              *)

LEMMA SeesPower ==
    ASSUME PidAssumption, NegAssumption, XferAssumption, PowerAssumption,
           TypeInv, SlotInv, QuietInv, ServiceInv, [Next]_vars, ~Serve, ~ServeOn
    PROVE  [Service!Forget]_(Service!serviceVars)
  <1>. USE DEF PowerAt, PowerGoto
  <1>1. ASSUME NegHeld' = NegHeld, XferHeld' = XferHeld
        PROVE  UNCHANGED Service!serviceVars
    BY <1>1, SameView DEF Service!serviceVars
  <1>2. ASSUME ~InRam', ~InRtc' PROVE Service!Forget
    <2>1. NegHeld' = NegZero /\ XferHeld' = XferZero
      BY <1>2 DEF NegHeld, XferHeld, NegZero, XferZero
    <2>2. \A p : NegSeen(NegZero, p) = "None" /\ XferSeen(XferZero, p) = "None"
      BY DEF NegSeen, XferSeen, FirstNeg, FirstXfer, NegZero, XferZero
    <2>. QED  BY <2>1, <2>2, ViewsAre DEF Service!Forget, Service!Nothing
  <1>3. CASE StartServer \/ ServerStopped \/ StopServer \/ UNCHANGED vars
    <2>1. UNCHANGED <<negTable, xferTable, rtcVars, power, cause>>
      BY <1>3 DEF StartServer, ServerStopped, StopServer, HttpStart, HttpStopped,
                  HttpStopRequest, vars, negVars, xferVars
    <2>. QED  BY <1>1, <2>1 DEF NegHeld, XferHeld, InRam, InRtc, RtcValid, Restorable, rtcVars,
                                NegZero, XferZero
  <1>4. CASE EnterDeepSleep \/ Save \/ ResumeServer
    <2>1. power \in PowerType
      BY DEF TypeInv, TypeOK, PowerType
    <2>2. InRam /\ InRam' /\ UNCHANGED <<negTable, xferTable>>
      BY <1>4, <2>1 DEF EnterDeepSleep, SaveBegin, Save, SaveStep, SaveNegState, SaveNegPid,
                        SaveXferState, SaveXferPid, SaveSeal, NextSlot, ResumeServer, InRam,
                        negVars, xferVars, PowerType
    <2>. QED  BY <1>1, <2>2, RamHeld
  <1>5. CASE Sleep
    <2>1. /\ InRam /\ ~InRam' /\ power'.pc = "asleep" /\ RtcValid /\ UNCHANGED rtcVars
          /\ rtcNeg = negTable /\ rtcXfer = xferTable
      BY <1>5 DEF Sleep, InRam, ServiceInv, QuietInv, CopyInv
    <2>2. InRtc'
      BY <2>1 DEF InRtc, RtcValid, rtcVars
    <2>. QED  BY <1>1, <2>1, <2>2 DEF NegHeld, XferHeld, rtcVars
  <1>6. CASE Wake
    <2>1. ~InRam /\ ~InRam' /\ UNCHANGED rtcVars /\ (InRtc <=> RtcValid) /\ power'.pc = "boot"
      BY <1>6 DEF Wake, InRam, InRtc
    <2>2. RtcValid' <=> RtcValid
      BY <2>1 DEF RtcValid, rtcVars
    <2>3. CASE cause' = "TIMER"
      <3>1. InRtc' <=> InRtc
        BY <2>1, <2>2, <2>3 DEF InRtc, Restorable
      <3>. QED  BY <1>1, <2>1, <3>1 DEF NegHeld, XferHeld, rtcVars, NegZero, XferZero
    <2>4. CASE cause' # "TIMER"
      <3>1. ~InRtc'
        BY <2>1, <2>4 DEF InRtc, Restorable
      <3>. QED  BY <1>2, <2>1, <3>1
    <2>. QED  BY <2>3, <2>4
  <1>7. CASE InitModules
    <2>1. /\ ~InRam /\ ~InRam' /\ UNCHANGED <<rtcVars, cause>>
          /\ power.pc = "boot" /\ power'.pc = "wake"
      BY <1>7 DEF InitModules, InRam
    <2>2. InRtc' <=> InRtc
      BY <2>1 DEF InRtc, Restorable, RtcValid, rtcVars
    <2>. QED  BY <1>1, <2>1, <2>2 DEF NegHeld, XferHeld, rtcVars, NegZero, XferZero
  <1>8. CASE RestoreTables
    <2>1. ~InRam /\ InRtc /\ InRam'
      BY <1>8 DEF RestoreTables, InRam, InRtc
    <2>2. negTable' = rtcNeg /\ xferTable' = rtcXfer
      BY <1>8, RestoredTables
    <2>. QED  BY <1>1, <2>1, <2>2 DEF NegHeld, XferHeld
  <1>9. CASE SkipRestore
    <2>1. ~InRam /\ ~InRtc /\ InRam' /\ negTable' = NegZero /\ xferTable' = XferZero
      BY <1>9 DEF SkipRestore, InRam, InRtc, SlotInv, BootInv, negVars, xferVars
    <2>. QED  BY <1>1, <2>1 DEF NegHeld, XferHeld, NegZero, XferZero
  <1>10. CASE Corrupt
    <2>1. ~InRam' /\ power'.pc = "asleep" /\ rtcCrc' = <<>>
      BY <1>10 DEF Corrupt, InRam
    <2>2. ~InRtc'
      BY <2>1 DEF InRtc, RtcValid
    <2>. QED  BY <1>2, <2>1, <2>2
  <1>11. CASE Reset
    <2>1. ~InRam' /\ ~InRtc'
      BY <1>11 DEF Reset, InRam, InRtc, Restorable
    <2>. QED  BY <1>2, <2>1
  <1>. QED
    BY <1>3, <1>4, <1>5, <1>6, <1>7, <1>8, <1>9, <1>10, <1>11 DEF Next, ServerNext, PowerNext

(* Deep sleep is invisible: a node that is left in peace while it goes to  *)
(* sleep implements ContractService, for any identifiers and any number of *)
(* slots, whatever wakes it and whatever becomes of the image.             *)
THEOREM QuietService == ASSUME ~LateRequests PROVE Spec => ImplementsService
  <1>. USE PidAssumption, NegAssumption, XferAssumption, PowerAssumption
  <1>1. Init => Service!Nothing
    <2>. SUFFICES ASSUME Init PROVE Service!Nothing
      OBVIOUS
    <2>1. NegHeld = NegZero /\ XferHeld = XferZero
      BY DEF Init, NegHeld, XferHeld, InRam, InRtc, Restorable, PowerAt
    <2>. QED  BY <2>1, NothingHeld
  <1>2. TypeInv /\ TypeInv' /\ SlotInv /\ QuietInv /\ ServiceInv /\ [Next]_vars
           => [Service!ServiceNext]_(Service!serviceVars)
    <2>. SUFFICES ASSUME TypeInv, TypeInv', SlotInv, QuietInv, ServiceInv, [Next]_vars
                  PROVE  [Service!ServiceNext]_(Service!serviceVars)
      OBVIOUS
    <2>1. CASE Serve
      <3>1. InRam /\ RamGood
        BY <2>1 DEF Serve, PowerAt, InRam, QuietInv, Awake
      <3>. QED  BY <2>1, <3>1, SeesRequest
    <2>2. CASE ServeOn
      <3>1. httpd # Idle
        BY <2>2 DEF ServeOn, Continue, NegContinue, XferContinue, OfferState, OfferPid,
                    OfferApply, StartPid, StartApply, At, Idle
      <3>2. InRam /\ RamGood
        BY <3>1 DEF QuietInv, Still, PowerAt, InRam, Awake
      <3>. QED  BY <2>2, <3>2, SeesContinue
    <2>3. CASE ~Serve /\ ~ServeOn
      BY <2>3, SeesPower DEF Service!ServiceNext
    <2>. QED  BY <2>1, <2>2, <2>3
  <1>. QED
    BY <1>1, <1>2, TypeInvariant, SlotInvariant, QuietInvariant, ServiceInvariant, PTL
       DEF Spec, ImplementsService, Service!ServiceSpec
=============================================================================
