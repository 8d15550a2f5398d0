---------------------------- MODULE DspWifiProofs ----------------------------
(***************************************************************************)
(* Proofs about the WiFi manager, for every max_retry and every length of  *)
(* the event queue: if the caller's transitions do not overlap with those  *)
(* of the other tasks, the count stays within max_retry and giving up is   *)
(* final, whatever the timer callback interrupts; and if esp_wifi_start    *)
(* does not fail either, the manager is never left waiting for nothing and *)
(* the application never with a wrong belief.                              *)
(***************************************************************************)
EXTENDS DspWifi, SequenceTheorems, TLAPS

-----------------------------------------------------------------------------
(* The inductive invariant. *)

(* Each task has its own inputs.                                           *)
Inputs == [t \in Task |-> CASE t = "caller" -> {"CONNECT", "DISCONNECT"}
                            [] t = "event"  -> {"CONNECTED", "DISCONNECTED"}
                            [] OTHER        -> {"RETRY"}]

OwnInputs == \A t \in Task : InTransition(t) => tasks[t].input \in Inputs[t]

(* The caller's transition excludes the others (Serial).                   *)
CallerAlone == Midway("caller") => ~Midway("event") /\ ~Midway("timer")

(* A transition is computed from what was loaded.                          *)
Computed == \A t \in Task : Midway(t) =>
    tasks[t].to = dsp_wifi_sm_next(tasks[t].seen, tasks[t].input, tasks[t].n)

Pending(t) == tasks[t].pc \in {"count", "store"}

(* Until it is stored, what was loaded is still so, but for a timer        *)
(* callback that interrupts the event task.                                *)
Fresh == /\ \A t \in Task : Pending(t) =>
              \/ tasks[t].seen = state
              \/ t = "event" /\ tasks[t].seen = "RECONNECTING"
                             /\ state = "CONNECTING"
         /\ \A t \in Task : At(t, "count") => tasks[t].n = retry

(* The count between its store and the state's store.                      *)
GivingUp == /\ At("event", "store")
            /\ tasks["event"].to = To("FAILED", "add")

Counted == /\ \A t \in Task : At(t, "store") /\ tasks[t].to.count = "clear"
                                  => retry = 0
           /\ state = "FAILED" \/ retry < MaxRetry \/ GivingUp

Inv == TypeOK /\ OwnInputs /\ CallerAlone /\ Computed /\ Fresh /\ Counted

-----------------------------------------------------------------------------
(* Type correctness of one step, action by action. *)

LEMMA RestingType == Resting \in TaskState
<1> QED BY WifiAssumption DEF Resting, TaskState, WifiInput, WifiState, Transition, To

LEMMA SmNextType ==
    ASSUME NEW s \in WifiState, NEW input \in WifiInput, NEW n \in Nat
    PROVE  dsp_wifi_sm_next(s, input, n) \in Transition
<1> QED BY DEF dsp_wifi_sm_next, Transition, To, WifiState, WifiInput,
               AfterLoss, AfterRetry

LEMMA InitInv == Init => Inv
<1> SUFFICES ASSUME Init PROVE Inv OBVIOUS
<1>1. TypeOK
  <2>1. tasks \in [Task -> TaskState]
    BY RestingType DEF Init
  <2>2. events \in Seq({"start", "disconnected", "got_ip"}) /\ Len(events) <= MaxEvents
    BY WifiAssumption DEF Init
  <2>3. state \in WifiState /\ retry \in 0..MaxRetry
    BY WifiAssumption DEF Init, WifiState
  <2> QED
    BY <2>1, <2>2, <2>3 DEF Init, TypeOK
<1>2. \A t \in Task : tasks[t].pc = "rest"
  BY DEF Init, Resting
<1>3. OwnInputs /\ CallerAlone /\ Computed
  BY <1>2 DEF OwnInputs, CallerAlone, Computed, InTransition, Midway, Task
<1>4. Fresh /\ Counted
  BY <1>2, WifiAssumption DEF Fresh, Counted, Pending, At, Init
<1> QED BY <1>1, <1>3, <1>4 DEF Inv

(* What a task does outside its transition: the state and the count stand, *)
(* and the task ends up resting, waiting, or about to load.                *)
Outcome(t) == \E new \in TaskState :
    /\ tasks' = [tasks EXCEPT ![t] = new]
    /\ new.pc \in {"rest", "connect", "stop", "load"}
    /\ new.pc = "load" => new.input \in Inputs[t]

Elsewhere(t) == /\ tasks[t].pc \in {"rest", "connect", "stop", "start"}
                /\ Outcome(t)
                /\ UNCHANGED <<state, retry>>

LEMMA ElsewhereKeepsInv ==
    ASSUME Inv, NEW t \in Task, Elsewhere(t), TypeOK'
    PROVE  Inv'
<1>1. PICK new \in TaskState :
          /\ tasks' = [tasks EXCEPT ![t] = new]
          /\ new.pc \in {"rest", "connect", "stop", "load"}
          /\ new.pc = "load" => new.input \in Inputs[t]
  BY DEF Elsewhere, Outcome
<1>2. /\ tasks'[t] = new
      /\ \A u \in Task \ {t} : tasks'[u] = tasks[u]
      /\ \A u \in Task : Midway(u)' => u # t /\ Midway(u)
  BY <1>1 DEF Inv, TypeOK, Midway
<1>3. state' = state /\ retry' = retry
  BY DEF Elsewhere
<1>4. OwnInputs'
  BY <1>1, <1>2 DEF Inv, OwnInputs, InTransition
<1>5. CallerAlone' /\ Computed'
  BY <1>2 DEF Inv, CallerAlone, Computed, Task
<1>6. Fresh' /\ Counted'
  BY <1>1, <1>2, <1>3 DEF Inv, Fresh, Counted, Pending, At, Midway, GivingUp,
                          Elsewhere, Task
<1> QED BY <1>4, <1>5, <1>6 DEF Inv

-----------------------------------------------------------------------------
(* Everything outside the transitions: events, timer, driver, API calls. *)

LEMMA ConnectType ==
    ASSUME TypeOK, esp_wifi_connect
    PROVE  link' \in {"stopped", "idle", "trying", "up"}
<1> QED BY DEF esp_wifi_connect, TypeOK

LEMMA PostType ==
    ASSUME TypeOK, HasRoom, NEW e \in {"start", "disconnected", "got_ip"}, Post(e)
    PROVE  events' \in Seq({"start", "disconnected", "got_ip"}) /\ Len(events') <= MaxEvents
<1> QED BY WifiAssumption DEF HasRoom, Post, TypeOK

LEMMA OutcomeType ==
    ASSUME TypeOK, NEW t \in Task, Outcome(t)
    PROVE  tasks' \in [Task -> TaskState]
<1> QED BY DEF Outcome, TypeOK

LEMMA FeedOutcome ==
    ASSUME NEW t \in Task, NEW input \in Inputs[t], Feed(t, input)
    PROVE  Outcome(t)
<1> DEFINE new == [Resting EXCEPT !.pc = "load", !.input = input]
<1>1. input \in WifiInput
  BY DEF Inputs, WifiInput, Task
<1>2. new \in TaskState /\ new.pc = "load" /\ new.input = input
  BY <1>1, RestingType DEF TaskState, Resting
<1>3. tasks' = [tasks EXCEPT ![t] = new]
  BY DEF Feed
<1> QED BY <1>2, <1>3 DEF Outcome

LEMMA GotoOutcome ==
    ASSUME TypeOK, NEW t \in Task, NEW pc \in {"connect", "stop"}, Goto(t, pc)
    PROVE  Outcome(t)
<1> DEFINE new == [tasks[t] EXCEPT !.pc = pc]
<1>1. new \in TaskState /\ new.pc = pc
  BY DEF TypeOK, TaskState
<1>2. tasks' = [tasks EXCEPT ![t] = new]
  BY DEF Goto
<1> QED BY <1>1, <1>2 DEF Outcome

LEMMA RestOutcome ==
    ASSUME NEW t \in Task, Rest(t)
    PROVE  Outcome(t)
<1> QED BY RestingType DEF Rest, Resting, Outcome

LEMMA TakeType ==
    ASSUME TypeOK, NEW e, Take(e)
    PROVE  events' \in Seq({"start", "disconnected", "got_ip"}) /\ Len(events') <= MaxEvents
<1>1. events' \in Seq({"start", "disconnected", "got_ip"}) /\ Len(events') = Len(events) - 1
  BY HeadTailProperties DEF Take, TypeOK
<1> QED BY <1>1, WifiAssumption, LenProperties DEF TypeOK

(* The other variables of a step that leaves state and retry alone.        *)
LEMMA RestOfType ==
    ASSUME TypeOK, UNCHANGED <<state, retry>>,
           tasks' \in [Task -> TaskState],
           armed' \in BOOLEAN,
           link' \in {"stopped", "idle", "trying", "up"},
           events' \in Seq({"start", "disconnected", "got_ip"}),
           Len(events') <= MaxEvents,
           heard' \in {"none", "CONNECTED", "DISCONNECTED", "RECONNECTING", "FAILED"}
    PROVE  TypeOK'
<1> QED BY DEF TypeOK, TaskState

LEMMA DriverInv ==
    ASSUME Inv, Driver
    PROVE  Inv'
<1>1. UNCHANGED <<state, retry, armed, tasks, heard>>
  BY DEF Driver, AttemptFails, GetsIp, LosesLink
<1>2. TypeOK
  BY DEF Inv
<1>3. link' \in {"stopped", "idle", "trying", "up"}
  BY <1>2 DEF Driver, AttemptFails, GetsIp, LosesLink, TypeOK
<1>4. events' \in Seq({"start", "disconnected", "got_ip"}) /\ Len(events') <= MaxEvents
  BY <1>2, PostType DEF Driver, AttemptFails, GetsIp, LosesLink
<1>5. TypeOK'
  BY <1>1, <1>2, <1>3, <1>4, RestOfType DEF TypeOK, TaskState
<1>6. OwnInputs' /\ CallerAlone' /\ Computed' /\ Fresh' /\ Counted'
  BY <1>1 DEF Inv, OwnInputs, CallerAlone, Computed, Fresh, Counted,
              InTransition, Midway, Pending, At, GivingUp
<1> QED BY <1>5, <1>6 DEF Inv

(* The same for the steps of a task outside its transition.                *)
LEMMA OutsideInv ==
    ASSUME Inv,
           \/ TimerExpires \/ TimerConnects
           \/ OnStart \/ OnDisconnected \/ OnGotIp
           \/ ConnectCall \/ esp_wifi_start \/ DisconnectCall \/ esp_wifi_stop
    PROVE  Inv'
<1> USE DEF Inv
<1>t. "caller" \in Task /\ "event" \in Task /\ "timer" \in Task
  BY DEF Task
<1>i. /\ Inputs["timer"] = {"RETRY"}
      /\ Inputs["event"] = {"CONNECTED", "DISCONNECTED"}
      /\ Inputs["caller"] = {"CONNECT", "DISCONNECT"}
  BY DEF Inputs, Task
<1>1. CASE TimerExpires
  <2>1. Elsewhere("timer")
    BY <1>1, <1>t, GotoOutcome DEF Elsewhere, TimerExpires, At
  <2>2. TypeOK'
    BY <1>1, <1>t, <2>1, OutcomeType, RestOfType DEF Elsewhere, TimerExpires, TypeOK
  <2> QED BY <1>t, <2>1, <2>2, ElsewhereKeepsInv
<1>2. CASE TimerConnects
  <2>1. Elsewhere("timer")
    BY <1>2, <1>t, <1>i, FeedOutcome DEF Elsewhere, TimerConnects, At
  <2>2. tasks' \in [Task -> TaskState]
    BY <1>t, <2>1, OutcomeType DEF Elsewhere
  <2>3. TypeOK'
    BY <1>2, <2>2, ConnectType, RestOfType DEF TimerConnects, TypeOK
  <2> QED BY <1>t, <2>1, <2>3, ElsewhereKeepsInv
<1>3. CASE OnStart
  <2>1. UNCHANGED <<state, retry, tasks>>
    BY <1>3 DEF OnStart
  <2>2. events' \in Seq({"start", "disconnected", "got_ip"}) /\ Len(events') <= MaxEvents
    BY <1>3, TakeType DEF OnStart
  <2>3. TypeOK'
    BY <1>3, <2>1, <2>2, ConnectType, RestOfType DEF OnStart, TypeOK, TaskState
  <2> QED BY <2>1, <2>3 DEF OwnInputs, CallerAlone, Computed, Fresh, Counted,
              InTransition, Midway, Pending, At, GivingUp
<1>4. CASE OnDisconnected \/ OnGotIp
  <2>1. Elsewhere("event")
    BY <1>4, <1>t, <1>i, FeedOutcome
       DEF Elsewhere, OnDisconnected, OnGotIp, Take, At
  <2>2. tasks' \in [Task -> TaskState]
    BY <1>t, <2>1, OutcomeType DEF Elsewhere
  <2>3. events' \in Seq({"start", "disconnected", "got_ip"}) /\ Len(events') <= MaxEvents
    BY <1>4, TakeType DEF OnDisconnected, OnGotIp
  <2>4. TypeOK'
    BY <1>4, <2>1, <2>2, <2>3, RestOfType DEF OnDisconnected, OnGotIp, TypeOK
  <2> QED BY <1>t, <2>1, <2>4, ElsewhereKeepsInv
<1>5. CASE ConnectCall
  <2>1. Elsewhere("caller")
    BY <1>5, <1>t, <1>i, FeedOutcome DEF Elsewhere, ConnectCall, At
  <2>2. tasks' \in [Task -> TaskState]
    BY <1>t, <2>1, OutcomeType DEF Elsewhere
  <2>3. TypeOK'
    BY <1>5, <2>1, <2>2, RestOfType DEF ConnectCall, TypeOK
  <2> QED BY <1>t, <2>1, <2>3, ElsewhereKeepsInv
<1>6. CASE esp_wifi_start
  <2>1. Elsewhere("caller")
    BY <1>6, <1>t, RestOutcome DEF Elsewhere, esp_wifi_start, At
  <2>2. tasks' \in [Task -> TaskState]
    BY <1>t, <2>1, OutcomeType DEF Elsewhere
  <2>3. /\ events' \in Seq({"start", "disconnected", "got_ip"})
        /\ Len(events') <= MaxEvents
        /\ link' \in {"stopped", "idle", "trying", "up"}
    BY <1>6, PostType DEF esp_wifi_start, TypeOK
  <2>4. TypeOK'
    BY <1>6, <2>1, <2>2, <2>3, RestOfType DEF esp_wifi_start, TypeOK
  <2> QED BY <1>t, <2>1, <2>4, ElsewhereKeepsInv
<1>7. CASE DisconnectCall
  <2>1. Elsewhere("caller")
    BY <1>7, <1>t, GotoOutcome DEF Elsewhere, DisconnectCall, At
  <2>2. tasks' \in [Task -> TaskState]
    BY <1>t, <2>1, OutcomeType DEF Elsewhere
  <2>3. TypeOK'
    BY <1>7, <2>1, <2>2, RestOfType DEF DisconnectCall, TypeOK
  <2> QED BY <1>t, <2>1, <2>3, ElsewhereKeepsInv
<1>8. CASE esp_wifi_stop
  <2>1. Elsewhere("caller")
    BY <1>8, <1>t, <1>i, FeedOutcome DEF Elsewhere, esp_wifi_stop, At
  <2>2. tasks' \in [Task -> TaskState]
    BY <1>t, <2>1, OutcomeType DEF Elsewhere
  <2>3. events' \in Seq({"start", "disconnected", "got_ip"}) /\ Len(events') <= MaxEvents
    BY <1>8, PostType DEF esp_wifi_stop, TypeOK
  <2>4. TypeOK'
    BY <1>8, <2>1, <2>2, <2>3, RestOfType DEF esp_wifi_stop, TypeOK
  <2> QED BY <1>t, <2>1, <2>4, ElsewhereKeepsInv
<1> QED BY <1>1, <1>2, <1>3, <1>4, <1>5, <1>6, <1>7, <1>8

-----------------------------------------------------------------------------
(* The steps of a transition. *)

(* A step of t's transition may replace t's record and nothing else that   *)
(* the invariant is about, but for the state or the count.                 *)
LEMMA StepTasks ==
    ASSUME TypeOK, NEW t \in Task, NEW new, tasks' = [tasks EXCEPT ![t] = new]
    PROVE  tasks'[t] = new /\ \A u \in Task \ {t} : tasks'[u] = tasks[u]
<1> QED BY DEF TypeOK

LEMMA LoadInv ==
    ASSUME Inv, Serial, NEW t \in Task, MayRun(t), Load(t)
    PROVE  Inv'
<1> DEFINE new == [tasks[t] EXCEPT !.pc = "count", !.seen = state, !.n = retry,
                     !.to = dsp_wifi_sm_next(state, tasks[t].input, retry)]
<1>1. tasks[t] \in TaskState /\ state \in WifiState /\ retry \in 0..MaxRetry
  BY DEF Inv, TypeOK
<1>2. dsp_wifi_sm_next(state, tasks[t].input, retry) \in Transition
  BY <1>1, SmNextType, WifiAssumption DEF TaskState
<1>3. /\ new \in TaskState /\ new.pc = "count" /\ new.input = tasks[t].input
      /\ new.seen = state /\ new.n = retry
      /\ new.to = dsp_wifi_sm_next(state, tasks[t].input, retry)
  BY <1>1, <1>2 DEF TaskState
<1>4. tasks' = [tasks EXCEPT ![t] = new]
  BY DEF Load
<1>5. tasks'[t] = new /\ \A u \in Task \ {t} : tasks'[u] = tasks[u]
  BY <1>4, StepTasks DEF Inv
<1>6. UNCHANGED <<state, retry, armed, link, events, heard>>
  BY DEF Load
<1>7. TypeOK'
  BY <1>3, <1>4, <1>6 DEF Inv, TypeOK
<1>8. OwnInputs'
  BY <1>3, <1>5 DEF Inv, OwnInputs, InTransition, Load, At
<1>9. CallerAlone'
  BY <1>5 DEF Inv, CallerAlone, Midway, MayRun, Load, At, Task
<1>10. Computed'
  BY <1>3, <1>5 DEF Inv, Computed, Midway
<1>11. Fresh'
  BY <1>3, <1>5, <1>6, ZenonT(30) DEF Inv, Fresh, Pending, At
<1>12. Counted'
  <2>1. \A u \in Task : At(u, "store")' => u # t /\ At(u, "store")
    BY <1>3, <1>5 DEF At
  <2>2. GivingUp => GivingUp'
    BY <1>5 DEF GivingUp, At, Load, Task
  <2> QED
    BY <1>5, <1>6, <2>1, <2>2 DEF Inv, Counted
<1> QED BY <1>7, <1>8, <1>9, <1>10, <1>11, <1>12 DEF Inv

LEMMA CountInv ==
    ASSUME Inv, NEW t \in Task, MayRun(t), Count(t)
    PROVE  Inv'
<1> DEFINE new == [tasks[t] EXCEPT !.pc = "store"]
<1>1. tasks[t] \in TaskState /\ state \in WifiState /\ retry \in 0..MaxRetry
  BY DEF Inv, TypeOK
<1>2. /\ new \in TaskState /\ new.pc = "store"
      /\ new.input = tasks[t].input /\ new.seen = tasks[t].seen
      /\ new.n = tasks[t].n /\ new.to = tasks[t].to
  BY <1>1 DEF TaskState
<1>3. tasks' = [tasks EXCEPT ![t] = new]
  BY DEF Count, Goto
<1>4. tasks'[t] = new /\ \A u \in Task \ {t} : tasks'[u] = tasks[u]
  BY <1>3, StepTasks DEF Inv
<1>5. UNCHANGED <<state, armed, link, events, heard>>
  BY DEF Count
<1>6. At(t, "count") /\ tasks[t].input \in Inputs[t]
  BY DEF Count, At, Inv, OwnInputs, InTransition
<1>7. tasks[t].to = dsp_wifi_sm_next(tasks[t].seen, tasks[t].input, retry)
  BY <1>6 DEF Inv, Computed, Fresh, At, Midway
<1>8. CASE tasks[t].to.count = "keep"
  <2>1. retry' = retry
    BY <1>8 DEF Count
  <2>2. Counted'
    BY <1>2, <1>4, <1>5, <1>6, <1>8, <2>1 DEF Inv, Counted, GivingUp, At, Task
  <2> QED
    BY <1>2, <1>3, <1>4, <1>5, <1>6, <2>1, <2>2
       DEF Inv, TypeOK, OwnInputs, CallerAlone, Computed, Fresh,
           InTransition, Midway, Pending, At, Task
<1>9. CASE tasks[t].to.count # "keep"
  <2>1. t # "timer"
    BY <1>6, <1>7, <1>9 DEF Inputs, dsp_wifi_sm_next, To, AfterRetry, Task
  <2>2. \A u \in Task \ {t} : ~At(u, "count") /\ (At(u, "store") => u = "timer")
    BY <1>6, <2>1 DEF Inv, CallerAlone, Midway, At, MayRun, InTransition, Task
  <2>3. \A u \in Task : At(u, "store") /\ u = "timer" => tasks[u].to.count = "keep"
    BY DEF Inv, OwnInputs, Computed, InTransition, Midway, At, Inputs, Task,
           dsp_wifi_sm_next, To, AfterRetry
  <2>4. /\ retry' \in 0..MaxRetry
        /\ tasks[t].to.count = "clear" => retry' = 0
        /\ state = "FAILED" \/ retry' < MaxRetry \/ GivingUp'
    <3>1. CASE tasks[t].to.count = "clear"
      BY <3>1, WifiAssumption DEF Count
    <3>2. CASE tasks[t].to.count = "add"
      <4>1. t = "event" /\ tasks[t].seen \in {"CONNECTING", "CONNECTED", "RECONNECTING"}
            /\ tasks[t].to = AfterLoss(retry)
        BY <3>2, <1>6, <1>7
           DEF dsp_wifi_sm_next, To, AfterRetry, AfterLoss, CountsLoss, Inputs, Task
      <4>2. state # "FAILED"
        BY <4>1, <1>6 DEF Inv, Fresh, Pending, At
      <4>3. retry < MaxRetry
        BY <4>1, <4>2, <1>6 DEF Inv, Counted, GivingUp, At
      <4>4. retry' = retry + 1
        BY <3>2, <1>6 DEF Count, Inv, Fresh
      <4>5. retry + 1 >= MaxRetry => GivingUp'
        BY <1>2, <1>4, <4>1 DEF AfterLoss, GivingUp, At
      <4> QED
        BY <1>1, <3>2, <4>3, <4>4, <4>5, WifiAssumption
    <3> QED
      BY <1>1, <1>9, <3>1, <3>2 DEF TaskState, Transition
  <2>5. TypeOK'
    BY <1>2, <1>3, <1>5, <2>4 DEF Inv, TypeOK
  <2>6. \A u \in Task : /\ Midway(u)' <=> Midway(u)
                        /\ InTransition(u)' <=> InTransition(u)
                        /\ Pending(u)' <=> Pending(u)
                        /\ tasks'[u].input = tasks[u].input
                        /\ tasks'[u].seen = tasks[u].seen
                        /\ tasks'[u].n = tasks[u].n
                        /\ tasks'[u].to = tasks[u].to
    BY <1>2, <1>4, <1>6 DEF Midway, InTransition, Pending, At
  <2>7. OwnInputs' /\ CallerAlone' /\ Computed'
    BY <2>6 DEF Inv, OwnInputs, CallerAlone, Computed, Task
  <2>8. \A u \in Task : ~At(u, "count")'
    BY <1>2, <1>4, <2>2 DEF At
  <2>9. Fresh'
    BY <1>5, <2>6, <2>8 DEF Inv, Fresh
  <2>10. \A u \in Task : At(u, "store")' /\ tasks'[u].to.count = "clear" => u = t
    BY <1>4, <2>2, <2>3 DEF At
  <2>11. Counted'
    BY <1>2, <1>4, <1>5, <2>4, <2>10 DEF Counted
  <2> QED BY <2>5, <2>7, <2>9, <2>11 DEF Inv
<1> QED BY <1>8, <1>9

(* How a transition ends: at rest, or at the start of the driver.          *)
LEMMA FinishOutcome ==
    ASSUME TypeOK, NEW t \in Task, Finish(t)
    PROVE  \E new \in TaskState : /\ tasks' = [tasks EXCEPT ![t] = new]
                                  /\ new.pc \in {"rest", "start"}
<1>1. CASE tasks[t].input = "CONNECT"
  <2> DEFINE new == [tasks[t] EXCEPT !.pc = "start"]
  <2>1. new \in TaskState /\ new.pc = "start"
    BY DEF TypeOK, TaskState
  <2>2. tasks' = [tasks EXCEPT ![t] = new]
    BY <1>1 DEF Finish, Goto
  <2> QED BY <2>1, <2>2
<1>2. CASE tasks[t].input # "CONNECT"
  BY <1>2, RestingType DEF Finish, Rest, Resting
<1> QED BY <1>1, <1>2

LEMMA ActInv ==
    ASSUME Inv, NEW t \in Task, Act(t)
    PROVE  Inv'
<1>1. PICK new \in TaskState : /\ tasks' = [tasks EXCEPT ![t] = new]
                               /\ new.pc \in {"rest", "start"}
  BY FinishOutcome DEF Act, Inv
<1>2. tasks'[t] = new /\ \A u \in Task \ {t} : tasks'[u] = tasks[u]
  BY <1>1, StepTasks DEF Inv
<1>3. UNCHANGED <<state, retry, link, events>>
  BY DEF Act
<1>4. tasks[t] \in TaskState
  BY DEF Inv, TypeOK
<1>5. heard' \in {"none", "CONNECTED", "DISCONNECTED", "RECONNECTING", "FAILED"}
      /\ armed' \in BOOLEAN
  BY DEF Act, Inv, TypeOK
<1>6. TypeOK'
  BY <1>1, <1>3, <1>5 DEF Inv, TypeOK
<1>7. \A u \in Task : /\ Midway(u)' => u # t /\ Midway(u)
                      /\ InTransition(u)' => u # t /\ InTransition(u)
                      /\ Pending(u)' => u # t /\ Pending(u)
                      /\ At(u, "count")' => u # t /\ At(u, "count")
                      /\ At(u, "store")' => u # t /\ At(u, "store")
  BY <1>1, <1>2 DEF Midway, InTransition, Pending, At
<1>8. OwnInputs' /\ CallerAlone' /\ Computed'
  BY <1>2, <1>7 DEF Inv, OwnInputs, CallerAlone, Computed, Task
<1>9. Fresh'
  BY <1>2, <1>3, <1>7 DEF Inv, Fresh
<1>10. GivingUp => GivingUp'
  BY <1>2 DEF GivingUp, At, Act, Task
<1>11. Counted'
  BY <1>2, <1>3, <1>7, <1>10 DEF Inv, Counted
<1> QED BY <1>6, <1>8, <1>9, <1>11 DEF Inv

(* What a store may do to the state, by task.                              *)
LEMMA StoredState ==
    ASSUME Inv, NEW t \in Task, MayRun(t), Store(t)
    PROVE  /\ state' \in WifiState
           /\ state = "FAILED" => state' \in {"FAILED", "IDLE"}
           /\ t = "timer" => \/ state' = state
                             \/ state = "RECONNECTING" /\ state' = "CONNECTING"
           /\ state' = "FAILED" \/ retry < MaxRetry \/ (t = "timer" /\ GivingUp)
<1>1. /\ tasks[t] \in TaskState /\ state \in WifiState /\ At(t, "store")
      /\ tasks[t].input \in Inputs[t]
      /\ tasks[t].to = dsp_wifi_sm_next(tasks[t].seen, tasks[t].input, tasks[t].n)
  BY DEF Store, Inv, TypeOK, OwnInputs, Computed, InTransition, Midway, At
<1>2. \/ tasks[t].seen = state
      \/ t = "event" /\ tasks[t].seen = "RECONNECTING" /\ state = "CONNECTING"
  BY <1>1 DEF Inv, Fresh, Pending, At
<1>3. PICK s \in {state, tasks[t].seen} :
         IF tasks[t].to.next = s /\ tasks[t].input # "DISCONNECT"
         THEN state' = state ELSE state' = tasks[t].to.next
  BY DEF Store
<1>4. state' \in WifiState
  BY <1>1, <1>3 DEF TaskState, Transition
<1>5. tasks[t].to.count = "clear" => retry = 0
  BY <1>1 DEF Inv, Counted
<1>6. 0 < MaxRetry
  BY WifiAssumption
<1>7. CASE t = "timer"
  <2>1. tasks[t].input = "RETRY" /\ tasks[t].seen = state
    BY <1>1, <1>2, <1>7 DEF Inputs, Task
  <2>2. tasks[t].to = IF state = "RECONNECTING" THEN AfterRetry ELSE To(state, "keep")
    BY <1>1, <2>1 DEF dsp_wifi_sm_next
  <2>3. state' = state \/ (state = "RECONNECTING" /\ state' = "CONNECTING")
    BY <1>3, <2>1, <2>2 DEF AfterRetry, To
  <2>4. state = "FAILED" \/ retry < MaxRetry \/ GivingUp
    BY DEF Inv, Counted
  <2> QED BY <1>4, <1>7, <2>3, <2>4
<1>8. CASE t = "caller"
  <2>1. tasks[t].seen = state /\ tasks[t].input \in {"CONNECT", "DISCONNECT"}
    BY <1>1, <1>2, <1>8 DEF Inputs, Task
  <2>2. CASE tasks[t].to.count = "clear"
    BY <1>1, <1>3, <1>4, <1>5, <1>6, <1>8, <2>1, <2>2
       DEF dsp_wifi_sm_next, To
  <2>3. CASE tasks[t].to.count # "clear"
    <3>1. state' = state
      BY <1>1, <1>3, <2>1, <2>3 DEF dsp_wifi_sm_next, To
    <3>2. ~GivingUp
      BY <1>1, <1>8 DEF Inv, CallerAlone, Midway, At, GivingUp
    <3>3. state = "FAILED" \/ retry < MaxRetry
      BY <3>2 DEF Inv, Counted
    <3> QED BY <1>4, <1>8, <3>1, <3>3
  <2> QED BY <2>2, <2>3
<1>9. CASE t = "event"
  <2>1. tasks[t].input \in {"CONNECTED", "DISCONNECTED"}
    BY <1>1, <1>9 DEF Inputs, Task
  <2>2. state = "FAILED" <=> tasks[t].seen = "FAILED"
    BY <1>2
  <2>3. CASE tasks[t].to.count = "clear"
    <3>1. tasks[t].seen # "FAILED" /\ retry = 0
      BY <1>1, <1>5, <2>1, <2>3
         DEF dsp_wifi_sm_next, AcceptsIp, To, AfterLoss
    <3> QED BY <1>4, <1>6, <1>9, <2>2, <3>1
  <2>4. CASE tasks[t].to.count = "add"
    <3>1. tasks[t].seen # "FAILED" /\ tasks[t].to.next \in {"FAILED", "RECONNECTING"}
      BY <1>1, <2>1, <2>4 DEF dsp_wifi_sm_next, CountsLoss, To, AfterLoss
    <3>2. CASE tasks[t].to.next = "FAILED"
      BY <1>3, <1>4, <1>9, <2>1, <2>2, <3>1, <3>2
    <3>3. CASE tasks[t].to.next # "FAILED"
      <4>1. ~GivingUp
        BY <1>9, <3>3 DEF GivingUp, To
      <4> QED BY <1>4, <1>9, <2>2, <3>1, <4>1 DEF Inv, Counted
    <3> QED BY <3>2, <3>3
  <2>5. CASE tasks[t].to.count = "keep"
    <3>1. tasks[t].to.next = tasks[t].seen
      BY <1>1, <2>1, <2>5 DEF dsp_wifi_sm_next, To, AfterLoss
    <3>2. ~GivingUp
      BY <1>9, <2>5 DEF GivingUp, To
    <3>3. state = "FAILED" \/ retry < MaxRetry
      BY <3>2 DEF Inv, Counted
    <3> QED BY <1>2, <1>3, <1>4, <1>9, <2>1, <3>1, <3>3
  <2> QED BY <1>1, <2>3, <2>4, <2>5 DEF TaskState, Transition
<1> QED BY <1>7, <1>8, <1>9 DEF Task

LEMMA StoreInv ==
    ASSUME Inv, NEW t \in Task, MayRun(t), Store(t)
    PROVE  Inv'
<1>1. PICK new \in TaskState :
         /\ tasks' = [tasks EXCEPT ![t] = new]
         /\ \/ new.pc \in {"rest", "start"}
            \/ new = [tasks[t] EXCEPT !.pc = "act"]
  <2>1. CASE Finish(t)
    BY <2>1, FinishOutcome DEF Inv
  <2>2. CASE Goto(t, "act")
    <3> DEFINE new == [tasks[t] EXCEPT !.pc = "act"]
    <3>1. new \in TaskState
      BY DEF Inv, TypeOK, TaskState
    <3>2. tasks' = [tasks EXCEPT ![t] = new]
      BY <2>2 DEF Goto
    <3> QED BY <3>1, <3>2
  <2> QED BY <2>1, <2>2 DEF Store
<1>2. tasks'[t] = new /\ \A u \in Task \ {t} : tasks'[u] = tasks[u]
  BY <1>1, StepTasks DEF Inv
<1>3. tasks[t] \in TaskState /\ At(t, "store")
  BY DEF Inv, TypeOK, Store
<1>4. UNCHANGED <<retry, armed, link, events, heard>>
  BY DEF Store
<1>5. TypeOK'
  BY <1>1, <1>4, StoredState DEF Inv, TypeOK
<1>6. /\ ~Pending(t)'
      /\ Midway(t)' => tasks'[t] = [tasks[t] EXCEPT !.pc = "act"]
      /\ InTransition(t)' => tasks'[t] = [tasks[t] EXCEPT !.pc = "act"]
  BY <1>1, <1>2, <1>3 DEF Pending, Midway, InTransition, TaskState
<1>7. \A u \in Task : /\ Midway(u)' => Midway(u)
                      /\ InTransition(u)' => InTransition(u)
                      /\ Pending(u)' => u # t /\ Pending(u)
                      /\ At(u, "count")' => u # t /\ At(u, "count")
                      /\ At(u, "store")' => u # t /\ At(u, "store")
  BY <1>2, <1>3, <1>6 DEF Midway, InTransition, Pending, At
<1>8. \A u \in Task : InTransition(u)' => /\ tasks'[u].input = tasks[u].input
                                          /\ tasks'[u].seen = tasks[u].seen
                                          /\ tasks'[u].n = tasks[u].n
                                          /\ tasks'[u].to = tasks[u].to
  BY <1>2, <1>3, <1>6 DEF TaskState
<1>9. OwnInputs' /\ CallerAlone' /\ Computed'
  <2>1. \A u \in Task : Midway(u)' => InTransition(u)'
    BY DEF Midway, InTransition
  <2> QED BY <1>7, <1>8, <2>1 DEF Inv, OwnInputs, CallerAlone, Computed, Task
<1>10. \A u \in Task : Pending(u)' => u = "event" /\ t = "timer"
  <2>1. \A u \in Task : Pending(u) => Midway(u) /\ InTransition(u)
    BY DEF Pending, Midway, InTransition
  <2>2. Midway(t)
    BY <1>3 DEF At, Midway
  <2> QED BY <1>7, <2>1, <2>2 DEF Inv, CallerAlone, MayRun, Task
<1>11. Fresh'
  <2>1. \A u \in Task : At(u, "count")' => Pending(u)'
    BY DEF At, Pending
  <2> QED BY <1>2, <1>4, <1>7, <1>10, <2>1, StoredState DEF Inv, Fresh
<1>12. t = "timer" /\ GivingUp => GivingUp'
  BY <1>2 DEF GivingUp, At, Task
<1>13. Counted'
  BY <1>2, <1>4, <1>7, <1>12, StoredState DEF Inv, Counted
<1> QED BY <1>5, <1>9, <1>11, <1>13 DEF Inv

-----------------------------------------------------------------------------
(* The theorems. *)

LEMMA NextInv == Serial /\ Inv /\ [Next]_vars => Inv'
<1> SUFFICES ASSUME Serial, Inv, [Next]_vars PROVE Inv' OBVIOUS
<1>1. CASE \E t \in Task : apply_transition(t)
  BY <1>1, LoadInv, CountInv, StoreInv, ActInv DEF apply_transition
<1>2. CASE Driver
  BY <1>2, DriverInv
<1>3. CASE \/ TimerExpires \/ TimerConnects
           \/ OnStart \/ OnDisconnected \/ OnGotIp
           \/ ConnectCall \/ esp_wifi_start \/ DisconnectCall \/ esp_wifi_stop
  BY <1>3, OutsideInv
<1>4. CASE UNCHANGED vars
  BY <1>4 DEF vars, Inv, TypeOK, OwnInputs, CallerAlone, Computed, Fresh, Counted,
              InTransition, Midway, Pending, At, GivingUp
<1> QED
  BY <1>1, <1>2, <1>3, <1>4 DEF Next, EventTask, TimerTask, CallerRuns, Task

(* The retry count never passes max_retry, and every variable of the       *)
(* manager keeps its type, if the caller's transitions do not overlap with *)
(* those of the other tasks.                                               *)
THEOREM TypeCorrect == Serial /\ Spec => []TypeOK
<1> SUFFICES ASSUME Serial PROVE Spec => []TypeOK OBVIOUS
<1>1. Inv /\ [Next]_vars => Inv'
  BY NextInv
<1>2. Inv => TypeOK
  BY DEF Inv
<1> QED BY <1>1, <1>2, InitInv, PTL DEF Spec

(* A manager that has given up stays so until the application disconnects, *)
(* although the timer callback may interrupt the event task between any    *)
(* two of its stores.                                                      *)
THEOREM GivingUpIsFinal == Serial /\ Spec => GivesUpForGood
<1> SUFFICES ASSUME Serial PROVE Spec => GivesUpForGood OBVIOUS
<1>1. Inv /\ [Next]_vars => Inv'
  BY NextInv
<1>2. Inv /\ [Next]_vars => [state = "FAILED" => state' \in {"FAILED", "IDLE"}]_vars
  <2> SUFFICES ASSUME Inv, [Next]_vars
               PROVE  state = "FAILED" => state' \in {"FAILED", "IDLE"}
    OBVIOUS
  <2>1. CASE \E t \in Task : MayRun(t) /\ Store(t)
    BY <2>1, StoredState
  <2>2. CASE UNCHANGED state
    BY <2>2
  <2> QED
    BY <2>1, <2>2 DEF Next, EventTask, TimerTask, CallerRuns, Task, Driver,
          apply_transition, Load, Count, Act, OnStart, OnDisconnected, OnGotIp,
          TimerExpires, TimerConnects, AttemptFails, GetsIp, LosesLink,
          ConnectCall, DisconnectCall, esp_wifi_start, esp_wifi_stop, vars
<1> QED BY <1>1, <1>2, InitInv, PTL DEF Spec, GivesUpForGood

-----------------------------------------------------------------------------
(* Where the manager can come to rest: the station, the queue and the      *)
(* tasks under the state.                                                  *)

(* A transition whose state is not stored yet.                             *)
InFlight(t, input) == tasks[t].input = input /\ tasks[t].pc \in {"load", "count", "store"}

Has(q, e) == \E i \in 1 .. Len(q) : q[i] = e

(* Every e in the queue has an f behind it.                                *)
Answered(q, e, f) == \A i \in 1 .. Len(q) :
                        q[i] = e => \E j \in 1 .. Len(q) : i < j /\ q[j] = f

(* Each task only comes to its own places.                                 *)
Places == /\ tasks["caller"].pc \in {"rest", "load", "count", "store", "act", "start", "stop"}
          /\ tasks["event"].pc \in {"rest", "load", "count", "store", "act"}
          /\ tasks["timer"].pc \in {"rest", "connect", "load", "count", "store", "act"}

(* The caller is about to store IDLE, or has stored CONNECTING and not     *)
(* started the driver.                                                     *)
Leaving == At("caller", "stop") \/ InFlight("caller", "DISCONNECT")
Entering == At("caller", "start") \/ (At("caller", "act") /\ tasks["caller"].input = "CONNECT")

(* The station is stopped in IDLE, but inside the two calls.               *)
CallerLink ==
   /\ tasks["caller"].pc \in {"rest", "stop"} => (state = "IDLE" <=> link = "stopped")
   /\ InFlight("caller", "CONNECT") => state = "IDLE" /\ link = "stopped"
   /\ Entering => state # "IDLE" /\ link = "stopped"
   /\ InFlight("caller", "DISCONNECT") => link = "stopped"
   /\ At("caller", "act") /\ tasks["caller"].input = "DISCONNECT"
         => state = "IDLE" /\ link = "stopped"

(* The state a transition has stored stands until it has acted, but for a  *)
(* timer callback that interrupts the event task.                          *)
Acting ==
   /\ At("caller", "act") => tasks["caller"].to.next \in {"IDLE", "CONNECTING"}
   /\ At("event", "act") => \/ state = tasks["event"].to.next
                            \/ tasks["event"].to.next = "RECONNECTING" /\ state = "CONNECTING"
   /\ At("timer", "act") => state = "CONNECTING" /\ tasks["timer"].to.next = "CONNECTING"

(* What is queued about an earlier link is followed by an event about the  *)
(* present one.                                                            *)
Queued ==
   /\ link # "up" => Answered(events, "got_ip", "disconnected")
   /\ link = "up" => Answered(events, "disconnected", "got_ip")
   /\ link # "up" /\ InFlight("event", "CONNECTED") => Has(events, "disconnected")
   /\ link = "up" /\ InFlight("event", "DISCONNECTED") => Has(events, "got_ip")

(* The manager knows of the link, or will hear of it.                      *)
Known ==
   /\ link = "up" /\ state \notin {"CONNECTED", "FAILED"}
         => Has(events, "got_ip") \/ InFlight("event", "CONNECTED")
   /\ link # "up" /\ state = "CONNECTED"
         => Has(events, "disconnected") \/ InFlight("event", "DISCONNECTED")

(* Something of the driver's is still to come.                             *)
Driving == \/ link = "trying"
           \/ Has(events, "got_ip") \/ Has(events, "disconnected")
           \/ link = "idle" /\ Has(events, "start")
           \/ Entering \/ Leaving
           \/ InFlight("event", "CONNECTED")

(* A manager that is connecting waits for something that will come.        *)
Awaited ==
   /\ state = "CONNECTING" =>
         \/ Driving
         \/ InFlight("event", "DISCONNECTED") /\ (At("event", "load") \/ tasks["event"].seen = "CONNECTING")
   /\ state = "RECONNECTING" =>
         \/ armed \/ At("timer", "connect")
         \/ InFlight("timer", "RETRY")
         \/ At("event", "act") /\ tasks["event"].to.next = "RECONNECTING"
         \/ Leaving
   /\ state = "RECONNECTING" /\ InFlight("timer", "RETRY") => Driving

(* What the application was told is so, or will be corrected.              *)
HeardInv ==
   /\ state = "CONNECTED" => \/ heard = "CONNECTED"
                             \/ At("event", "act") /\ tasks["event"].to.next = "CONNECTED"
                             \/ InFlight("event", "DISCONNECTED")
   /\ heard = "CONNECTED" => state = "CONNECTED" \/ Has(events, "disconnected")
   /\ InFlight("event", "DISCONNECTED") => heard # "CONNECTED"

EndsInv == Places /\ CallerLink /\ Acting /\ Queued /\ Known /\ Awaited /\ HeardInv

-----------------------------------------------------------------------------
Event == {"start", "disconnected", "got_ip"}

LEMMA Posted ==
    ASSUME NEW q \in Seq(Event), NEW x \in Event
    PROVE  /\ \A e : Has(Append(q, x), e) <=> Has(q, e) \/ e = x
           /\ \A e, f : Answered(q, e, f) /\ x # e => Answered(Append(q, x), e, f)
           /\ \A e : e # x => Answered(Append(q, x), e, x)
<1>1. /\ Len(q) \in Nat /\ Len(Append(q, x)) = Len(q) + 1
      /\ \A i \in 1 .. Len(q) : Append(q, x)[i] = q[i]
      /\ Append(q, x)[Len(q) + 1] = x
  BY AppendProperties, LenProperties
<1> QED BY <1>1 DEF Has, Answered

LEMMA Taken ==
    ASSUME NEW q \in Seq(Event), q # <<>>
    PROVE  /\ Head(q) = q[1]
           /\ \A e : Has(q, e) => Head(q) = e \/ Has(Tail(q), e)
           /\ \A e : Has(Tail(q), e) => Has(q, e)
           /\ \A e, f : Answered(q, e, f) => Answered(Tail(q), e, f)
           /\ \A e, f : Answered(q, e, f) /\ Head(q) = e => Has(Tail(q), f)
<1>1. /\ Len(q) \in Nat /\ Len(q) > 0 /\ Len(Tail(q)) = Len(q) - 1
      /\ \A i \in 1 .. Len(Tail(q)) : Tail(q)[i] = q[i + 1]
      /\ Head(q) = q[1]
  BY HeadTailProperties, LenProperties, EmptySeq
<1>2. \A i \in 2 .. Len(q) : i - 1 \in 1 .. Len(Tail(q)) /\ Tail(q)[i - 1] = q[i]
  BY <1>1
<1>3. \A e : Has(q, e) => Head(q) = e \/ Has(Tail(q), e)
  <2> SUFFICES ASSUME NEW e, Has(q, e), Head(q) # e PROVE Has(Tail(q), e)
    OBVIOUS
  <2>1. PICK i \in 1 .. Len(q) : q[i] = e
    BY DEF Has
  <2>2. i \in 2 .. Len(q)
    BY <1>1, <2>1
  <2> QED BY <1>2, <2>1, <2>2 DEF Has
<1>4. \A e : Has(Tail(q), e) => Has(q, e)
  BY <1>1 DEF Has
<1>5. \A e, f : Answered(q, e, f) => Answered(Tail(q), e, f)
  <2> SUFFICES ASSUME NEW e, NEW f, Answered(q, e, f), NEW i \in 1 .. Len(Tail(q)),
                      Tail(q)[i] = e
               PROVE  \E j \in 1 .. Len(Tail(q)) : i < j /\ Tail(q)[j] = f
    BY DEF Answered
  <2>1. PICK j \in 1 .. Len(q) : i + 1 < j /\ q[j] = f
    BY <1>1 DEF Answered
  <2>2. j \in 2 .. Len(q)
    BY <1>1, <2>1
  <2> QED BY <1>2, <2>1, <2>2
<1>6. \A e, f : Answered(q, e, f) /\ Head(q) = e => Has(Tail(q), f)
  <2> SUFFICES ASSUME NEW e, NEW f, Answered(q, e, f), q[1] = e PROVE Has(Tail(q), f)
    BY <1>1
  <2>1. PICK j \in 1 .. Len(q) : 1 < j /\ q[j] = f
    BY <1>1 DEF Answered
  <2>2. j \in 2 .. Len(q)
    BY <1>1, <2>1
  <2> QED BY <1>2, <2>1, <2>2 DEF Has
<1> QED BY <1>1, <1>3, <1>4, <1>5, <1>6

-----------------------------------------------------------------------------
(* What the store of a transition does, task by task. *)

Goes(t, pc) == /\ tasks'[t].pc = pc /\ tasks'[t].input = tasks[t].input
               /\ tasks'[t].seen = tasks[t].seen /\ tasks'[t].to = tasks[t].to

LEMMA Stores ==
    ASSUME Inv, NEW t \in Task, MayRun(t), Store(t)
    PROVE  /\ \A u \in Task \ {t} : tasks'[u] = tasks[u]
           /\ \/ /\ tasks[t].to.next \in {state, tasks[t].seen}
                 /\ tasks[t].input # "DISCONNECT" /\ state' = state
                 /\ tasks'[t].pc = IF tasks[t].input = "CONNECT" THEN "start" ELSE "rest"
              \/ /\ \/ tasks[t].to.next # state \/ tasks[t].to.next # tasks[t].seen
                    \/ tasks[t].input = "DISCONNECT"
                 /\ state' = tasks[t].to.next /\ Goes(t, "act")
<1>1. tasks \in [Task -> TaskState]
  BY DEF Inv, TypeOK
<1>2. PICK s \in {state, tasks[t].seen} :
         IF tasks[t].to.next = s /\ tasks[t].input # "DISCONNECT"
         THEN Finish(t) /\ UNCHANGED state
         ELSE Goto(t, "act") /\ state' = tasks[t].to.next
  BY DEF Store
<1>3. CASE tasks[t].to.next = s /\ tasks[t].input # "DISCONNECT"
  BY <1>1, <1>2, <1>3 DEF Finish, Goto, Rest, Resting, TaskState
<1>4. CASE ~(tasks[t].to.next = s /\ tasks[t].input # "DISCONNECT")
  BY <1>1, <1>2, <1>4 DEF Goto, Goes, TaskState
<1> QED BY <1>3, <1>4

LEMMA StoresFrom ==
    ASSUME Inv, NEW t \in Task, Store(t)
    PROVE  /\ tasks[t].pc = "store" /\ tasks[t].input \in Inputs[t]
           /\ tasks[t].to = dsp_wifi_sm_next(tasks[t].seen, tasks[t].input, tasks[t].n)
           /\ \/ tasks[t].seen = state
              \/ t = "event" /\ tasks[t].seen = "RECONNECTING" /\ state = "CONNECTING"
           /\ state \in WifiState
BY DEF Store, Inv, TypeOK, OwnInputs, Computed, Fresh, Pending, InTransition, Midway, At

LEMMA TimerStores ==
    ASSUME Inv, MayRun("timer"), Store("timer")
    PROVE  \/ /\ state = "RECONNECTING" /\ state' = "CONNECTING"
              /\ Goes("timer", "act") /\ tasks["timer"].to.next = "CONNECTING"
           \/ state # "RECONNECTING" /\ state' = state /\ tasks'["timer"].pc = "rest"
<1>1. "timer" \in Task /\ Inputs["timer"] = {"RETRY"}
  BY DEF Task, Inputs
<1>2. tasks["timer"].input = "RETRY" /\ tasks["timer"].seen = state
  BY <1>1, StoresFrom
<1>3. tasks["timer"].to = IF state = "RECONNECTING" THEN AfterRetry ELSE To(state, "keep")
  BY <1>1, <1>2, StoresFrom DEF dsp_wifi_sm_next
<1>4. tasks["timer"].to.next = IF state = "RECONNECTING" THEN "CONNECTING" ELSE state
  BY <1>3 DEF AfterRetry, To
<1> QED BY <1>1, <1>2, <1>4, Stores

LEMMA CallerStores ==
    ASSUME Inv, CallerLink, MayRun("caller"), Store("caller")
    PROVE  /\ Goes("caller", "act")
           /\ \/ /\ tasks["caller"].input = "CONNECT"
                 /\ state' = "CONNECTING" /\ tasks["caller"].to.next = "CONNECTING"
              \/ /\ tasks["caller"].input = "DISCONNECT"
                 /\ state' = "IDLE" /\ tasks["caller"].to.next = "IDLE"
<1>1. "caller" \in Task /\ Inputs["caller"] = {"CONNECT", "DISCONNECT"}
  BY DEF Task, Inputs
<1>2. /\ tasks["caller"].input \in {"CONNECT", "DISCONNECT"} /\ tasks["caller"].seen = state
      /\ tasks["caller"].pc = "store"
  BY <1>1, StoresFrom
<1>3. tasks["caller"].input = "CONNECT" => state = "IDLE"
  BY <1>2 DEF CallerLink, InFlight
<1>4. tasks["caller"].to = IF tasks["caller"].input = "CONNECT" THEN To("CONNECTING", "clear")
                                                                ELSE To("IDLE", "clear")
  BY <1>1, <1>2, <1>3, StoresFrom DEF dsp_wifi_sm_next
<1>5. tasks["caller"].to.next = IF tasks["caller"].input = "CONNECT" THEN "CONNECTING"
                                                                     ELSE "IDLE"
  BY <1>4 DEF To
<1> QED BY <1>1, <1>2, <1>3, <1>5, Stores

LEMMA EventStores ==
    ASSUME Inv, MayRun("event"), Store("event")
    PROVE  \/ /\ state' = state /\ tasks'["event"].pc = "rest"
              /\ tasks["event"].input = "CONNECTED" /\ state \notin {"CONNECTING", "RECONNECTING"}
           \/ /\ state' = "CONNECTED" /\ Goes("event", "act")
              /\ tasks["event"].to.next = "CONNECTED" /\ tasks["event"].input = "CONNECTED"
              /\ state \in {"CONNECTING", "RECONNECTING"}
           \/ /\ state' = state /\ tasks'["event"].pc = "rest"
              /\ tasks["event"].input = "DISCONNECTED"
              /\ \/ state \in {"IDLE", "FAILED", "RECONNECTING"}
                 \/ state = "CONNECTING" /\ tasks["event"].seen # "CONNECTING"
           \/ /\ state' \in {"RECONNECTING", "FAILED"} /\ Goes("event", "act")
              /\ tasks["event"].to.next = state' /\ tasks["event"].input = "DISCONNECTED"
              /\ state \in {"CONNECTING", "CONNECTED", "RECONNECTING"}
<1>1. "event" \in Task /\ Inputs["event"] = {"CONNECTED", "DISCONNECTED"}
  BY DEF Task, Inputs
<1> DEFINE seen == tasks["event"].seen
           next == tasks["event"].to.next
<1>2. /\ tasks["event"].input \in {"CONNECTED", "DISCONNECTED"}
      /\ seen = state \/ (seen = "RECONNECTING" /\ state = "CONNECTING")
      /\ tasks["event"].to = dsp_wifi_sm_next(seen, tasks["event"].input, tasks["event"].n)
      /\ state \in WifiState
  BY <1>1, StoresFrom
<1>3. \/ next \in {state, seen} /\ state' = state /\ tasks'["event"].pc = "rest"
      \/ (next # state \/ next # seen) /\ state' = next /\ Goes("event", "act")
  <2>1. tasks["event"].input \notin {"CONNECT", "DISCONNECT"}
    BY <1>2
  <2> QED BY <1>1, <2>1, Stores
<1>4. CASE tasks["event"].input = "CONNECTED"
  <2>1. next = IF seen \in {"CONNECTING", "RECONNECTING"} THEN "CONNECTED" ELSE seen
    BY <1>2, <1>4 DEF dsp_wifi_sm_next, AcceptsIp, To
  <2> HIDE DEF seen, next
  <2> QED BY <1>2, <1>3, <1>4, <2>1 DEF seen, next
<1>5. CASE tasks["event"].input = "DISCONNECTED"
  <2>1. \/ seen \in {"CONNECTING", "CONNECTED", "RECONNECTING"} /\ next \in {"FAILED", "RECONNECTING"}
        \/ seen \notin {"CONNECTING", "CONNECTED", "RECONNECTING"} /\ next = seen
    BY <1>2, <1>5 DEF dsp_wifi_sm_next, CountsLoss, AfterLoss, To
  <2> HIDE DEF seen, next
  <2> QED BY <1>2, <1>3, <1>5, <2>1 DEF seen, next, WifiState
<1> QED BY <1>2, <1>4, <1>5

-----------------------------------------------------------------------------
(* The steps of a transition, task by task where the tasks differ.         *)

LEMMA ThreeTasks == Task = {"caller", "event", "timer"}
BY DEF Task

LEMMA LoadEnds ==
    ASSUME Inv, EndsInv, NEW t \in Task, Load(t)
    PROVE  EndsInv'
<1>1. /\ tasks[t].pc = "load" /\ tasks'[t].pc = "count" /\ tasks'[t].input = tasks[t].input
      /\ tasks'[t].seen = state /\ \A u \in Task \ {t} : tasks'[u] = tasks[u]
      /\ UNCHANGED <<state, retry, armed, link, events, heard>>
  BY DEF Load, At, Inv, TypeOK, TaskState
<1>2. \A u \in Task : \A input : InFlight(u, input)' <=> InFlight(u, input)
  BY <1>1 DEF InFlight
<1>3. \A u \in Task, pc \in {"rest", "connect", "start", "stop", "act"} : At(u, pc)' <=> At(u, pc)
  BY <1>1 DEF At
<1>4. \A u \in Task : At(u, "act") => tasks'[u] = tasks[u]
  BY <1>1 DEF At
<1>5. (Leaving' <=> Leaving) /\ (Entering' <=> Entering)
  BY <1>2, <1>3, <1>4, ThreeTasks DEF Leaving, Entering
<1>6. Places'
  BY <1>1, ThreeTasks DEF EndsInv, Places
<1>7. CallerLink' /\ Acting' /\ Queued' /\ Known' /\ HeardInv'
  BY <1>1, <1>2, <1>3, <1>4, <1>5, ThreeTasks
     DEF EndsInv, CallerLink, Acting, Queued, Known, HeardInv
<1>8. Driving' <=> Driving
  BY <1>1, <1>2, <1>5, ThreeTasks DEF Driving
<1>9. InFlight("event", "DISCONNECTED") /\ state = "CONNECTING" =>
         At("event", "load")' \/ tasks'["event"].seen = "CONNECTING" \/ Driving
  BY <1>1, ThreeTasks DEF EndsInv, Awaited, At
<1>10. Awaited'
  BY <1>1, <1>2, <1>3, <1>4, <1>5, <1>8, <1>9, ThreeTasks DEF EndsInv, Awaited
<1> QED BY <1>6, <1>7, <1>10 DEF EndsInv

LEMMA CountEnds ==
    ASSUME Inv, EndsInv, NEW t \in Task, Count(t)
    PROVE  EndsInv'
<1>1. /\ tasks[t].pc = "count" /\ Goes(t, "store") /\ \A u \in Task \ {t} : tasks'[u] = tasks[u]
      /\ UNCHANGED <<state, armed, link, events, heard>>
  BY DEF Count, Goto, Goes, At, Inv, TypeOK, TaskState
<1>2. \A u \in Task : \A input : InFlight(u, input)' <=> InFlight(u, input)
  BY <1>1 DEF InFlight, Goes
<1>3. \A u \in Task, pc \in {"rest", "load", "connect", "start", "stop", "act"} :
         At(u, pc)' <=> At(u, pc)
  BY <1>1 DEF At, Goes
<1>4. \A u \in Task : /\ tasks'[u].input = tasks[u].input /\ tasks'[u].seen = tasks[u].seen
                      /\ tasks'[u].to = tasks[u].to
  BY <1>1 DEF Goes
<1>5. (Leaving' <=> Leaving) /\ (Entering' <=> Entering)
  BY <1>2, <1>3, <1>4, ThreeTasks DEF Leaving, Entering
<1>6. Places'
  BY <1>1, ThreeTasks DEF EndsInv, Places, Goes
<1>7. tasks'["caller"].pc \in {"rest", "stop"} <=> tasks["caller"].pc \in {"rest", "stop"}
  BY <1>3, ThreeTasks DEF At
<1>8. CallerLink' /\ Acting' /\ Queued' /\ Known' /\ HeardInv'
  BY <1>1, <1>2, <1>3, <1>4, <1>5, <1>7, ThreeTasks
     DEF EndsInv, CallerLink, Acting, Queued, Known, HeardInv
<1>9. Driving' <=> Driving
  BY <1>1, <1>2, <1>5, ThreeTasks DEF Driving
<1>10. Awaited'
  BY <1>1, <1>2, <1>3, <1>4, <1>5, <1>9, ThreeTasks DEF EndsInv, Awaited
<1> QED BY <1>6, <1>8, <1>10 DEF EndsInv

LEMMA TimerStoreEnds ==
    ASSUME Inv, Inv', EndsInv, MayRun("timer"), Store("timer")
    PROVE  EndsInv'
<1>1. /\ tasks["timer"].pc = "store" /\ UNCHANGED <<armed, link, events, heard>>
      /\ tasks'["caller"] = tasks["caller"] /\ tasks'["event"] = tasks["event"]
  BY ThreeTasks, Stores DEF Store, At
<1>2. tasks["timer"].input = "RETRY"
  BY ThreeTasks DEF Inv, OwnInputs, InTransition, Inputs, Store, At
<1>3. ~Midway("caller")
  BY <1>1 DEF Inv, CallerAlone, Midway
<1>4. \A input : /\ InFlight("event", input)' <=> InFlight("event", input)
                 /\ InFlight("caller", input)' <=> InFlight("caller", input)
  BY <1>1 DEF InFlight
<1>5. \A pc : (At("event", pc)' <=> At("event", pc)) /\ (At("caller", pc)' <=> At("caller", pc))
  BY <1>1 DEF At
<1>6. (Leaving' <=> Leaving) /\ (Entering' <=> Entering)
  BY <1>1, <1>4, <1>5 DEF Leaving, Entering
<1>7. Driving' <=> Driving
  BY <1>1, <1>4, <1>6 DEF Driving
<1>8. InFlight("timer", "RETRY")
  BY <1>1, <1>2 DEF InFlight
<1>9. CASE state = "RECONNECTING" /\ state' = "CONNECTING" /\ Goes("timer", "act")
           /\ tasks["timer"].to.next = "CONNECTING"
  <2>1. Places'
    BY <1>1, <1>9 DEF EndsInv, Places, Goes
  <2>2. CallerLink' /\ Acting' /\ Queued' /\ Known' /\ HeardInv'
    BY <1>1, <1>3, <1>4, <1>5, <1>6, <1>9
       DEF EndsInv, CallerLink, Acting, Queued, Known, HeardInv, Goes, At, Midway
  <2>3. Awaited'
    BY <1>1, <1>4, <1>5, <1>6, <1>7, <1>8, <1>9 DEF EndsInv, Awaited
  <2> QED BY <2>1, <2>2, <2>3 DEF EndsInv
<1>10. CASE state # "RECONNECTING" /\ state' = state /\ tasks'["timer"].pc = "rest"
  <2>1. Places'
    BY <1>1, <1>10 DEF EndsInv, Places
  <2>2. CallerLink' /\ Acting' /\ Queued' /\ Known' /\ HeardInv'
    BY <1>1, <1>3, <1>4, <1>5, <1>6, <1>10
       DEF EndsInv, CallerLink, Acting, Queued, Known, HeardInv, At
  <2>3. Awaited'
    BY <1>1, <1>4, <1>5, <1>6, <1>7, <1>10 DEF EndsInv, Awaited
  <2> QED BY <2>1, <2>2, <2>3 DEF EndsInv
<1> QED BY <1>9, <1>10, TimerStores

LEMMA CallerInputs ==
    ASSUME Inv, EndsInv
    PROVE  /\ tasks["caller"].pc \in {"load", "count", "store"} =>
                 InFlight("caller", "CONNECT") \/ InFlight("caller", "DISCONNECT")
           /\ At("caller", "act") => tasks["caller"].input \in {"CONNECT", "DISCONNECT"}
           /\ state = "IDLE" => link = "stopped"
           /\ link = "stopped" => state = "IDLE" \/ Entering \/ Leaving
<1>1. Inputs["caller"] = {"CONNECT", "DISCONNECT"} /\ "caller" \in Task
  BY DEF Inputs, Task
<1>2. tasks["caller"].pc \in {"load", "count", "store", "act"} =>
         tasks["caller"].input \in {"CONNECT", "DISCONNECT"}
  BY <1>1 DEF Inv, OwnInputs, InTransition
<1> QED BY <1>2 DEF EndsInv, Places, CallerLink, Entering, Leaving, InFlight, At

LEMMA CallerStoreEnds ==
    ASSUME Inv, EndsInv, MayRun("caller"), Store("caller")
    PROVE  EndsInv'
<1>1. /\ tasks["caller"].pc = "store" /\ UNCHANGED <<armed, link, events, heard>>
      /\ tasks'["timer"] = tasks["timer"] /\ tasks'["event"] = tasks["event"]
  BY ThreeTasks, Stores DEF Store, At
<1>2. ~Midway("event") /\ ~Midway("timer")
  BY <1>1 DEF Inv, CallerAlone, Midway
<1>3. ~At("event", "act") /\ ~At("timer", "act")
  BY <1>2 DEF Midway, At
<1>4. \A input : /\ InFlight("event", input)' <=> InFlight("event", input)
                 /\ InFlight("timer", input)' <=> InFlight("timer", input)
  BY <1>1 DEF InFlight
<1>5. \A pc : (At("event", pc)' <=> At("event", pc)) /\ (At("timer", pc)' <=> At("timer", pc))
  BY <1>1 DEF At
<1>6. Goes("caller", "act")
  BY CallerStores DEF EndsInv
<1>7. Places'
  BY <1>1, <1>6 DEF EndsInv, Places, Goes
<1>8. CASE tasks["caller"].input = "CONNECT" /\ state' = "CONNECTING"
           /\ tasks["caller"].to.next = "CONNECTING"
  <2>1. state = "IDLE" /\ link = "stopped"
    BY <1>1, <1>8 DEF EndsInv, CallerLink, InFlight
  <2>2. Entering'
    BY <1>6, <1>8 DEF Entering, Goes, At
  <2>3. CallerLink' /\ Acting'
    BY <1>1, <1>3, <1>5, <1>6, <1>8, <2>1 DEF EndsInv, CallerLink, Acting, Goes, At, InFlight
  <2>4. Queued' /\ Known' /\ HeardInv'
    BY <1>1, <1>4, <1>5, <1>8, <2>1 DEF EndsInv, Queued, Known, HeardInv
  <2>5. Awaited'
    BY <1>8, <2>2 DEF Awaited, Driving
  <2> QED BY <1>7, <2>3, <2>4, <2>5 DEF EndsInv
<1>9. CASE tasks["caller"].input = "DISCONNECT" /\ state' = "IDLE"
           /\ tasks["caller"].to.next = "IDLE"
  <2>1. link = "stopped"
    BY <1>1, <1>9 DEF EndsInv, CallerLink, InFlight
  <2>2. CallerLink' /\ Acting'
    BY <1>1, <1>3, <1>5, <1>6, <1>9, <2>1
       DEF EndsInv, CallerLink, Acting, Goes, At, InFlight, Entering
  <2>3. heard = "CONNECTED" => Has(events, "disconnected")
    BY <2>1 DEF EndsInv, HeardInv, Known
  <2>4. Queued' /\ Known' /\ HeardInv'
    BY <1>1, <1>4, <1>5, <1>9, <2>1, <2>3 DEF EndsInv, Queued, Known, HeardInv
  <2>5. Awaited'
    BY <1>9 DEF Awaited
  <2> QED BY <1>7, <2>2, <2>4, <2>5 DEF EndsInv
<1> QED BY <1>8, <1>9, CallerStores DEF EndsInv

LEMMA EventStoreEnds ==
    ASSUME Inv, EndsInv, MayRun("event"), Store("event")
    PROVE  EndsInv'
<1>1. /\ tasks["event"].pc = "store" /\ UNCHANGED <<armed, link, events, heard>>
      /\ tasks'["timer"] = tasks["timer"] /\ tasks'["caller"] = tasks["caller"]
  BY ThreeTasks, Stores DEF Store, At
<1>2. ~Midway("caller") /\ ~InTransition("timer")
  BY <1>1 DEF Inv, CallerAlone, Midway, MayRun
<1>3. \A input : /\ InFlight("caller", input)' <=> InFlight("caller", input)
                 /\ InFlight("timer", input)' <=> InFlight("timer", input)
                 /\ ~InFlight("timer", input)
                 /\ InFlight("event", input) <=> tasks["event"].input = input
  BY <1>1, <1>2 DEF InFlight, InTransition
<1>4. \A pc : (At("caller", pc)' <=> At("caller", pc)) /\ (At("timer", pc)' <=> At("timer", pc))
  BY <1>1 DEF At
<1>5. (Leaving' <=> Leaving) /\ (Entering' <=> Entering)
  BY <1>1, <1>3, <1>4 DEF Leaving, Entering
<1>6. /\ ~At("timer", "act") /\ ~At("caller", "act")
      /\ ~At("event", "act") /\ ~At("event", "load")
  BY <1>1, <1>2 DEF At, Midway, InTransition
<1>7. state' = "IDLE" <=> state = "IDLE"
  BY EventStores
<1>8. CallerLink'
  BY <1>1, <1>3, <1>4, <1>5, <1>7 DEF EndsInv, CallerLink, At
<1>9. tasks'["event"].pc \in {"rest", "act"} /\ \A input : ~InFlight("event", input)'
  BY EventStores DEF Goes, InFlight
<1>10. Places'
  BY <1>1, <1>9 DEF EndsInv, Places
<1>11. Queued'
  BY <1>1, <1>9 DEF EndsInv, Queued
<1>12. link = "up" => state # "IDLE"
  BY CallerInputs
<1>13. ASSUME Driving, tasks["event"].input = "DISCONNECTED" PROVE Driving'
  BY <1>1, <1>3, <1>5, <1>13 DEF Driving
<1>14. CASE /\ state' = state /\ tasks'["event"].pc = "rest"
            /\ tasks["event"].input = "CONNECTED" /\ state \notin {"CONNECTING", "RECONNECTING"}
  <2>1. Acting' /\ Known' /\ Awaited' /\ HeardInv'
    <3>1. ~At("event", "act")'
      BY <1>14 DEF At
    <3>2. state \in WifiState
      BY DEF Inv, TypeOK
    <3> QED BY <1>1, <1>3, <1>4, <1>6, <1>9, <1>12, <1>14, <3>1, <3>2
            DEF EndsInv, Acting, Known, Awaited, HeardInv, WifiState
  <2> QED BY <1>8, <1>10, <1>11, <2>1 DEF EndsInv
<1>15. CASE /\ state' = "CONNECTED" /\ Goes("event", "act")
            /\ tasks["event"].to.next = "CONNECTED" /\ tasks["event"].input = "CONNECTED"
            /\ state \in {"CONNECTING", "RECONNECTING"}
  <2>1. At("event", "act")' /\ tasks'["event"].to.next = "CONNECTED"
    BY <1>15 DEF At, Goes
  <2>2. Acting' /\ Known' /\ Awaited' /\ HeardInv'
    BY <1>1, <1>3, <1>4, <1>6, <1>9, <1>15, <2>1
       DEF EndsInv, Acting, Queued, Known, Awaited, HeardInv
  <2> QED BY <1>8, <1>10, <1>11, <2>2 DEF EndsInv
<1>16. CASE /\ state' = state /\ tasks'["event"].pc = "rest"
            /\ tasks["event"].input = "DISCONNECTED"
            /\ \/ state \in {"IDLE", "FAILED", "RECONNECTING"}
               \/ state = "CONNECTING" /\ tasks["event"].seen # "CONNECTING"
  <2>1. ~At("event", "act")'
    BY <1>16 DEF At
  <2>2. Acting' /\ Known' /\ HeardInv'
    BY <1>1, <1>3, <1>4, <1>6, <1>9, <1>16, <2>1
       DEF EndsInv, Acting, Queued, Known, HeardInv
  <2>3. Awaited'
    BY <1>1, <1>3, <1>4, <1>5, <1>6, <1>9, <1>13, <1>16, <2>1 DEF EndsInv, Awaited
  <2> QED BY <1>8, <1>10, <1>11, <2>2, <2>3 DEF EndsInv
<1>17. CASE /\ state' \in {"RECONNECTING", "FAILED"} /\ Goes("event", "act")
            /\ tasks["event"].to.next = state' /\ tasks["event"].input = "DISCONNECTED"
            /\ state \in {"CONNECTING", "CONNECTED", "RECONNECTING"}
  <2>1. At("event", "act")' /\ tasks'["event"].to.next = state'
    BY <1>17 DEF At, Goes
  <2>2. Acting' /\ Known' /\ Awaited' /\ HeardInv'
    BY <1>1, <1>3, <1>4, <1>6, <1>9, <1>17, <2>1
       DEF EndsInv, Acting, Queued, Known, Awaited, HeardInv
  <2> QED BY <1>8, <1>10, <1>11, <2>2 DEF EndsInv
<1> QED BY <1>14, <1>15, <1>16, <1>17, EventStores

-----------------------------------------------------------------------------
(* The end of a transition: the event given to the application, the timer. *)

LEMMA Acts ==
    ASSUME Inv, NEW t \in Task, Act(t)
    PROVE  /\ \A u \in Task \ {t} : tasks'[u] = tasks[u]
           /\ tasks[t].pc = "act"
           /\ IF tasks[t].input = "CONNECT" THEN Goes(t, "start")
                                           ELSE tasks'[t].pc = "rest"
           /\ UNCHANGED <<state, link, events>>
           /\ tasks[t].to.next \notin {"CONNECTED", "RECONNECTING", "FAILED"} => heard' = heard
           /\ tasks[t].to.next # "RECONNECTING" => armed' = armed
<1>1. tasks \in [Task -> TaskState] /\ armed \in BOOLEAN
  BY DEF Inv, TypeOK
<1>2. tasks[t].to.next # "RECONNECTING" => armed' = armed
  BY <1>1 DEF Act
<1> QED BY <1>1, <1>2 DEF Act, At, Finish, Goto, Rest, Resting, Goes, TaskState

LEMMA TimerActEnds ==
    ASSUME Inv, EndsInv, Act("timer")
    PROVE  EndsInv'
<1>1. tasks["timer"].pc = "act" /\ state = "CONNECTING" /\ tasks["timer"].to.next = "CONNECTING"
  BY ThreeTasks, Acts DEF EndsInv, Acting, At
<1>2. tasks["timer"].input = "RETRY"
  BY <1>1, ThreeTasks DEF Inv, OwnInputs, InTransition, Inputs
<1>3. /\ tasks'["caller"] = tasks["caller"] /\ tasks'["event"] = tasks["event"]
      /\ tasks'["timer"].pc = "rest"
      /\ UNCHANGED <<state, link, events, heard, armed>>
  BY <1>1, <1>2, ThreeTasks, Acts
<1>4. /\ \A input : /\ InFlight("event", input)' <=> InFlight("event", input)
                    /\ InFlight("caller", input)' <=> InFlight("caller", input)
      /\ \A pc : (At("event", pc)' <=> At("event", pc)) /\ (At("caller", pc)' <=> At("caller", pc))
  BY <1>3 DEF InFlight, At
<1>5. (Leaving' <=> Leaving) /\ (Entering' <=> Entering) /\ ~At("timer", "act")'
  BY <1>3, <1>4 DEF Leaving, Entering, At
<1>6. Driving' <=> Driving
  BY <1>3, <1>4, <1>5 DEF Driving
<1>7. Places' /\ CallerLink'
  BY <1>3, <1>4, <1>5 DEF EndsInv, Places, CallerLink
<1>8. Acting' /\ Queued' /\ Known' /\ HeardInv'
  BY <1>3, <1>4, <1>5 DEF EndsInv, Acting, Queued, Known, HeardInv
<1>9. Awaited'
  BY <1>1, <1>3, <1>4, <1>6 DEF EndsInv, Awaited
<1> QED BY <1>7, <1>8, <1>9 DEF EndsInv

LEMMA EventActEnds ==
    ASSUME Inv, EndsInv, Act("event")
    PROVE  EndsInv'
<1>1. tasks["event"].pc = "act"
  BY ThreeTasks, Acts
<1>2. tasks["event"].input \in {"CONNECTED", "DISCONNECTED"}
  BY <1>1, ThreeTasks DEF Inv, OwnInputs, InTransition, Inputs
<1>3. /\ tasks'["caller"] = tasks["caller"] /\ tasks'["timer"] = tasks["timer"]
      /\ tasks'["event"].pc = "rest"
      /\ UNCHANGED <<state, link, events>>
  BY <1>1, <1>2, ThreeTasks, Acts
<1>4. /\ \A input : /\ InFlight("timer", input)' <=> InFlight("timer", input)
                    /\ InFlight("caller", input)' <=> InFlight("caller", input)
                    /\ ~InFlight("event", input) /\ ~InFlight("event", input)'
      /\ \A pc : (At("timer", pc)' <=> At("timer", pc)) /\ (At("caller", pc)' <=> At("caller", pc))
  BY <1>1, <1>3 DEF InFlight, At
<1>5. (Leaving' <=> Leaving) /\ (Entering' <=> Entering) /\ ~At("event", "act")'
  BY <1>3, <1>4 DEF Leaving, Entering, At
<1>6. Driving' <=> Driving
  BY <1>3, <1>4, <1>5 DEF Driving
<1>7. /\ state = tasks["event"].to.next
         \/ (tasks["event"].to.next = "RECONNECTING" /\ state = "CONNECTING")
      /\ armed => armed'
      /\ state = "RECONNECTING" => armed'
      /\ state = "CONNECTED" => heard' = "CONNECTED"
      /\ heard' = "CONNECTED" => state = "CONNECTED" \/ heard = "CONNECTED"
  BY <1>1 DEF EndsInv, Acting, At, Act
<1>8. Places' /\ CallerLink'
  BY <1>3, <1>4, <1>5 DEF EndsInv, Places, CallerLink
<1>9. Acting' /\ Queued' /\ Known' /\ HeardInv'
  BY <1>3, <1>4, <1>5, <1>7 DEF EndsInv, Acting, Queued, Known, HeardInv
<1>10. Awaited'
  BY <1>3, <1>4, <1>6, <1>7 DEF EndsInv, Awaited
<1> QED BY <1>8, <1>9, <1>10 DEF EndsInv

LEMMA CallerActEnds ==
    ASSUME Inv, EndsInv, Act("caller")
    PROVE  EndsInv'
<1>1. tasks["caller"].pc = "act" /\ tasks["caller"].to.next \in {"IDLE", "CONNECTING"}
  BY ThreeTasks, Acts DEF EndsInv, Acting, At
<1>2. tasks["caller"].input \in {"CONNECT", "DISCONNECT"}
  BY <1>1, CallerInputs DEF At
<1>3. /\ tasks'["event"] = tasks["event"] /\ tasks'["timer"] = tasks["timer"]
      /\ IF tasks["caller"].input = "CONNECT" THEN Goes("caller", "start")
                                              ELSE tasks'["caller"].pc = "rest"
      /\ UNCHANGED <<state, link, events, heard, armed>>
  BY <1>1, ThreeTasks, Acts
<1>4. /\ \A input : /\ InFlight("timer", input)' <=> InFlight("timer", input)
                    /\ InFlight("event", input)' <=> InFlight("event", input)
                    /\ ~InFlight("caller", input) /\ ~InFlight("caller", input)'
      /\ \A pc : (At("timer", pc)' <=> At("timer", pc)) /\ (At("event", pc)' <=> At("event", pc))
  BY <1>1, <1>3 DEF InFlight, At, Goes
<1>5. (Leaving' <=> Leaving) /\ (Entering' <=> Entering) /\ ~At("caller", "act")'
  BY <1>1, <1>2, <1>3, <1>4 DEF Leaving, Entering, At, Goes
<1>6. Driving' <=> Driving
  BY <1>3, <1>4, <1>5 DEF Driving
<1>7. tasks["caller"].input = "DISCONNECT" => state = "IDLE" /\ link = "stopped"
  BY <1>1 DEF EndsInv, CallerLink, At
<1>8. Places'
  BY <1>3 DEF EndsInv, Places, Goes
<1>9. CallerLink'
  BY <1>2, <1>3, <1>4, <1>5, <1>7 DEF EndsInv, CallerLink, At, Goes
<1>10. Acting' /\ Queued' /\ Known' /\ HeardInv'
  BY <1>3, <1>4, <1>5 DEF EndsInv, Acting, Queued, Known, HeardInv
<1>11. Awaited'
  BY <1>3, <1>4, <1>5, <1>6 DEF EndsInv, Awaited
<1> QED BY <1>8, <1>9, <1>10, <1>11 DEF EndsInv

-----------------------------------------------------------------------------
(* The steps outside a transition. *)

LEMMA Moved ==
    ASSUME Inv, NEW t \in Task
    PROVE  /\ \A input : Feed(t, input) =>
                 /\ tasks'[t].pc = "load" /\ tasks'[t].input = input
                 /\ \A u \in Task \ {t} : tasks'[u] = tasks[u]
           /\ \A pc : Goto(t, pc) => /\ tasks'[t].pc = pc
                                     /\ \A u \in Task \ {t} : tasks'[u] = tasks[u]
           /\ Rest(t) => /\ tasks'[t].pc = "rest"
                         /\ \A u \in Task \ {t} : tasks'[u] = tasks[u]
<1>1. tasks \in [Task -> TaskState]
  BY DEF Inv, TypeOK
<1>2. \A new : tasks' = [tasks EXCEPT ![t] = new] =>
         tasks'[t] = new /\ \A u \in Task \ {t} : tasks'[u] = tasks[u]
  BY <1>1
<1>3. \A input : Feed(t, input) => tasks'[t] = [Resting EXCEPT !.pc = "load", !.input = input]
                                  /\ \A u \in Task \ {t} : tasks'[u] = tasks[u]
  BY <1>2 DEF Feed
<1>4. \A pc : Goto(t, pc) => tasks'[t] = [tasks[t] EXCEPT !.pc = pc]
                            /\ \A u \in Task \ {t} : tasks'[u] = tasks[u]
  BY <1>2 DEF Goto
<1>5. Rest(t) => tasks'[t] = Resting /\ \A u \in Task \ {t} : tasks'[u] = tasks[u]
  BY <1>2 DEF Rest
<1>6. ASSUME NEW input, Feed(t, input)
      PROVE  tasks'[t].pc = "load" /\ tasks'[t].input = input
  <2>1. tasks'[t] = [Resting EXCEPT !.pc = "load", !.input = input]
    BY <1>3, <1>6
  <2> QED BY <2>1 DEF Resting
<1>7. ASSUME NEW pc, Goto(t, pc) PROVE tasks'[t].pc = pc
  <2>1. tasks[t] \in TaskState
    BY <1>1
  <2>2. tasks'[t] = [tasks[t] EXCEPT !.pc = pc]
    BY <1>4, <1>7
  <2> QED BY <2>1, <2>2 DEF TaskState
<1>8. Resting.pc = "rest"
  BY DEF Resting
<1> QED BY <1>3, <1>4, <1>5, <1>6, <1>7, <1>8

LEMMA EventsType == Inv => events \in Seq(Event)
BY DEF Inv, TypeOK, Event

LEMMA DriverEnds ==
    ASSUME Inv, EndsInv, Driver
    PROVE  EndsInv'
<1>1. UNCHANGED <<state, retry, armed, tasks, heard>>
  BY DEF Driver, AttemptFails, GetsIp, LosesLink
<1>2. /\ \A t, input : InFlight(t, input)' <=> InFlight(t, input)
      /\ \A t, pc : At(t, pc)' <=> At(t, pc)
      /\ (Leaving' <=> Leaving) /\ (Entering' <=> Entering)
  BY <1>1 DEF InFlight, At, Leaving, Entering
<1>3. PICK x \in {"disconnected", "got_ip"} :
         /\ Post(x) /\ link # "stopped"
         /\ x = "disconnected" => link' = "idle"
         /\ x = "got_ip" => link' = "up" /\ link = "trying"
  BY DEF Driver, AttemptFails, GetsIp, LosesLink
<1>4. /\ \A e : Has(events', e) <=> Has(events, e) \/ e = x
      /\ \A e, f : Answered(events, e, f) /\ x # e => Answered(events', e, f)
      /\ \A e : e # x => Answered(events', e, x)
  BY <1>3, EventsType, Posted DEF Event, Post
<1>5. Places' /\ CallerLink' /\ Acting'
  BY <1>1, <1>2, <1>3 DEF EndsInv, Places, CallerLink, Acting
<1>6. Queued' /\ Known' /\ HeardInv'
  BY <1>1, <1>2, <1>3, <1>4 DEF EndsInv, Queued, Known, HeardInv
<1>7. Driving'
  BY <1>4 DEF Driving
<1>8. Awaited'
  BY <1>1, <1>2, <1>7 DEF EndsInv, Awaited
<1> QED BY <1>5, <1>6, <1>8 DEF EndsInv

LEMMA TimerOutsideEnds ==
    ASSUME Inv, EndsInv, TimerExpires \/ TimerConnects
    PROVE  EndsInv'
<1>1. /\ UNCHANGED <<state, events, heard>>
      /\ tasks'["caller"] = tasks["caller"] /\ tasks'["event"] = tasks["event"]
      /\ ~At("timer", "act")' /\ ~At("timer", "act")
  BY ThreeTasks, Moved DEF TimerExpires, TimerConnects, At
<1>2. /\ \A input : /\ InFlight("event", input)' <=> InFlight("event", input)
                    /\ InFlight("caller", input)' <=> InFlight("caller", input)
      /\ \A pc : (At("event", pc)' <=> At("event", pc)) /\ (At("caller", pc)' <=> At("caller", pc))
  BY <1>1 DEF InFlight, At
<1>3. (Leaving' <=> Leaving) /\ (Entering' <=> Entering)
  BY <1>1, <1>2 DEF Leaving, Entering
<1>4. (link' = "stopped" <=> link = "stopped") /\ (link' = "up" <=> link = "up")
  BY DEF TimerExpires, TimerConnects, esp_wifi_connect
<1>5. CallerLink' /\ Acting' /\ Queued' /\ Known' /\ HeardInv'
  BY <1>1, <1>2, <1>3, <1>4 DEF EndsInv, CallerLink, Acting, Queued, Known, HeardInv
<1>6. CASE TimerExpires
  <2>1. At("timer", "connect")' /\ link' = link
    BY <1>6, ThreeTasks, Moved DEF TimerExpires, At
  <2>2. ~InFlight("timer", "RETRY")'
    BY <2>1 DEF At, InFlight
  <2>3. Driving' <=> Driving
    BY <1>1, <1>2, <1>3, <2>1 DEF Driving
  <2>4. Places'
    BY <1>1, <2>1 DEF EndsInv, Places, At
  <2>5. Awaited'
    BY <1>1, <1>2, <2>1, <2>2, <2>3 DEF EndsInv, Awaited
  <2> QED BY <1>5, <2>4, <2>5 DEF EndsInv
<1>7. CASE TimerConnects
  <2>1. tasks'["timer"].pc = "load" /\ tasks'["timer"].input = "RETRY"
        /\ esp_wifi_connect /\ armed' = armed
    BY <1>7, ThreeTasks, Moved DEF TimerConnects
  <2>2. InFlight("timer", "RETRY")'
    BY <2>1 DEF InFlight
  <2>3. link \in {"stopped", "idle", "trying", "up"}
    BY DEF Inv, TypeOK
  <2>4. Driving => Driving'
    BY <1>1, <1>2, <1>3, <2>1 DEF Driving, esp_wifi_connect
  <2>5. state = "RECONNECTING" => Driving'
    <3>1. CASE link = "stopped"
      BY <1>3, <3>1, CallerInputs DEF Driving
    <3>2. CASE link = "up"
      BY <1>1, <1>2, <3>2 DEF EndsInv, Known, Driving
    <3> QED BY <2>1, <2>3, <3>1, <3>2 DEF esp_wifi_connect, Driving
  <2>6. Places'
    BY <1>1, <2>1 DEF EndsInv, Places
  <2>7. Awaited'
    BY <1>1, <1>2, <2>2, <2>4, <2>5 DEF EndsInv, Awaited
  <2> QED BY <1>5, <2>6, <2>7 DEF EndsInv
<1> QED BY <1>6, <1>7

LEMMA Takes ==
    ASSUME Inv, NEW x, Take(x)
    PROVE  /\ \A e : Has(events, e) => x = e \/ Has(events', e)
           /\ \A e : Has(events', e) => Has(events, e)
           /\ \A e, f : Answered(events, e, f) => Answered(events', e, f)
           /\ \A f : Answered(events, x, f) => Has(events', f)
<1>1. /\ events \in Seq(Event) /\ events # <<>>
      /\ Head(events) = x /\ events' = Tail(events)
  BY EventsType DEF Take
<1> QED BY <1>1, Taken

LEMMA OnStartEnds ==
    ASSUME Inv, EndsInv, OnStart
    PROVE  EndsInv'
<1>1. Take("start") /\ esp_wifi_connect /\ UNCHANGED <<state, retry, armed, tasks, heard>>
  BY DEF OnStart
<1>2. /\ \A t, input : InFlight(t, input)' <=> InFlight(t, input)
      /\ \A t, pc : At(t, pc)' <=> At(t, pc)
      /\ (Leaving' <=> Leaving) /\ (Entering' <=> Entering)
  BY <1>1 DEF InFlight, At, Leaving, Entering
<1>3. /\ \A e : Has(events, e) => e = "start" \/ Has(events', e)
      /\ \A e, f : Answered(events, e, f) => Answered(events', e, f)
  BY <1>1, Takes
<1>4. (link' = "stopped" <=> link = "stopped") /\ (link' = "up" <=> link = "up")
  BY <1>1 DEF esp_wifi_connect
<1>5. Places' /\ CallerLink' /\ Acting'
  BY <1>1, <1>2, <1>4 DEF EndsInv, Places, CallerLink, Acting
<1>6. Queued' /\ Known' /\ HeardInv'
  BY <1>1, <1>2, <1>3, <1>4 DEF EndsInv, Queued, Known, HeardInv
<1>7. Driving => Driving'
  BY <1>1, <1>2, <1>3 DEF Driving, esp_wifi_connect
<1>8. Awaited'
  BY <1>1, <1>2, <1>7 DEF EndsInv, Awaited
<1> QED BY <1>5, <1>6, <1>8 DEF EndsInv

LEMMA OnEventEnds ==
    ASSUME Inv, EndsInv, OnDisconnected \/ OnGotIp
    PROVE  EndsInv'
<1>1. PICK x \in {"disconnected", "got_ip"} :
         /\ Take(x)
         /\ x = "disconnected" => Feed("event", "DISCONNECTED") /\ heard' = "DISCONNECTED"
         /\ x = "got_ip" => Feed("event", "CONNECTED") /\ heard' = heard
         /\ UNCHANGED <<state, retry, armed, link>>
  BY DEF OnDisconnected, OnGotIp
<1>2. /\ tasks'["caller"] = tasks["caller"] /\ tasks'["timer"] = tasks["timer"]
      /\ tasks'["event"].pc = "load"
      /\ tasks'["event"].input = IF x = "got_ip" THEN "CONNECTED" ELSE "DISCONNECTED"
  BY <1>1, ThreeTasks, Moved
<1>3. tasks["event"].pc = "rest" /\ ~InTransition("timer")
  BY <1>1 DEF Take, At, MayRun
<1>4. /\ \A input : /\ ~InFlight("event", input)
                    /\ ~InFlight("timer", input) /\ ~InFlight("timer", input)'
                    /\ InFlight("caller", input)' <=> InFlight("caller", input)
      /\ InFlight("event", "CONNECTED")' <=> x = "got_ip"
      /\ InFlight("event", "DISCONNECTED")' <=> x = "disconnected"
      /\ \A pc : (At("timer", pc)' <=> At("timer", pc)) /\ (At("caller", pc)' <=> At("caller", pc))
      /\ ~At("event", "act") /\ ~At("event", "act")' /\ At("event", "load")'
  BY <1>1, <1>2, <1>3 DEF InFlight, At, InTransition
<1>5. (Leaving' <=> Leaving) /\ (Entering' <=> Entering)
  BY <1>2, <1>4 DEF Leaving, Entering
<1>6. /\ \A e : Has(events, e) => e = x \/ Has(events', e)
      /\ \A e : Has(events', e) => Has(events, e)
      /\ \A e, f : Answered(events, e, f) => Answered(events', e, f)
      /\ \A f : Answered(events, x, f) => Has(events', f)
  BY <1>1, Takes
<1>7. Places' /\ CallerLink' /\ Acting'
  BY <1>1, <1>2, <1>4, <1>5 DEF EndsInv, Places, CallerLink, Acting
<1>8. Queued'
  BY <1>1, <1>4, <1>6 DEF EndsInv, Queued
<1>9. Known' /\ HeardInv'
  BY <1>1, <1>4, <1>6 DEF EndsInv, Known, HeardInv
<1>10. Driving => Driving' \/ InFlight("event", "DISCONNECTED")'
  BY <1>1, <1>4, <1>5, <1>6 DEF Driving
<1>11. Awaited'
  BY <1>1, <1>4, <1>5, <1>10 DEF EndsInv, Awaited
<1> QED BY <1>7, <1>8, <1>9, <1>11 DEF EndsInv

LEMMA CallerOutsideEnds ==
    ASSUME Inv, EndsInv, ~StartFails,
           ConnectCall \/ esp_wifi_start \/ DisconnectCall \/ esp_wifi_stop
    PROVE  EndsInv'
<1>1. /\ UNCHANGED <<state, heard>>
      /\ tasks'["timer"] = tasks["timer"] /\ tasks'["event"] = tasks["event"]
      /\ ~At("caller", "act")' /\ ~At("caller", "act")
  BY ThreeTasks, Moved DEF ConnectCall, esp_wifi_start, DisconnectCall, esp_wifi_stop, At
<1>2. /\ \A input : /\ InFlight("event", input)' <=> InFlight("event", input)
                    /\ InFlight("timer", input)' <=> InFlight("timer", input)
      /\ \A pc : (At("event", pc)' <=> At("event", pc)) /\ (At("timer", pc)' <=> At("timer", pc))
  BY <1>1 DEF InFlight, At
<1>3. Acting'
  BY <1>1, <1>2 DEF EndsInv, Acting
<1>4. \A pc : At("caller", pc) => \A input : pc \in {"rest", "start", "stop"} => ~InFlight("caller", input)
  BY DEF At, InFlight
<1>5. CASE ConnectCall
  <2>1. /\ At("caller", "rest") /\ state = "IDLE" /\ UNCHANGED <<armed, link, events>>
        /\ tasks'["caller"].pc = "load" /\ tasks'["caller"].input = "CONNECT"
    BY <1>5, ThreeTasks, Moved DEF ConnectCall
  <2>2. link = "stopped"
    BY <2>1 DEF EndsInv, CallerLink, At
  <2>3. Places' /\ CallerLink'
    BY <1>1, <2>1, <2>2 DEF EndsInv, Places, CallerLink, Entering, InFlight, At
  <2>4. Queued' /\ Known' /\ HeardInv' /\ Awaited'
    BY <1>1, <1>2, <2>1 DEF EndsInv, Queued, Known, HeardInv, Awaited
  <2> QED BY <1>3, <2>3, <2>4 DEF EndsInv
<1>6. CASE esp_wifi_start
  <2>1. At("caller", "start") /\ tasks'["caller"].pc = "rest" /\ armed' = armed
    BY <1>6, ThreeTasks, Moved DEF esp_wifi_start
  <2>2. state # "IDLE" /\ link = "stopped"
    BY <2>1 DEF EndsInv, CallerLink, Entering
  <2>3. link' = "idle" /\ Post("start")
    BY <1>6, <2>2 DEF esp_wifi_start
  <2>4. /\ \A e : Has(events', e) <=> Has(events, e) \/ e = "start"
        /\ \A e, f : Answered(events, e, f) /\ e # "start" => Answered(events', e, f)
    BY <2>3, EventsType, Posted DEF Post, Event
  <2>5. Places' /\ CallerLink'
    BY <1>1, <2>1, <2>2, <2>3 DEF EndsInv, Places, CallerLink, Entering, InFlight, At
  <2>6. Queued' /\ Known' /\ HeardInv'
    BY <1>1, <1>2, <2>2, <2>3, <2>4 DEF EndsInv, Queued, Known, HeardInv
  <2>7. Driving'
    BY <2>3, <2>4 DEF Driving
  <2>8. ~Leaving
    BY <2>1 DEF Leaving, At, InFlight
  <2>9. Awaited'
    BY <1>1, <1>2, <2>1, <2>7, <2>8 DEF EndsInv, Awaited
  <2> QED BY <1>3, <2>5, <2>6, <2>9 DEF EndsInv
<1>7. CASE DisconnectCall
  <2>1. At("caller", "rest") /\ tasks'["caller"].pc = "stop" /\ UNCHANGED <<link, events>>
    BY <1>7, ThreeTasks, Moved DEF DisconnectCall
  <2>2. Leaving'
    BY <2>1 DEF Leaving, At
  <2>3. Places' /\ CallerLink'
    BY <1>1, <2>1 DEF EndsInv, Places, CallerLink, Entering, InFlight, At
  <2>4. Queued' /\ Known' /\ HeardInv'
    BY <1>1, <1>2, <2>1 DEF EndsInv, Queued, Known, HeardInv
  <2>5. Awaited'
    BY <2>2 DEF Awaited, Driving
  <2> QED BY <1>3, <2>3, <2>4, <2>5 DEF EndsInv
<1>8. CASE esp_wifi_stop
  <2>1. /\ At("caller", "stop") /\ link' = "stopped"
        /\ tasks'["caller"].pc = "load" /\ tasks'["caller"].input = "DISCONNECT"
    BY <1>8, ThreeTasks, Moved DEF esp_wifi_stop
  <2>2. Leaving'
    BY <2>1 DEF Leaving, InFlight
  <2>3. Places' /\ CallerLink'
    BY <1>1, <2>1 DEF EndsInv, Places, CallerLink, Entering, InFlight, At
  <2>4. /\ Answered(events', "got_ip", "disconnected")
        /\ \A e : Has(events, e) => Has(events', e)
        /\ link = "up" => Has(events', "disconnected")
    <3>1. CASE Post("disconnected")
      BY <3>1, EventsType, Posted DEF Post, Event
    <3>2. CASE link # "up" /\ UNCHANGED events
      BY <3>2 DEF EndsInv, Queued
    <3> QED BY <1>8, <3>1, <3>2 DEF esp_wifi_stop
  <2>5. Queued' /\ Known' /\ HeardInv'
    BY <1>1, <1>2, <2>1, <2>4 DEF EndsInv, Queued, Known, HeardInv
  <2>6. Awaited'
    BY <2>2 DEF Awaited, Driving
  <2> QED BY <1>3, <2>3, <2>5, <2>6 DEF EndsInv
<1> QED BY <1>5, <1>6, <1>7, <1>8

LEMMA NextEnds ==
    Serial /\ ~StartFails /\ (Inv /\ EndsInv) /\ [Next]_vars => (Inv /\ EndsInv)'
<1> SUFFICES ASSUME Serial, ~StartFails, Inv, EndsInv, [Next]_vars
             PROVE  (Inv /\ EndsInv)'
  OBVIOUS
<1>1. Inv'
  BY NextInv
<1>2. CASE \E t \in Task : apply_transition(t)
  <2>1. PICK t \in Task : MayRun(t) /\ (Load(t) \/ Count(t) \/ Store(t) \/ Act(t))
    BY <1>2 DEF apply_transition
  <2>2. CASE Load(t) \/ Count(t)
    BY <1>1, <2>2, LoadEnds, CountEnds
  <2>3. CASE Store(t)
    BY <1>1, <2>1, <2>3, ThreeTasks, TimerStoreEnds, CallerStoreEnds, EventStoreEnds
  <2>4. CASE Act(t)
    BY <1>1, <2>4, ThreeTasks, TimerActEnds, CallerActEnds, EventActEnds
  <2> QED BY <2>1, <2>2, <2>3, <2>4
<1>3. CASE Driver
  BY <1>1, <1>3, DriverEnds
<1>4. CASE TimerExpires \/ TimerConnects
  BY <1>1, <1>4, TimerOutsideEnds
<1>5. CASE OnStart
  BY <1>1, <1>5, OnStartEnds
<1>6. CASE OnDisconnected \/ OnGotIp
  BY <1>1, <1>6, OnEventEnds
<1>7. CASE ConnectCall \/ esp_wifi_start \/ DisconnectCall \/ esp_wifi_stop
  BY <1>1, <1>7, CallerOutsideEnds
<1>8. CASE UNCHANGED vars
  BY <1>1, <1>8 DEF vars, EndsInv, Places, CallerLink, Acting, Queued, Known, Awaited, HeardInv,
                    Driving, Leaving, Entering, InFlight, At
<1> QED
  BY <1>2, <1>3, <1>4, <1>5, <1>6, <1>7, <1>8
     DEF Next, EventTask, TimerTask, CallerRuns, Task

LEMMA InitEnds == Init => EndsInv
<1> SUFFICES ASSUME Init PROVE EndsInv OBVIOUS
<1>1. /\ \A t \in Task : tasks[t].pc = "rest"
      /\ state = "IDLE" /\ link = "stopped" /\ heard = "none" /\ events = <<>>
  BY DEF Init, Resting
<1>2. \A e, f : Answered(events, e, f)
  BY <1>1 DEF Answered
<1> QED BY <1>1, <1>2, ThreeTasks DEF EndsInv, Places, CallerLink, Acting, Queued, Known,
                 Awaited, HeardInv, Entering, InFlight, At

(* What the invariant says when nothing is under way.                      *)
LEMMA SettledEnds ==
    ASSUME Inv, EndsInv, Settled
    PROVE  /\ (state = "IDLE" <=> link = "stopped")
           /\ (link = "up" => state \in {"CONNECTED", "FAILED"})
           /\ (state = "CONNECTED" => link = "up")
           /\ state \notin {"CONNECTING", "RECONNECTING"}
           /\ (heard = "CONNECTED" <=> state = "CONNECTED")
<1>1. /\ \A t \in Task : tasks[t].pc = "rest"
      /\ events = <<>> /\ ~armed /\ link # "trying"
  BY DEF Settled, At
<1>2. /\ \A e : ~Has(events, e)
      /\ \A t \in Task : \A input : ~InFlight(t, input)
      /\ ~Entering /\ ~Leaving
      /\ \A t \in Task : ~At(t, "act") /\ ~At(t, "connect")
  BY <1>1, ThreeTasks DEF Has, InFlight, Entering, Leaving, At
<1>3. tasks["caller"].pc = "rest" /\ ~Driving
  BY <1>1, <1>2, ThreeTasks DEF Driving
<1>4. (state = "IDLE" <=> link = "stopped")
  BY <1>3 DEF EndsInv, CallerLink
<1>5. state \notin {"CONNECTING", "RECONNECTING"}
  BY <1>1, <1>2, <1>3, ThreeTasks DEF EndsInv, Awaited
<1>6. /\ (link = "up" => state \in {"CONNECTED", "FAILED"})
      /\ (state = "CONNECTED" => link = "up")
  BY <1>2, ThreeTasks DEF EndsInv, Known
<1>7. heard = "CONNECTED" <=> state = "CONNECTED"
  BY <1>2, ThreeTasks DEF EndsInv, HeardInv
<1> QED BY <1>4, <1>5, <1>6, <1>7

(* The manager never waits for an event that nothing will cause, if the    *)
(* caller's transitions do not overlap with those of the other tasks and   *)
(* esp_wifi_start does not fail: whatever order the driver's events, the   *)
(* retry timer and the calls come in, when nothing is under way it is      *)
(* idle, connected or has given up, and the station agrees.                *)
THEOREM NeverStrandedSerial == Serial /\ ~StartFails /\ Spec => []NeverStranded
<1> SUFFICES ASSUME Serial, ~StartFails PROVE Spec => []NeverStranded OBVIOUS
<1>1. (Inv /\ EndsInv) /\ [Next]_vars => (Inv /\ EndsInv)'
  BY NextEnds
<1>2. Inv /\ EndsInv => NeverStranded
  <2> SUFFICES ASSUME Inv, EndsInv, Settled
               PROVE  \/ state = "IDLE" /\ link = "stopped"
                      \/ state = "CONNECTED" /\ link = "up"
                      \/ state = "FAILED" /\ link # "stopped"
    BY DEF NeverStranded
  <2>1. state \in WifiState
    BY DEF Inv, TypeOK
  <2> QED BY <2>1, SettledEnds DEF WifiState
<1> QED BY <1>1, <1>2, InitInv, InitEnds, PTL DEF Spec

(* Under the same two conditions the application is not left with a wrong  *)
(* belief: when nothing is under way, the last event it heard is CONNECTED *)
(* exactly when the manager is.                                            *)
THEOREM ToldTheTruthSerial == Serial /\ ~StartFails /\ Spec => []ToldTheTruth
<1> SUFFICES ASSUME Serial, ~StartFails PROVE Spec => []ToldTheTruth OBVIOUS
<1>1. (Inv /\ EndsInv) /\ [Next]_vars => (Inv /\ EndsInv)'
  BY NextEnds
<1>2. Inv /\ EndsInv => ToldTheTruth
  BY SettledEnds DEF ToldTheTruth
<1> QED BY <1>1, <1>2, InitInv, InitEnds, PTL DEF Spec
=============================================================================
