-------------------------------- MODULE DspWifi --------------------------------
(***************************************************************************)
(* The WiFi connection manager (components/dsp_wifi): a state machine and  *)
(* a retry count that three tasks change without a lock.                   *)
(*                                                                         *)
(*   "caller"  an application task in dsp_wifi_connect or _disconnect      *)
(*   "event"   the default event loop, in wifi_event_handler               *)
(*   "timer"   the esp_timer task, in retry_timer_cb                       *)
(*                                                                         *)
(* ESP-IDF runs the last two on core 0 and gives the timer task the higher *)
(* priority (sdkconfig.defaults changes neither): once a callback has begun *)
(* the event task runs only until the driver has taken the callback's      *)
(* esp_wifi_connect.  The caller may be on the other core.                 *)
(***************************************************************************)
EXTENDS Naturals, Sequences

CONSTANTS
    MaxRetry,    \* s_max_retry
    MaxEvents,   \* bound: events queued in the event loop
    Serial,      \* the caller's transitions do not overlap with another
                 \* task's, which nothing in the code ensures
    StartFails   \* esp_wifi_start may return an error

ASSUME WifiAssumption == /\ MaxRetry \in Nat \ {0} /\ MaxEvents \in Nat \ {0}
                         /\ {Serial, StartFails} \subseteq BOOLEAN

VARIABLES
    state,    \* s_state
    retry,    \* s_retry
    armed,    \* s_retry_timer is running
    tasks,    \* what each task is doing
    link,     \* the station: "stopped", "idle", "trying", "up"
    events,   \* the event loop's queue
    heard     \* the last event given to the application's callback

vars == <<state, retry, armed, tasks, link, events, heard>>

Task == {"caller", "event", "timer"}
WifiState == {"IDLE", "CONNECTING", "CONNECTED", "RECONNECTING", "FAILED"}
WifiInput == {"CONNECT", "CONNECTED", "DISCONNECTED", "RETRY", "DISCONNECT"}

-----------------------------------------------------------------------------
(* dsp_wifi_sm_next: the next state, and what happens to *retry_count,     *)
(* where n is the count that was read.  DSP_WIFI_STATE_DISCONNECTED is     *)
(* never entered and has no counterpart.                                   *)

To(next, count) == [next |-> next, count |-> count]

AcceptsIp_NotEarly(s) == s = "CONNECTING"
AcceptsIp_Revives(s) == s \in {"CONNECTING", "RECONNECTING", "FAILED"}
AcceptsIp(s) == s \in {"CONNECTING", "RECONNECTING"}

CountsLoss_NotConnected(s) == s \in {"CONNECTING", "RECONNECTING"}
CountsLoss(s) == s \in {"CONNECTING", "CONNECTED", "RECONNECTING"}

AfterLoss_OffByOne(n) == To(IF n + 1 > MaxRetry THEN "FAILED"
                                                ELSE "RECONNECTING", "add")
AfterLoss(n) == To(IF n + 1 >= MaxRetry THEN "FAILED" ELSE "RECONNECTING", "add")

AfterRetry_Clears == To("CONNECTING", "clear")
AfterRetry == To("CONNECTING", "keep")

dsp_wifi_sm_next(s, input, n) ==
    CASE input = "DISCONNECT"                       -> To("IDLE", "clear")
      [] input = "CONNECT" /\ s = "IDLE"            -> To("CONNECTING", "clear")
      [] input = "CONNECTED" /\ AcceptsIp(s)        -> To("CONNECTED", "clear")
      [] input = "DISCONNECTED" /\ CountsLoss(s)    -> AfterLoss(n)
      [] input = "RETRY" /\ s = "RECONNECTING"      -> AfterRetry
      [] OTHER                                      -> To(s, "keep")

-----------------------------------------------------------------------------
(* Tasks.  A transition loads the state and the count, stores the count,   *)
(* stores the state, and then acts on the new state.                       *)

Resting == [pc |-> "rest", input |-> "RETRY", seen |-> "IDLE", n |-> 0,
            to |-> To("IDLE", "keep")]

At(t, pc) == tasks[t].pc = pc
Goto(t, pc) == tasks' = [tasks EXCEPT ![t].pc = pc]
Rest(t) == tasks' = [tasks EXCEPT ![t] = Resting]
Feed(t, input) == tasks' = [tasks EXCEPT ![t] = [Resting EXCEPT !.pc = "load",
                                                                !.input = input]]

InTransition(t) == tasks[t].pc \in {"load", "count", "store", "act"}
Midway(t) == tasks[t].pc \in {"count", "store", "act"}

(* Priorities on core 0, and what Serial assumes of the caller.            *)
MayRun(t) == /\ t = "event" => ~InTransition("timer")
             /\ Serial /\ At(t, "load") =>
                   \A u \in Task \ {t} : "caller" \in {t, u} => ~Midway(u)

Load(t) ==
    /\ At(t, "load")
    /\ tasks' = [tasks EXCEPT
          ![t].pc = "count", ![t].seen = state, ![t].n = retry,
          ![t].to = dsp_wifi_sm_next(state, tasks[t].input, retry)]
    /\ UNCHANGED <<state, retry, armed, link, events, heard>>

Count(t) ==
    /\ At(t, "count")
    /\ retry' = CASE tasks[t].to.count = "clear" -> 0
                  [] tasks[t].to.count = "add" -> tasks[t].n + 1
                  [] OTHER -> retry
    /\ Goto(t, "store")
    /\ UNCHANGED <<state, armed, link, events, heard>>

(* Where a transition ends: dsp_wifi_connect goes on to start the driver.  *)
Finish(t) == IF tasks[t].input = "CONNECT" THEN Goto(t, "start") ELSE Rest(t)

(* apply_transition compares the next state with s_state, which is not     *)
(* volatile: with the value loaded before or with the present one.         *)
Store(t) ==
    /\ At(t, "store")
    /\ \E s \in {state, tasks[t].seen} :
         IF tasks[t].to.next = s /\ tasks[t].input # "DISCONNECT"
         THEN Finish(t) /\ UNCHANGED state
         ELSE Goto(t, "act") /\ state' = tasks[t].to.next
    /\ UNCHANGED <<retry, armed, link, events, heard>>

(* emit, and esp_timer_start_once, which fails when the timer is running.  *)
Act(t) ==
    /\ At(t, "act")
    /\ heard' = IF tasks[t].to.next \in {"CONNECTED", "RECONNECTING", "FAILED"}
                THEN tasks[t].to.next ELSE heard
    /\ armed' = (armed \/ tasks[t].to.next = "RECONNECTING")
    /\ Finish(t)
    /\ UNCHANGED <<state, retry, link, events>>

apply_transition(t) == /\ MayRun(t)
                       /\ Load(t) \/ Count(t) \/ Store(t) \/ Act(t)

-----------------------------------------------------------------------------
(* The driver. *)

Post(e) == events' = Append(events, e)
HasRoom == Len(events) < MaxEvents

(* esp_wifi_connect has no effect on a stopped station or during an        *)
(* attempt.                                                                *)
esp_wifi_connect == IF link = "idle"
                    THEN link' = "trying"
                    ELSE UNCHANGED link

AttemptFails == /\ link = "trying" /\ HasRoom
                /\ link' = "idle" /\ Post("disconnected")
                /\ UNCHANGED <<state, retry, armed, tasks, heard>>

GetsIp == /\ link = "trying" /\ HasRoom
          /\ link' = "up" /\ Post("got_ip")
          /\ UNCHANGED <<state, retry, armed, tasks, heard>>

LosesLink == /\ link = "up" /\ HasRoom
             /\ link' = "idle" /\ Post("disconnected")
             /\ UNCHANGED <<state, retry, armed, tasks, heard>>

Driver == AttemptFails \/ GetsIp \/ LosesLink

-----------------------------------------------------------------------------
(* retry_timer_cb: connect, then apply RETRY. *)

TimerExpires == /\ armed /\ At("timer", "rest")
                /\ armed' = FALSE
                /\ Goto("timer", "connect")
                /\ UNCHANGED <<state, retry, link, events, heard>>

(* As below, without esp_wifi_connect.                                     *)
TimerConnects_Forgets == /\ At("timer", "connect")
                         /\ Feed("timer", "RETRY")
                         /\ UNCHANGED <<state, retry, armed, link, events,
                                        heard>>

(* The driver takes the request and wakes the timer task at once.          *)
TimerConnects == /\ At("timer", "connect")
                 /\ esp_wifi_connect
                 /\ Feed("timer", "RETRY")
                 /\ UNCHANGED <<state, retry, armed, events, heard>>

-----------------------------------------------------------------------------
(* wifi_event_handler, one action per event. *)

Take(e) == /\ At("event", "rest") /\ MayRun("event")
           /\ events # <<>> /\ Head(events) = e
           /\ events' = Tail(events)

OnStart == /\ Take("start")
           /\ esp_wifi_connect
           /\ UNCHANGED <<state, retry, armed, tasks, heard>>

OnDisconnected == /\ Take("disconnected")
                  /\ heard' = "DISCONNECTED"
                  /\ Feed("event", "DISCONNECTED")
                  /\ UNCHANGED <<state, retry, armed, link>>

OnGotIp == /\ Take("got_ip")
           /\ Feed("event", "CONNECTED")
           /\ UNCHANGED <<state, retry, armed, link, heard>>

-----------------------------------------------------------------------------
(* dsp_wifi_connect: the state first, then the driver. *)

ConnectCall == /\ At("caller", "rest")
               /\ state = "IDLE"
               /\ Feed("caller", "CONNECT")
               /\ UNCHANGED <<state, retry, armed, link, events, heard>>

esp_wifi_start ==
    /\ At("caller", "start")
    /\ \/ /\ link = "stopped" /\ HasRoom
          /\ link' = "idle" /\ Post("start")
       \/ /\ link # "stopped" \/ StartFails
          /\ UNCHANGED <<link, events>>
    /\ Rest("caller")
    /\ UNCHANGED <<state, retry, armed, heard>>

(* dsp_wifi_disconnect: the timer, the driver, then the state.             *)
(* esp_timer_stop does not wait for a callback that has begun.             *)
DisconnectCall == /\ At("caller", "rest")
                  /\ armed' = FALSE
                  /\ Goto("caller", "stop")
                  /\ UNCHANGED <<state, retry, link, events, heard>>

(* A station that was up reports its end; one that was trying may.         *)
esp_wifi_stop ==
    /\ At("caller", "stop")
    /\ link' = "stopped"
    /\ \/ link \in {"up", "trying"} /\ HasRoom /\ Post("disconnected")
       \/ link # "up" /\ UNCHANGED events
    /\ Feed("caller", "DISCONNECT")
    /\ UNCHANGED <<state, retry, armed, heard>>

-----------------------------------------------------------------------------
Init == /\ state = "IDLE" /\ retry = 0 /\ armed = FALSE
        /\ tasks = [t \in Task |-> Resting]
        /\ link = "stopped" /\ events = <<>>
        /\ heard = "none"

EventTask == \/ OnStart \/ OnDisconnected \/ OnGotIp
             \/ apply_transition("event")
TimerTask == \/ TimerExpires \/ TimerConnects
             \/ apply_transition("timer")
CallerRuns == esp_wifi_start \/ esp_wifi_stop \/ apply_transition("caller")

Next == \/ EventTask \/ TimerTask \/ CallerRuns
        \/ Driver
        \/ ConnectCall \/ DisconnectCall

(* The tasks are scheduled, the timer expires, and an attempt ends in an   *)
(* address or in a disconnect event.                                       *)
Fairness == /\ WF_vars(EventTask) /\ WF_vars(TimerTask) /\ WF_vars(CallerRuns)
            /\ WF_vars(AttemptFails \/ GetsIp)

Spec == Init /\ [][Next]_vars /\ Fairness

-----------------------------------------------------------------------------
Transition == [next : WifiState, count : {"clear", "add", "keep"}]

TaskState == [pc : {"rest", "load", "count", "store", "act",
                    "connect", "start", "stop"},
              input : WifiInput, seen : WifiState,
              n : 0..MaxRetry, to : Transition]

(* Type invariant of the manager, the driver and the three tasks.          *)
TypeOK ==
    /\ state \in WifiState /\ retry \in 0..MaxRetry /\ armed \in BOOLEAN
    /\ tasks \in [Task -> TaskState]
    /\ link \in {"stopped", "idle", "trying", "up"}
    /\ events \in Seq({"start", "disconnected", "got_ip"})
    /\ Len(events) <= MaxEvents
    /\ heard \in {"none", "CONNECTED", "DISCONNECTED", "RECONNECTING", "FAILED"}

(* Nothing is under way: no task runs, no event waits, no timer, no        *)
(* attempt.                                                                *)
Settled == /\ \A t \in Task : At(t, "rest")
           /\ events = <<>> /\ ~armed /\ link # "trying"

(* The manager never waits for an event that nothing will cause: when      *)
(* nothing is under way it is idle with a stopped station, connected with  *)
(* a link, or has given up.  This is what apply_transition's timer, the    *)
(* callback's order and the order in connect and disconnect are for.       *)
NeverStranded ==
    Settled => \/ state = "IDLE" /\ link = "stopped"
               \/ state = "CONNECTED" /\ link = "up"
               \/ state = "FAILED" /\ link # "stopped"

(* The application is not left with a wrong belief: when nothing is under  *)
(* way, the last event it heard is CONNECTED exactly when the manager is   *)
(* (emit in apply_transition and in wifi_event_handler).                   *)
ToldTheTruth == Settled => (heard = "CONNECTED" <=> state = "CONNECTED")

(* Giving up is final until the application disconnects (dsp_wifi_sm_next, *)
(* FAILED).                                                                *)
GivesUpForGood == [][state = "FAILED" => state' \in {"FAILED", "IDLE"}]_vars

(* A connection that is being made or made again is reached, given up, or  *)
(* ended by the application.                                               *)
ConnectEnds == state \in {"CONNECTING", "RECONNECTING"}
                  ~> state \in {"CONNECTED", "FAILED", "IDLE"}
=============================================================================
