---------------------------- MODULE DspApplication ----------------------------
(***************************************************************************)
(* The acquisition task of Core 1 (components/dsp_application): start and  *)
(* stop on one core against the task they control on the other, with the   *)
(* sensor driver, the task watchdog and the ring buffer it pushes into.    *)
(* The buffer is the queue that DspShared is shown to implement; its mutex *)
(* is kept, because a task may be deleted while it holds it.               *)
(***************************************************************************)
EXTENDS DspDht20

CONSTANTS
    Capacity,    \* DSP_RING_BUF_CAPACITY
    Interval,    \* CONFIG_DSP_APPLICATION_POLL_INTERVAL_MS
    WordMod,     \* 2^32 for a uint32_t; 2^16 is enough for both values
    StartsOnce,  \* dsp_application_start is not called while a task runs
    StopsAtRest  \* dsp_application_stop is called, and ends, while every task
                 \* is in the delay between two cycles.  Nothing ensures it.

ASSUME ApplicationAssumption == /\ Capacity \in Nat \ {0}
                                /\ Interval \in Nat
                                /\ WordMod \in Nat /\ WordMod >= 2 ^ 16
                                /\ StartsOnce \in BOOLEAN /\ StopsAtRest \in BOOLEAN

VARIABLES
    ctl,      \* program counter of the caller of start and stop
    starts,   \* tasks created since boot
    s_sh, s_running, s_dht20, s_task_handle,
    ready,    \* sh->core1_ready
    watched,  \* the tasks subscribed to the task watchdog
    mutex,    \* the task that holds ring_buf_mutex, NoTask
    queue     \* the samples in the ring buffer

callerVars == <<ctl, starts>>
sharedVars == <<mutex, queue>>
appVars == <<s_sh, s_running, s_dht20, s_task_handle, ready, watched>>
vars == <<driverVars, callerVars, sharedVars, appVars>>

TaskInit == [pc |-> "none", reg |-> 0, h |-> NoTask, waited |-> 0, spent |-> 0,
             reading |-> NoReading]

Init == /\ task = [t \in Task |-> TaskInit]
        /\ held = [t \in Task |-> {}]
        /\ ctl = "idle" /\ starts = 0
        /\ s_sh = FALSE /\ s_running = FALSE
        /\ s_dht20 = NoTask /\ s_task_handle = NoTask
        /\ ready = 0 /\ watched = {}
        /\ mutex = NoTask /\ queue = <<>>

Live(t) == task[t].pc \notin {"none", "dead"}

Stopping == ctl \in {"release", "forget", "unshare", "unwatch", "delete"}
-----------------------------------------------------------------------------
(* The task: application_init and the acquisition loop *)

Subscribe(t) ==
    /\ At(t, "start")
    /\ Step(t, "alloc", 0)
    /\ \/ watched' = watched \cup {t}
       \/ UNCHANGED watched          \* esp_task_wdt_add failed: not watched
    /\ UNCHANGED <<held, callerVars, sharedVars, s_sh, s_running, s_dht20, s_task_handle, ready>>

Driver(t) == (InitSteps(t) \/ ReadSteps(t)) /\ UNCHANGED <<callerVars, sharedVars, appVars>>

(* A failed dsp_dht20_init leaves s_dht20 as it was.                       *)
Initialised(t) ==
    /\ At(t, "initDone")
    /\ Return(t, "ready", NoTask, NoReading, 0)
    /\ s_dht20' = IF task[t].h # NoTask THEN task[t].h ELSE s_dht20
    /\ UNCHANGED <<held, callerVars, sharedVars, s_sh, s_running, s_task_handle, ready, watched>>

SetReady(t) ==
    /\ At(t, "ready")
    /\ Step(t, "running", 0)
    /\ ready' = 1
    /\ UNCHANGED <<held, callerVars, sharedVars, s_sh, s_running, s_dht20, s_task_handle, watched>>

SetRunning(t) ==
    /\ At(t, "running")
    /\ Step(t, "check", 0)
    /\ s_running' = TRUE
    /\ UNCHANGED <<held, callerVars, sharedVars, s_sh, s_dht20, s_task_handle, ready, watched>>

CheckSensor(t) ==
    /\ At(t, "check")
    /\ Step(t, IF s_dht20 # NoTask THEN "acquire" ELSE "feed", 0)
    /\ UNCHANGED <<held, callerVars, sharedVars, appVars>>

(* s_dht20 is read again for the call of dsp_dht20_read.                   *)
AcquireSamples(t) ==
    /\ At(t, "acquire")
    /\ task' = [task EXCEPT ![t].pc = "trigger", ![t].h = s_dht20]
    /\ UNCHANGED <<held, callerVars, sharedVars, appVars>>

Trunc(a, b) == IF a >= 0 THEN a \div b ELSE - ((- a) \div b)

(* Hundredths of a degree, of a percent: raw * 200 / 2^20 - 50 and         *)
(* raw * 100 / 2^20, times 100, cut towards zero.                          *)
CentiTemp(r) == Trunc(r.t * 625 - 5000 * 32768, 32768)
CentiHum(r) == Trunc(r.h * 625, 65536)

(* The cast to uint32_t.                                                   *)
Word(x) == x % WordMod

Sample(t, ch) == [ch |-> ch, raw |-> Word(IF ch = "temp" THEN CentiTemp(task[t].reading)
                                                         ELSE CentiHum(task[t].reading))]

(* dsp_ring_buf_push(s_sh, ...): refused without shared state, else the    *)
(* task waits for the mutex without a limit.                               *)
PushLock(t, from, locked, next) ==
    /\ At(t, from)
    /\ \/ ~s_sh /\ Step(t, next, 0) /\ UNCHANGED mutex
       \/ s_sh /\ mutex = NoTask /\ mutex' = t /\ Step(t, locked, 0)
    /\ UNCHANGED <<held, callerVars, queue, appVars>>

PushStore_NoUnlock(t, locked, ch, next) ==
    /\ At(t, locked)
    /\ Step(t, next, 0)
    /\ queue' = IF Len(queue) < Capacity THEN Append(queue, Sample(t, ch)) ELSE queue
    /\ mutex' = IF Len(queue) < Capacity THEN NoTask ELSE mutex
    /\ UNCHANGED <<held, callerVars, appVars>>

(* Store or drop the sample, and unlock.                                   *)
PushStore(t, locked, ch, next) ==
    /\ At(t, locked)
    /\ Step(t, next, 0)
    /\ queue' = IF Len(queue) < Capacity THEN Append(queue, Sample(t, ch)) ELSE queue
    /\ mutex' = NoTask
    /\ UNCHANGED <<held, callerVars, appVars>>

PushTemp(t) == \/ PushLock(t, "pushTemp", "storeTemp", "pushHum")
               \/ PushStore(t, "storeTemp", "temp", "pushHum")

PushHum(t) == \/ PushLock(t, "pushHum", "storeHum", "feed")
              \/ PushStore(t, "storeHum", "hum", "feed")

(* esp_task_wdt_reset, then the delay.                                     *)
Feed(t) ==
    /\ At(t, "feed")
    /\ task' = [task EXCEPT ![t].pc = "delay", ![t].spent = 0, ![t].reading = NoReading]
    /\ UNCHANGED <<held, callerVars, sharedVars, appVars>>

Delay(t) ==
    /\ At(t, "delay")
    /\ Step(t, "check", Interval)
    /\ UNCHANGED <<held, callerVars, sharedVars, appVars>>

TaskStep(t) ==
    /\ StopsAtRest => ~Stopping
    /\ \/ Subscribe(t) \/ Driver(t) \/ Initialised(t) \/ SetReady(t) \/ SetRunning(t)
       \/ CheckSensor(t) \/ AcquireSamples(t) \/ PushTemp(t) \/ PushHum(t)
       \/ Feed(t) \/ Delay(t)
-----------------------------------------------------------------------------
(* dsp_application_start.  The code refuses no second start.               *)

StartCall ==
    /\ ctl = "idle" /\ starts < MaxStarts
    /\ StartsOnce => \A t \in Task : ~Live(t)
    /\ ctl' = "create"
    /\ s_sh' = TRUE
    /\ UNCHANGED <<driverVars, starts, sharedVars, s_running, s_dht20, s_task_handle, ready, watched>>

CreateTask ==
    /\ ctl = "create"
    /\ ctl' = "idle"
    /\ starts' = starts + 1
    /\ \/ /\ task' = [task EXCEPT ![starts'].pc = "start"]
          /\ s_task_handle' = starts'
          /\ UNCHANGED s_sh
       \/ /\ s_sh' = FALSE          \* out of memory
          /\ UNCHANGED <<task, s_task_handle>>
    /\ UNCHANGED <<held, sharedVars, s_running, s_dht20, ready, watched>>

(* dsp_application_stop                                                    *)
StopCall ==
    /\ ctl = "idle"
    /\ StopsAtRest => \A t \in Task : Live(t) => At(t, "delay")
    /\ s_running' = FALSE
    /\ ctl' = IF s_dht20 # NoTask THEN "release" ELSE "unshare"
    /\ UNCHANGED <<driverVars, starts, sharedVars, s_sh, s_dht20, s_task_handle, ready, watched>>

StopRelease ==
    /\ ctl = "release"
    /\ ctl' = "forget"
    /\ Release(s_dht20)
    /\ UNCHANGED <<task, starts, sharedVars, appVars>>

StopForget_Keeps ==
    /\ ctl = "forget"
    /\ ctl' = "unshare"
    /\ UNCHANGED <<driverVars, starts, sharedVars, appVars>>

StopForget ==
    /\ ctl = "forget"
    /\ ctl' = "unshare"
    /\ s_dht20' = NoTask
    /\ UNCHANGED <<driverVars, starts, sharedVars, s_sh, s_running, s_task_handle, ready, watched>>

StopUnshare ==
    /\ ctl = "unshare"
    /\ ctl' = IF s_task_handle # NoTask THEN "unwatch" ELSE "idle"
    /\ ready' = IF s_sh THEN 0 ELSE ready
    /\ s_sh' = FALSE
    /\ UNCHANGED <<driverVars, starts, sharedVars, s_running, s_dht20, s_task_handle, watched>>

(* esp_task_wdt_delete, before the task is gone.                           *)
StopUnwatch ==
    /\ ctl = "unwatch"
    /\ ctl' = "delete"
    /\ watched' = watched \ {s_task_handle}
    /\ UNCHANGED <<driverVars, starts, sharedVars, s_sh, s_running, s_dht20, s_task_handle, ready>>

StopDelete ==
    /\ ctl = "delete"
    /\ ctl' = "idle"
    /\ task' = [task EXCEPT ![s_task_handle] = [TaskInit EXCEPT !.pc = "dead"]]
    /\ s_task_handle' = NoTask
    /\ UNCHANGED <<held, starts, sharedVars, s_sh, s_running, s_dht20, ready, watched>>

Stop == StopRelease \/ StopForget \/ StopUnshare \/ StopUnwatch \/ StopDelete

(* Core 0 takes a sample (dsp_ring_buf_pop).                               *)
Pop ==
    /\ mutex = NoTask /\ queue # <<>>
    /\ queue' = Tail(queue)
    /\ UNCHANGED <<driverVars, callerVars, appVars, mutex>>

Next == (\E t \in Task : TaskStep(t)) \/ StartCall \/ CreateTask \/ StopCall \/ Stop \/ Pop

(* The scheduler runs every task and the caller, the consumer drains, and  *)
(* a waiting task gets the mutex (FreeRTOS wakes the waiters in turn).     *)
Spec == /\ Init /\ [][Next]_vars
        /\ \A t \in Task : /\ WF_vars(TaskStep(t))
                           /\ SF_vars(TaskStep(t) /\ (PushTemp(t) \/ PushHum(t)))
        /\ WF_vars(Stop) /\ WF_vars(CreateTask) /\ WF_vars(Pop)
-----------------------------------------------------------------------------
(* Properties *)

(* The time a task can spend between two resets of the watchdog: the       *)
(* initialisation or the delay, then a reading whose poll asks for the     *)
(* status once per step and stops at the first wait that is long enough.   *)
InitMax == PowerOn + I2cMax + 3 * ResetTime
PollMax == (BusyTimeout - MeasWait + PollStep - 1) \div PollStep
CycleMax == (IF InitMax > Interval THEN InitMax ELSE Interval)
            + MeasWait + PollMax * PollStep + (PollMax + 3) * I2cMax

(* Use after free: no task is in an I2C transaction with a structure, bus  *)
(* or device that was released, by stop, by a failed initialisation or by  *)
(* another task.                                                           *)
NoUseAfterFree == \A t, h \in Task : UsesDevice(t, h) => held[h] = Parts

(* Whatever fails and whenever the application is stopped, nothing is left *)
(* with a task that is no more: what is allocated belongs to the handle in *)
(* use or to an initialisation that still runs (the I2C port of a lost bus *)
(* could never be opened again), the ring mutex, which Core 0 waits for    *)
(* without a limit, to a task about to give it back, and the watchdog,     *)
(* which resets the chip, watches no deleted task.                         *)
PartsOwned ==
    \A t \in Task : held[t] # {} =>
        \/ s_dht20 = t /\ ctl # "forget"
        \/ task[t].pc \in {"bus", "dev", "status", "cal"}
        \/ At(t, "initDone") /\ task[t].h = t
MutexHeldByLive == mutex # NoTask => task[mutex].pc \in {"storeTemp", "storeHum"}
WatchedLive == \A t \in watched : Live(t)
NothingLeaks == PartsOwned /\ MutexHeldByLive /\ WatchedLive

(* dht20_crc8 finds every damage that is considered.                       *)
DamageDetected == \A buf \in Damaged : ~CrcMatches(buf)

Decode(w) == IF 2 * w >= WordMod THEN w - WordMod ELSE w

(* Every sample in the buffer is, once decoded as the header says, what    *)
(* the sensor measured: no damaged frame, no bit of the other value, no    *)
(* lost sign.                                                              *)
SamplesTrue ==
    \A i \in 1 .. Len(queue) : \E r \in Readings :
        Decode(queue[i].raw) = IF queue[i].ch = "temp" THEN CentiTemp(r) ELSE CentiHum(r)

(* A sensor that stays busy holds the task for a bounded time.             *)
PollBounded == \A t \in Task : /\ task[t].waited < BusyTimeout + PollStep
                               /\ task[t].spent <= CycleMax

(* dsp_application_stop "clears s_running and core1_ready" and releases    *)
(* what the application holds: afterwards no flag, no part of the driver   *)
(* and no mutex is left behind.                                            *)
StoppedClean == ctl = "idle" /\ s_task_handle = NoTask =>
                    /\ ~s_running /\ ready = 0
                    /\ \A t \in Task : held[t] = {}
                    /\ mutex = NoTask

(* Every acquisition cycle reaches its delay, where the watchdog has been  *)
(* fed: no failure, full buffer or busy sensor holds a task for ever.      *)
CycleEnds == \A t \in Task : Live(t) ~> At(t, "delay") \/ At(t, "dead")
=============================================================================
