------------------------- MODULE DspApplicationProofs -------------------------
(***************************************************************************)
(* Proofs about DspApplication, for any number of starts, also beside a    *)
(* running task, and any readings, timings and failures: with StopsAtRest, *)
(* if dsp_application_stop finds every task in its delay, no released      *)
(* driver is used and nothing is left behind; and whenever stop is called, *)
(* the time between two resets of the watchdog is bounded, and what is in  *)
(* the ring buffer is what the sensor measured, if the checksum finds the  *)
(* damage of a frame.                                                      *)
(***************************************************************************)
EXTENDS DspApplication, TLAPS

-----------------------------------------------------------------------------
(* The invariant *)

Fresh == {"none", "start", "alloc"}
Opening == {"bus", "dev", "status", "cal"}
Storing == {"storeTemp", "storeHum"}
Running == {"ready", "running", "check", "acquire", "trigger", "poll", "data", "pushTemp",
            "pushHum", "feed", "delay"} \cup Storing

Pc == {"none", "dead", "start", "alloc", "bus", "dev", "status", "cal", "initDone", "ready",
       "running", "check", "acquire", "trigger", "poll", "data", "pushTemp", "storeTemp",
       "pushHum", "storeHum", "feed", "delay"}

TaskRec == [pc: Pc, reg: Int, h: Task \cup {NoTask}, waited: Int, spent: Int,
            reading: Accepted \cup {NoReading}]

AppTypes == /\ task \in [Task -> TaskRec] /\ held \in [Task -> SUBSET Parts]
            /\ starts \in 0 .. MaxStarts
            /\ s_dht20 \in Task \cup {NoTask} /\ s_task_handle \in Task \cup {NoTask}
            /\ watched \subseteq Task

(* What a task has allocated, from its program counter; once its driver is *)
(* initialised, s_dht20 owns it.  A task initialises its driver once.      *)
PartsOf(t) ==
    /\ task[t].pc \in Fresh => held[t] = {}
    /\ At(t, "bus") => held[t] = {"mem"}
    /\ At(t, "dev") => held[t] = {"mem", "bus"}
    /\ task[t].pc \in {"status", "cal"} => held[t] = Parts
    /\ At(t, "initDone") => \/ task[t].h = t /\ held[t] = Parts
                            \/ task[t].h = NoTask /\ held[t] = {}
    /\ task[t].pc \in Running \cup {"dead"} /\ held[t] # {} => s_dht20 = t /\ ctl # "forget"
    /\ s_dht20 = t => task[t].pc \in Running \cup {"dead"}

(* The I2C port belongs to one structure; the handle is whole, until stop  *)
(* has released it, and a reading goes on with it.                         *)
OneBus == \A t, u \in Task : "bus" \in held[t] /\ "bus" \in held[u] => t = u
HandleWhole == s_dht20 # NoTask => held[s_dht20] = IF ctl = "forget" THEN {} ELSE Parts
ReadsHandle == \A t \in Task : task[t].pc \in {"trigger", "poll", "data"}
                                  => task[t].h \in {s_dht20, NoTask}

(* The caller: who is alive while it stops, and what it works on.          *)
CallerInv == /\ Stopping => \A t \in Task : Live(t) => At(t, "delay")
             /\ ctl = "create" => starts < MaxStarts
             /\ \A t \in Task : t > starts => At(t, "none")
             /\ ctl \in {"release", "forget"} => s_dht20 # NoTask
             /\ s_task_handle <= starts
             /\ ctl \in {"unwatch", "delete"} => s_task_handle # NoTask
             /\ ctl = "delete" => s_task_handle \notin watched

AppInv == /\ AppTypes /\ (\A t \in Task : PartsOf(t))
          /\ OneBus /\ HandleWhole /\ ReadsHandle /\ CallerInv
          /\ mutex \in Task \cup {NoTask} /\ MutexHeldByLive /\ WatchedLive

-----------------------------------------------------------------------------
(* How a step moves its task.                                              *)

Moves(t, pc, h) == /\ task' \in [Task -> TaskRec]
                   /\ task'[t].pc = pc /\ task'[t].h = h
                   /\ \A u \in Task \ {t} : task'[u] = task[u]

LEMMA StepMoves ==
    ASSUME AppTypes, NEW t \in Task, NEW pc \in Pc, NEW c \in Int, Step(t, pc, c)
    PROVE  Moves(t, pc, task[t].h)
  <1>1. task[t] \in TaskRec /\ task[t].spent + c \in Int
    BY DEF AppTypes, TaskRec
  <1>2. [task[t] EXCEPT !.pc = pc, !.spent = @ + c] \in TaskRec
    BY <1>1 DEF TaskRec
  <1>3. /\ task' = [task EXCEPT ![t] = [task[t] EXCEPT !.pc = pc, !.spent = @ + c]]
        /\ [task[t] EXCEPT !.pc = pc, !.spent = @ + c].pc = pc
        /\ [task[t] EXCEPT !.pc = pc, !.spent = @ + c].h = task[t].h
    BY <1>1 DEF Step, AppTypes, TaskRec
  <1>. QED  BY <1>2, <1>3 DEF Moves, AppTypes

LEMMA ReturnMoves ==
    ASSUME AppTypes, NEW t \in Task, NEW pc \in Pc, NEW c \in Int,
           NEW h \in Task \cup {NoTask}, NEW r \in Accepted \cup {NoReading},
           Return(t, pc, h, r, c)
    PROVE  Moves(t, pc, h)
  BY DEF Return, Moves, AppTypes, TaskRec

LEMMA Times == /\ I2cMax \in Int /\ PowerOn \in Int /\ MeasWait \in Int /\ PollStep \in Int
               /\ ResetTime \in Int /\ Interval \in Int /\ 0 \in Int
  BY DriverAssumption, ApplicationAssumption DEF ResetTime

Quiet == UNCHANGED <<ctl, starts, s_task_handle>>

(* A step of an initialised task that changes no driver.                   *)
LEMMA RunningStep ==
    ASSUME AppInv, ~Stopping, NEW t \in Task, NEW pc \in Running, NEW h \in Task \cup {NoTask},
           task[t].pc \in Running, Moves(t, pc, h), Quiet, UNCHANGED <<held, s_dht20, watched>>,
           pc \in {"trigger", "poll", "data"} => h \in {s_dht20, NoTask},
           \/ mutex' = mutex /\ task[t].pc \notin Storing
           \/ mutex' = NoTask
           \/ mutex' = t /\ pc \in Storing
    PROVE  AppInv'
  <1>. USE DEF AppInv
  <1>1. AppTypes'
    BY DEF Moves, AppTypes, Quiet
  <1>2. \A u \in Task : PartsOf(u)'
    <2>. SUFFICES ASSUME NEW u \in Task PROVE PartsOf(u)'
      OBVIOUS
    <2>1. CASE u = t
      BY <2>1 DEF PartsOf, Moves, Quiet, Running, Storing, Fresh, At
    <2>2. CASE u # t
      BY <2>2 DEF PartsOf, Moves, Quiet, At
    <2>. QED  BY <2>1, <2>2
  <1>3. OneBus' /\ HandleWhole' /\ ReadsHandle'
    BY DEF OneBus, HandleWhole, ReadsHandle, Moves, Quiet
  <1>4. CallerInv'
    BY DEF CallerInv, Moves, Quiet, Stopping, Live, At, Running, Storing
  <1>5. mutex' \in Task \cup {NoTask} /\ MutexHeldByLive'
    BY DEF MutexHeldByLive, Moves, Storing, NoTask, Task
  <1>6. WatchedLive'
    BY DEF WatchedLive, AppTypes, Moves, Live, Running, Storing
  <1>. QED  BY <1>1, <1>2, <1>3, <1>4, <1>5, <1>6

(* A step of the initialisation, which may change what the task holds.     *)
LEMMA OpeningStep ==
    ASSUME AppInv, ~Stopping, NEW t \in Task, NEW pc \in Pc, NEW h \in Task \cup {NoTask},
           task[t].pc \in Opening \cup {"start", "alloc", "initDone"},
           pc \in Opening \cup {"alloc", "initDone", "ready"},
           Moves(t, pc, h), Quiet, UNCHANGED mutex,
           held' \in [Task -> SUBSET Parts], \A u \in Task \ {t} : held'[u] = held[u],
           "bus" \in held'[t] => "bus" \in held[t] \/ PortFree,
           PartsOf(t)', watched' \in {watched, watched \cup {t}},
           \/ s_dht20' = s_dht20
           \/ s_dht20' = t /\ s_dht20 = NoTask /\ held'[t] = Parts
    PROVE  AppInv'
  <1>. USE DEF AppInv
  <1>1. AppTypes'
    BY DEF Moves, AppTypes, Quiet
  <1>2. s_dht20 # t /\ ctl' # "forget" /\ ctl # "forget"
    BY DEF PartsOf, Opening, Running, Storing, Stopping, Quiet
  <1>3. ASSUME NEW u \in Task, u # t PROVE PartsOf(u)'
    <2>1. task'[u] = task[u] /\ held'[u] = held[u]
      BY <1>3 DEF Moves
    <2>2. CASE s_dht20' = s_dht20
      BY <2>1, <2>2, <1>2 DEF PartsOf, At
    <2>3. CASE s_dht20' = t /\ s_dht20 = NoTask
      BY <1>3, <2>1, <2>3 DEF PartsOf, At, NoTask, Task
    <2>. QED  BY <2>2, <2>3
  <1>4. OneBus'
    BY DEF OneBus, PortFree
  <1>5. HandleWhole'
    BY <1>2 DEF HandleWhole, AppTypes
  <1>6. ReadsHandle'
    BY DEF ReadsHandle, Moves, Opening
  <1>7. CallerInv'
    BY DEF CallerInv, Moves, Quiet, Stopping, Live, At, Opening
  <1>8. MutexHeldByLive' /\ mutex' \in Task \cup {NoTask}
    BY DEF MutexHeldByLive, Moves, Opening
  <1>9. WatchedLive'
    BY DEF WatchedLive, AppTypes, Moves, Live, Opening
  <1>. QED  BY <1>1, <1>3, <1>4, <1>5, <1>6, <1>7, <1>8, <1>9

-----------------------------------------------------------------------------
(* The steps of a task.                                                    *)

AppRest == UNCHANGED <<callerVars, sharedVars, appVars>>

LEMMA InitStepsInv ==
    ASSUME AppInv, ~Stopping, NEW t \in Task, InitSteps(t), AppRest PROVE AppInv'
  <1>. USE Times
  <1>1. /\ AppTypes /\ PartsOf(t) /\ Quiet /\ UNCHANGED <<mutex, watched, s_dht20>>
        /\ s_dht20 # t
    BY DEF AppInv, AppRest, callerVars, sharedVars, appVars, Quiet, InitSteps, AllocHandle, NewBus,
           AddDevice, ReadStatus, ResetRegister, At, PartsOf, Running, Storing
  <1>2. ASSUME task[t].pc \in Opening \cup {"alloc"}, NEW c \in Int, InitFails(t, c)
        PROVE  AppInv'
    <2>1. Moves(t, "initDone", NoTask)
      BY <1>1, <1>2, ReturnMoves DEF InitFails, Pc
    <2>2. held' \in [Task -> SUBSET Parts] /\ held'[t] = {}
          /\ \A u \in Task \ {t} : held'[u] = held[u]
      BY <1>1, <1>2 DEF InitFails, AppTypes
    <2>3. PartsOf(t)'
      BY <1>1, <2>1, <2>2 DEF PartsOf, Moves, At, Fresh, Running, Storing
    <2>. QED  BY <1>1, <1>2, <2>1, <2>2, <2>3, OpeningStep DEF Pc, Opening
  <1>3. ASSUME task[t].pc \in {"status", "cal"}, NEW c \in Int, InitSucceeds(t, c)
        PROVE  AppInv'
    <2>1. Moves(t, "initDone", t) /\ held' = held
      BY <1>1, <1>3, ReturnMoves DEF InitSucceeds, Pc
    <2>2. PartsOf(t)'
      BY <1>1, <1>3, <2>1 DEF PartsOf, Moves, At, Fresh, Running, Storing
    <2>. QED  BY <1>1, <1>3, <2>1, <2>2, OpeningStep DEF Pc, Opening, AppTypes
  <1>4. ASSUME NEW pc \in {"bus", "dev", "status"}, NEW c \in Int, Step(t, pc, c),
               NEW H \in SUBSET Parts, held' = [held EXCEPT ![t] = H],
               \/ At(t, "alloc") /\ pc = "bus" /\ H = {"mem"}
               \/ At(t, "bus") /\ pc = "dev" /\ H = {"mem", "bus"} /\ PortFree
               \/ At(t, "dev") /\ pc = "status" /\ H = Parts
        PROVE  AppInv'
    <2>1. Moves(t, pc, task[t].h) /\ task[t].h \in Task \cup {NoTask}
      BY <1>1, <1>4, StepMoves DEF Pc, AppTypes, TaskRec
    <2>2. held' \in [Task -> SUBSET Parts] /\ held'[t] = H
          /\ \A u \in Task \ {t} : held'[u] = held[u]
      BY <1>1, <1>4 DEF AppTypes
    <2>3. PartsOf(t)'
      BY <1>1, <1>4, <2>1, <2>2 DEF PartsOf, Moves, At, Fresh, Running, Storing
    <2>4. "bus" \in held'[t] => "bus" \in held[t] \/ PortFree
      BY <1>1, <1>4, <2>2 DEF PartsOf, At
    <2>. QED  BY <1>1, <1>4, <2>1, <2>2, <2>3, <2>4, OpeningStep DEF Pc, Opening, At
  <1>5. ASSUME task[t].pc \in {"status", "cal"}, Moves(t, "cal", task[t].h), held' = held
        PROVE  AppInv'
    <2>1. PartsOf(t)'
      BY <1>1, <1>5 DEF PartsOf, Moves, At, Fresh, Running, Storing
    <2>. QED  BY <1>1, <1>5, <2>1, OpeningStep DEF Pc, Opening, AppTypes, TaskRec
  <1>6. CASE AllocHandle(t)
    BY <1>2, <1>4, <1>6 DEF AllocHandle, At, Parts
  <1>7. CASE NewBus(t)
    <2>1. held[t] \cup {"bus"} = {"mem", "bus"}
      BY <1>1, <1>7 DEF NewBus, PartsOf
    <2>. QED  BY <1>2, <1>4, <1>7, <2>1 DEF NewBus, At, Parts, Opening
  <1>8. CASE AddDevice(t)
    <2>1. held[t] \cup {"dev"} = Parts
      BY <1>1, <1>8 DEF AddDevice, PartsOf, Parts
    <2>. QED  BY <1>2, <1>4, <1>8, <2>1 DEF AddDevice, At, Opening
  <1>9. CASE ReadStatus(t)
    <2>1. CASE task' = [task EXCEPT ![t].pc = "cal", ![t].reg = 1, ![t].spent = @ + I2cMax]
               /\ UNCHANGED held
      <3>. DEFINE rec == [task[t] EXCEPT !.pc = "cal", !.reg = 1, !.spent = @ + I2cMax]
      <3>1. task[t] \in TaskRec /\ task[t].pc \in Pc /\ task[t].spent \in Int
            /\ task[t].reg \in Int /\ task[t].waited \in Int
        BY <1>1 DEF AppTypes, TaskRec
      <3>2. rec \in TaskRec
        <4>1. "cal" \in Pc
          BY DEF Pc
        <4>2. task[t].spent + I2cMax \in Int /\ 1 \in Int
          BY <3>1
        <4>. QED  BY <3>1, <4>1, <4>2 DEF TaskRec
      <3>3. rec.pc = "cal" /\ rec.h = task[t].h
        BY <1>1, <2>1, <3>1 DEF TaskRec
      <3>4. task' = [task EXCEPT ![t] = rec]
        BY <1>1, <2>1, <3>1 DEF AppTypes, TaskRec
      <3>. HIDE DEF rec
      <3>5. Moves(t, "cal", task[t].h)
        BY <1>1, <3>2, <3>3, <3>4 DEF Moves, AppTypes
      <3>. QED  BY <1>5, <1>9, <2>1, <3>5 DEF ReadStatus, At
    <2>. QED  BY <1>2, <1>3, <1>9, <2>1 DEF ReadStatus, At, Opening
  <1>10. CASE ResetRegister(t)
    <2>1. CASE task' = [task EXCEPT ![t].reg = @ + 1, ![t].spent = @ + ResetTime]
               /\ UNCHANGED held
      <3>. DEFINE rec == [task[t] EXCEPT !.reg = @ + 1, !.spent = @ + ResetTime]
      <3>1. task[t] \in TaskRec /\ task[t].pc \in Pc /\ task[t].spent \in Int
            /\ task[t].reg \in Int /\ task[t].waited \in Int
        BY <1>1 DEF AppTypes, TaskRec
      <3>2. rec \in TaskRec
        <4>1. "cal" \in Pc
          BY DEF Pc
        <4>2. task[t].reg + 1 \in Int /\ task[t].spent + ResetTime \in Int
          BY <3>1
        <4>. QED  BY <3>1, <4>1, <4>2 DEF TaskRec
      <3>3. rec.pc = "cal" /\ rec.h = task[t].h
        BY <1>1, <1>10, <2>1, <3>1 DEF ResetRegister, At, TaskRec
      <3>4. task' = [task EXCEPT ![t] = rec]
        BY <1>1, <1>10, <2>1, <3>1 DEF AppTypes, TaskRec
      <3>. HIDE DEF rec
      <3>5. Moves(t, "cal", task[t].h)
        BY <1>1, <3>2, <3>3, <3>4 DEF Moves, AppTypes
      <3>. QED  BY <1>5, <1>10, <2>1, <3>5 DEF ResetRegister, At
    <2>. QED  BY <1>2, <1>3, <1>10, <2>1 DEF ResetRegister, At, Opening
  <1>. QED  BY <1>6, <1>7, <1>8, <1>9, <1>10 DEF InitSteps

LEMMA ReadStepsInv ==
    ASSUME AppInv, ~Stopping, NEW t \in Task, ReadSteps(t), AppRest PROVE AppInv'
  <1>. USE Times
  <1>1. /\ AppTypes /\ Quiet /\ UNCHANGED <<mutex, watched, s_dht20, held>>
        /\ task[t].pc \in Running \ Storing /\ task[t].h \in Task \cup {NoTask}
        /\ task[t].h \in {s_dht20, NoTask}
    BY DEF AppInv, AppRest, callerVars, sharedVars, appVars, Quiet, ReadSteps, Trigger, Poll,
           ReadData, At, Running, Storing, ReadsHandle, AppTypes, TaskRec
  <1>2. ASSUME NEW pc \in {"poll", "data"}, Moves(t, pc, task[t].h) PROVE AppInv'
    BY <1>1, <1>2, RunningStep DEF Running
  <1>3. ASSUME NEW pc \in {"feed", "pushTemp"}, Moves(t, pc, NoTask) PROVE AppInv'
    BY <1>1, <1>3, RunningStep DEF Running
  <1>4. ASSUME ReadFails(t) PROVE AppInv'
    BY <1>1, <1>3, <1>4, ReturnMoves DEF ReadFails, Pc
  <1>5. CASE Trigger(t)
    <2>1. CASE task' = [task EXCEPT ![t].pc = "poll", ![t].waited = MeasWait,
                                    ![t].spent = @ + I2cMax + MeasWait]
      <3>. DEFINE rec == [task[t] EXCEPT !.pc = "poll", !.waited = MeasWait, !.spent = @ + I2cMax + MeasWait]
      <3>1. task[t] \in TaskRec /\ task[t].pc \in Pc /\ task[t].spent \in Int
            /\ task[t].reg \in Int /\ task[t].waited \in Int
        BY <1>1 DEF AppTypes, TaskRec
      <3>2. rec \in TaskRec
        <4>1. "poll" \in Pc
          BY DEF Pc
        <4>2. task[t].spent + I2cMax + MeasWait \in Int
          BY <3>1
        <4>. QED  BY <3>1, <4>1, <4>2 DEF TaskRec
      <3>3. rec.pc = "poll" /\ rec.h = task[t].h
        BY <1>1, <2>1, <3>1 DEF TaskRec
      <3>4. task' = [task EXCEPT ![t] = rec]
        BY <1>1, <2>1, <3>1 DEF AppTypes, TaskRec
      <3>. HIDE DEF rec
      <3>5. Moves(t, "poll", task[t].h)
        BY <1>1, <3>2, <3>3, <3>4 DEF Moves, AppTypes
      <3>. QED  BY <1>2, <3>5
    <2>. QED  BY <1>4, <1>5, <2>1 DEF Trigger
  <1>6. CASE Poll(t)
    <2>1. CASE Step(t, "data", I2cMax)
      BY <1>1, <1>2, <2>1, StepMoves DEF Pc
    <2>2. CASE task' = [task EXCEPT ![t].waited = @ + PollStep, ![t].spent = @ + I2cMax + PollStep]
      <3>. DEFINE rec == [task[t] EXCEPT !.waited = @ + PollStep, !.spent = @ + I2cMax + PollStep]
      <3>1. task[t] \in TaskRec /\ task[t].pc \in Pc /\ task[t].spent \in Int
            /\ task[t].reg \in Int /\ task[t].waited \in Int
        BY <1>1 DEF AppTypes, TaskRec
      <3>2. rec \in TaskRec
        <4>1. "poll" \in Pc
          BY DEF Pc
        <4>2. task[t].waited + PollStep \in Int /\ task[t].spent + I2cMax + PollStep \in Int
          BY <3>1
        <4>. QED  BY <3>1, <4>1, <4>2 DEF TaskRec
      <3>3. rec.pc = "poll" /\ rec.h = task[t].h
        BY <1>1, <1>6, <2>2, <3>1 DEF Poll, At, TaskRec
      <3>4. task' = [task EXCEPT ![t] = rec]
        BY <1>1, <1>6, <2>2, <3>1 DEF AppTypes, TaskRec
      <3>. HIDE DEF rec
      <3>5. Moves(t, "poll", task[t].h)
        BY <1>1, <3>2, <3>3, <3>4 DEF Moves, AppTypes
      <3>. QED  BY <1>2, <3>5
    <2>. QED  BY <1>4, <1>6, <2>1, <2>2 DEF Poll, PollBusy
  <1>7. CASE ReadData(t)
    <2>1. ASSUME NEW r \in Accepted, Return(t, "pushTemp", NoTask, r, I2cMax) PROVE AppInv'
      BY <1>1, <1>3, <2>1, ReturnMoves DEF Pc
    <2>. QED  BY <1>4, <1>7, <2>1 DEF ReadData
  <1>. QED  BY <1>5, <1>6, <1>7 DEF ReadSteps

LEMMA TaskStepInv ==
    ASSUME AppInv, StopsAtRest, NEW t \in Task, TaskStep(t) PROVE AppInv'
  <1>. USE Times DEF Quiet, callerVars, sharedVars, appVars
  <1>1. /\ ~Stopping /\ AppTypes /\ PartsOf(t) /\ HandleWhole /\ OneBus
        /\ task[t].h \in Task \cup {NoTask}
    BY StopsAtRest DEF TaskStep, AppInv, AppTypes, TaskRec
  <1>2. ASSUME NEW from, NEW pc, At(t, from), from \in Running \ Storing,
               pc \in Running \ {"trigger", "poll", "data"},
               Moves(t, pc, task[t].h), Quiet, UNCHANGED <<held, s_dht20, watched>>,
               mutex' = mutex \/ (mutex' = t /\ pc \in Storing)
        PROVE  AppInv'
    BY <1>1, <1>2, RunningStep DEF At
  <1>3. CASE Subscribe(t)
    <2>1. Moves(t, "alloc", task[t].h) /\ held' = held /\ s_dht20' = s_dht20 /\ mutex' = mutex
          /\ Quiet /\ watched' \in {watched, watched \cup {t}} /\ At(t, "start")
      BY <1>1, <1>3, StepMoves DEF Subscribe, Pc
    <2>2. PartsOf(t)'
      BY <1>1, <2>1 DEF PartsOf, Moves, At, Fresh, Running, Storing
    <2>. QED  BY <1>1, <2>1, <2>2, OpeningStep DEF Pc, At, AppTypes
  <1>4. CASE Driver(t)
    BY <1>1, <1>4, InitStepsInv, ReadStepsInv DEF Driver, AppRest
  <1>5. CASE Initialised(t)
    <2>1. Moves(t, "ready", NoTask) /\ held' = held /\ mutex' = mutex /\ watched' = watched
          /\ Quiet /\ At(t, "initDone")
          /\ s_dht20' = IF task[t].h # NoTask THEN task[t].h ELSE s_dht20
      BY <1>1, <1>5, ReturnMoves DEF Initialised, Pc
    <2>2. CASE task[t].h # NoTask
      <3>1. s_dht20' = t /\ held[t] = Parts /\ ctl # "forget"
        BY <1>1, <2>1, <2>2 DEF PartsOf, Stopping
      <3>2. s_dht20 # t
        BY <1>1, <2>1 DEF PartsOf, At, Running, Storing
      <3>3. s_dht20 = NoTask
        BY <1>1, <3>1, <3>2 DEF HandleWhole, OneBus, AppTypes, Parts
      <3>4. PartsOf(t)'
        BY <2>1, <3>1 DEF PartsOf, Moves, At, Fresh, Running, Storing
      <3>. QED  BY <1>1, <2>1, <3>1, <3>3, <3>4, OpeningStep DEF Pc, At, AppTypes
    <2>3. CASE task[t].h = NoTask
      <3>1. held[t] = {} /\ s_dht20' = s_dht20 /\ s_dht20 # t
        BY <1>1, <2>1, <2>3 DEF PartsOf, At, Running, Storing, NoTask, Task
      <3>2. PartsOf(t)'
        BY <2>1, <3>1 DEF PartsOf, Moves, At, Fresh, Running, Storing
      <3>. QED  BY <1>1, <2>1, <3>1, <3>2, OpeningStep DEF Pc, At, AppTypes
    <2>. QED  BY <2>2, <2>3
  <1>6. CASE SetReady(t)
    BY <1>1, <1>2, <1>6, StepMoves DEF SetReady, Pc, Running, Storing
  <1>7. CASE SetRunning(t)
    BY <1>1, <1>2, <1>7, StepMoves DEF SetRunning, Pc, Running, Storing
  <1>8. CASE CheckSensor(t)
    <2>1. ASSUME NEW pc \in {"acquire", "feed"}, Step(t, pc, 0) PROVE AppInv'
      BY <1>1, <1>2, <1>8, <2>1, StepMoves DEF CheckSensor, Pc, Running, Storing
    <2>. QED  BY <1>8, <2>1 DEF CheckSensor
  <1>9. CASE AcquireSamples(t)
    <2>1. task' = [task EXCEPT ![t].pc = "trigger", ![t].h = s_dht20]
      BY <1>9 DEF AcquireSamples
    <2>. DEFINE rec == [task[t] EXCEPT !.pc = "trigger", !.h = s_dht20]
    <2>2. task[t] \in TaskRec /\ s_dht20 \in Task \cup {NoTask} /\ "trigger" \in Pc
      BY <1>1 DEF AppTypes, Pc
    <2>3. rec \in TaskRec /\ rec.pc = "trigger" /\ rec.h = s_dht20
      BY <2>2 DEF TaskRec
    <2>4. task' = [task EXCEPT ![t] = rec]
      BY <1>1, <2>1, <2>2 DEF AppTypes, TaskRec
    <2>. HIDE DEF rec
    <2>5. Moves(t, "trigger", s_dht20)
      BY <1>1, <2>3, <2>4 DEF Moves, AppTypes
    <2>. QED  BY <1>1, <1>9, <2>2, <2>5, RunningStep DEF AcquireSamples, At, Running, Storing
  <1>10. ASSUME NEW from, NEW locked \in Storing, NEW next \in {"pushHum", "feed"},
                from \in {"pushTemp", "pushHum"}, PushLock(t, from, locked, next)
         PROVE  AppInv'
    <2>1. CASE Step(t, next, 0) /\ UNCHANGED mutex
      BY <1>1, <1>2, <1>10, <2>1, StepMoves DEF PushLock, Pc, Running, Storing
    <2>2. CASE mutex' = t /\ Step(t, locked, 0)
      BY <1>1, <1>2, <1>10, <2>2, StepMoves DEF PushLock, Pc, Running, Storing
    <2>. QED  BY <1>10, <2>1, <2>2 DEF PushLock
  <1>11. ASSUME NEW locked \in Storing, NEW ch, NEW next \in {"pushHum", "feed"},
                PushStore(t, locked, ch, next)
         PROVE  AppInv'
    <2>1. Moves(t, next, task[t].h)
      BY <1>1, <1>11, StepMoves DEF PushStore, Pc
    <2>. QED  BY <1>1, <1>11, <2>1, RunningStep DEF PushStore, At, Running, Storing
  <1>12. CASE PushTemp(t)
    BY <1>10, <1>11, <1>12 DEF PushTemp, Storing
  <1>13. CASE PushHum(t)
    BY <1>10, <1>11, <1>13 DEF PushHum, Storing
  <1>14. CASE Feed(t)
    <2>1. task' = [task EXCEPT ![t].pc = "delay", ![t].spent = 0, ![t].reading = NoReading]
      BY <1>14 DEF Feed
    <2>. DEFINE rec == [task[t] EXCEPT !.pc = "delay", !.spent = 0, !.reading = NoReading]
    <2>2. task[t] \in TaskRec /\ "delay" \in Pc /\ 0 \in Int
      BY <1>1 DEF AppTypes, Pc
    <2>3. rec \in TaskRec /\ rec.pc = "delay" /\ rec.h = task[t].h
      BY <2>2 DEF TaskRec
    <2>4. task' = [task EXCEPT ![t] = rec]
      BY <1>1, <2>1, <2>2 DEF AppTypes, TaskRec
    <2>. HIDE DEF rec
    <2>5. Moves(t, "delay", task[t].h)
      BY <1>1, <2>3, <2>4 DEF Moves, AppTypes
    <2>. QED  BY <1>2, <1>14, <2>5 DEF Feed, Running, Storing
  <1>15. CASE Delay(t)
    BY <1>1, <1>2, <1>15, StepMoves DEF Delay, Pc, Running, Storing
  <1>. QED
    BY <1>3, <1>4, <1>5, <1>6, <1>7, <1>8, <1>9, <1>12, <1>13, <1>14, <1>15 DEF TaskStep

-----------------------------------------------------------------------------
(* The caller, and the consumer of the samples.                            *)

(* A step that moves the caller only.                                      *)
LEMMA CallerStep ==
    ASSUME AppInv, UNCHANGED <<task, held, starts, s_dht20, s_task_handle, mutex>>,
           ctl # "forget", ctl' # "forget", watched' \in SUBSET watched, CallerInv'
    PROVE  AppInv'
  <1>1. AppTypes' /\ (\A t \in Task : PartsOf(t)')
    BY DEF AppInv, AppTypes, PartsOf, At
  <1>2. OneBus' /\ HandleWhole' /\ ReadsHandle'
    BY DEF AppInv, OneBus, HandleWhole, ReadsHandle
  <1>3. MutexHeldByLive' /\ WatchedLive'
    BY DEF AppInv, MutexHeldByLive, WatchedLive, Live
  <1>. QED  BY <1>1, <1>2, <1>3 DEF AppInv

LEMMA StartInv == ASSUME AppInv, StartCall \/ CreateTask PROVE AppInv'
  <1>. USE DEF driverVars, sharedVars
  <1>1. CASE StartCall
    <2>1. CallerInv'
      BY <1>1 DEF StartCall, AppInv, CallerInv, Stopping, At
    <2>. QED  BY <1>1, <2>1, CallerStep DEF StartCall
  <1>2. CASE CreateTask /\ UNCHANGED <<task, s_task_handle>>
    <2>1. CallerInv'
      <3>1. /\ starts \in Nat /\ starts' = starts + 1 /\ ctl' = "idle" /\ s_task_handle \in Nat
            /\ s_task_handle <= starts /\ \A t \in Task : t \in Nat
        BY <1>2 DEF CreateTask, AppInv, CallerInv, AppTypes, Task, NoTask
      <3>. QED  BY <1>2, <3>1 DEF AppInv, CallerInv, Stopping, At
    <2>2. AppTypes'
      BY <1>2, DriverAssumption DEF CreateTask, AppInv, CallerInv, AppTypes, Task
    <2>3. \A t \in Task : PartsOf(t)'
      BY <1>2 DEF CreateTask, AppInv, PartsOf, At
    <2>4. OneBus' /\ HandleWhole' /\ ReadsHandle' /\ MutexHeldByLive' /\ WatchedLive'
      BY <1>2 DEF CreateTask, AppInv, OneBus, HandleWhole, ReadsHandle, MutexHeldByLive,
                  WatchedLive, Live
    <2>. QED  BY <1>2, <2>1, <2>2, <2>3, <2>4 DEF CreateTask, AppInv
  <1>3. CASE CreateTask /\ task' = [task EXCEPT ![starts'].pc = "start"] /\ s_task_handle' = starts'
    <2>0. starts' \in Task
      BY <1>3, DriverAssumption DEF CreateTask, AppInv, CallerInv, AppTypes, Task
    <2>. PICK t \in Task : t = starts'
      BY <2>0
    <2>1. /\ t = starts + 1 /\ At(t, "none") /\ starts \in Nat
          /\ ctl = "create" /\ ctl' = "idle"
          /\ UNCHANGED <<held, mutex, s_dht20, watched>>
      BY <1>3, DriverAssumption DEF CreateTask, AppInv, CallerInv, AppTypes, Task
    <2>2. /\ Moves(t, "start", task[t].h)
      <3>1. task[t] \in TaskRec /\ "start" \in Pc
        BY <2>1 DEF AppInv, AppTypes, Pc
      <3>. QED  BY <1>3, <2>1, <3>1 DEF Moves, AppInv, AppTypes, TaskRec
    <2>3. AppTypes'
      BY <1>3, <2>1, <2>2 DEF AppInv, AppTypes, Moves, Task
    <2>4. \A u \in Task : PartsOf(u)'
      <3>1. PartsOf(t)'
        BY <2>1, <2>2 DEF AppInv, PartsOf, Moves, At, Fresh, Running, Storing
      <3>2. ASSUME NEW u \in Task, u # t PROVE PartsOf(u)'
        BY <2>1, <2>2, <3>2 DEF AppInv, PartsOf, Moves, At
      <3>. QED  BY <3>1, <3>2
    <2>5. OneBus' /\ HandleWhole' /\ ReadsHandle'
      BY <2>1, <2>2 DEF AppInv, OneBus, HandleWhole, ReadsHandle, Moves
    <2>6. CallerInv'
      <3>1. \A u \in Task : u > t => u > starts /\ u # t
        BY <2>1 DEF Task
      <3>2. t <= starts'
        BY DEF Task
      <3>. QED  BY <1>3, <2>1, <2>2, <3>1, <3>2 DEF AppInv, CallerInv, Moves, Stopping, At
    <2>7. MutexHeldByLive' /\ WatchedLive'
      BY <2>1, <2>2 DEF AppInv, AppTypes, MutexHeldByLive, WatchedLive, Moves, Live, At
    <2>. QED  BY <2>1, <2>3, <2>4, <2>5, <2>6, <2>7 DEF AppInv
  <1>. QED  BY <1>1, <1>2, <1>3 DEF CreateTask

LEMMA StopInv == ASSUME AppInv, StopsAtRest, StopCall \/ Stop PROVE AppInv'
  <1>. USE DEF driverVars, sharedVars, appVars, Stopping
  <1>1. CASE StopCall
    <2>1. CallerInv'
      BY <1>1, StopsAtRest DEF StopCall, AppInv, CallerInv, At, Live
    <2>. QED  BY <1>1, <2>1, CallerStep DEF StopCall
  <1>2. ASSUME Stopping PROVE \A t \in Task : task[t].pc \in {"none", "dead", "delay"}
    BY <1>2 DEF AppInv, CallerInv, Live, At
  <1>3. CASE StopRelease
    <2>1. /\ ctl = "release" /\ ctl' = "forget" /\ s_dht20 \in Task
          /\ held' \in [Task -> SUBSET Parts] /\ held'[s_dht20] = {}
          /\ \A u \in Task \ {s_dht20} : held'[u] = held[u]
          /\ UNCHANGED <<task, starts, mutex, s_dht20, s_task_handle, watched>>
      BY <1>3 DEF StopRelease, Release, AppInv, AppTypes, CallerInv
    <2>2. AppTypes' /\ CallerInv' /\ OneBus' /\ HandleWhole' /\ ReadsHandle'
      BY <2>1 DEF AppInv, AppTypes, CallerInv, Live, At, OneBus, HandleWhole, ReadsHandle
    <2>3. \A t \in Task : PartsOf(t)'
      BY <1>2, <2>1 DEF AppInv, PartsOf, At, Fresh, Running, Storing
    <2>4. MutexHeldByLive' /\ WatchedLive'
      BY <2>1 DEF AppInv, MutexHeldByLive, WatchedLive, Live
    <2>. QED  BY <2>1, <2>2, <2>3, <2>4 DEF AppInv
  <1>4. CASE StopForget
    <2>1. /\ ctl = "forget" /\ ctl' = "unshare" /\ s_dht20' = NoTask
          /\ UNCHANGED <<task, held, starts, mutex, s_task_handle, watched>>
          /\ held[s_dht20] = {} /\ s_dht20 \in Task
      BY <1>4 DEF StopForget, AppInv, AppTypes, CallerInv, HandleWhole
    <2>2. AppTypes' /\ CallerInv' /\ OneBus' /\ HandleWhole'
      BY <2>1 DEF AppInv, AppTypes, CallerInv, Live, At, OneBus, HandleWhole
    <2>3. \A t \in Task : PartsOf(t)'
      BY <1>2, <2>1 DEF AppInv, PartsOf, At, Fresh, Running, Storing, NoTask, Task
    <2>4. ReadsHandle' /\ MutexHeldByLive' /\ WatchedLive'
      BY <1>2, <2>1 DEF AppInv, ReadsHandle, MutexHeldByLive, WatchedLive, Live
    <2>. QED  BY <2>1, <2>2, <2>3, <2>4 DEF AppInv
  <1>5. CASE StopUnshare
    <2>1. CallerInv'
      BY <1>5 DEF StopUnshare, AppInv, CallerInv, At, Live
    <2>. QED  BY <1>5, <2>1, CallerStep DEF StopUnshare
  <1>6. CASE StopUnwatch
    <2>1. CallerInv'
      BY <1>6 DEF StopUnwatch, AppInv, CallerInv, At, Live
    <2>. QED  BY <1>6, <2>1, CallerStep DEF StopUnwatch
  <1>7. CASE StopDelete
    <2>0. ctl = "delete" /\ s_task_handle \in Task
      BY <1>7 DEF StopDelete, AppInv, AppTypes, CallerInv
    <2>. PICK t \in Task : t = s_task_handle
      BY <2>0
    <2>1. /\ ctl = "delete" /\ ctl' = "idle" /\ s_task_handle' = NoTask
          /\ t \notin watched /\ task[t].pc \in {"none", "dead", "delay"}
          /\ UNCHANGED <<held, starts, mutex, s_dht20, watched>>
      BY <1>2, <1>7 DEF StopDelete, AppInv, AppTypes, CallerInv
    <2>2. Moves(t, "dead", NoTask)
      <3>1. [TaskInit EXCEPT !.pc = "dead"] \in TaskRec
        BY DEF TaskInit, TaskRec, Pc
      <3>. QED  BY <1>7, <2>1, <3>1 DEF StopDelete, Moves, AppInv, AppTypes, TaskInit
    <2>3. AppTypes' /\ OneBus' /\ HandleWhole' /\ ReadsHandle'
      BY <2>1, <2>2 DEF AppInv, AppTypes, OneBus, HandleWhole, ReadsHandle, Moves
    <2>4. \A u \in Task : PartsOf(u)'
      <3>1. PartsOf(t)'
        BY <2>1, <2>2 DEF AppInv, PartsOf, Moves, At, Fresh, Running, Storing
      <3>2. ASSUME NEW u \in Task, u # t PROVE PartsOf(u)'
        BY <2>1, <2>2, <3>2 DEF AppInv, PartsOf, Moves, At
      <3>. QED  BY <3>1, <3>2
    <2>5. CallerInv'
      <3>1. t <= starts
        BY DEF AppInv, CallerInv
      <3>2. starts' = starts /\ starts \in Nat /\ NoTask <= starts /\ \A u \in Task : u > starts => u # t
        BY <2>1, <3>1 DEF AppInv, AppTypes, NoTask, Task
      <3>. QED  BY <2>1, <2>2, <3>2 DEF AppInv, CallerInv, Moves, At
    <2>6. MutexHeldByLive' /\ WatchedLive'
      BY <2>1, <2>2 DEF AppInv, AppTypes, MutexHeldByLive, WatchedLive, Moves, Live, Storing, NoTask, Task
    <2>. QED  BY <2>1, <2>3, <2>4, <2>5, <2>6 DEF AppInv
  <1>. QED  BY <1>1, <1>3, <1>4, <1>5, <1>6, <1>7 DEF Stop

LEMMA AppStart == Init => AppInv
  <1>. SUFFICES ASSUME Init PROVE AppInv
    OBVIOUS
  <1>1. /\ \A t \in Task : At(t, "none") /\ held[t] = {}
        /\ ctl = "idle" /\ s_dht20 = NoTask /\ s_task_handle = NoTask /\ starts = 0
        /\ mutex = NoTask /\ watched = {}
    BY DEF Init, TaskInit, At
  <1>2. AppTypes
    <2>1. TaskInit \in TaskRec
      BY DEF TaskInit, TaskRec, Pc
    <2>. QED  BY <1>1, <2>1, DriverAssumption DEF Init, AppTypes
  <1>3. \A t \in Task : PartsOf(t)
    BY <1>1 DEF PartsOf, At, Fresh, Running, Storing, NoTask, Task
  <1>4. OneBus /\ HandleWhole /\ ReadsHandle /\ CallerInv
    BY <1>1 DEF OneBus, HandleWhole, ReadsHandle, CallerInv, Stopping, At, NoTask
  <1>. QED  BY <1>1, <1>2, <1>3, <1>4 DEF AppInv, MutexHeldByLive, WatchedLive

LEMMA AppStep == ASSUME AppInv, StopsAtRest, [Next]_vars PROVE AppInv'
  <1>1. CASE Pop \/ UNCHANGED vars
    <2>1. UNCHANGED <<driverVars, callerVars, appVars, mutex>>
      BY <1>1 DEF Pop, vars, sharedVars
    <2>2. CallerInv'
      BY <2>1 DEF driverVars, callerVars, appVars, AppInv, CallerInv, Stopping, Live, At
    <2>3. AppTypes' /\ (\A t \in Task : PartsOf(t)')
      BY <2>1 DEF driverVars, callerVars, appVars, AppInv, AppTypes, PartsOf, At
    <2>. QED
      BY <2>1, <2>2, <2>3 DEF driverVars, callerVars, appVars, AppInv, OneBus, HandleWhole,
                              ReadsHandle, MutexHeldByLive, WatchedLive, Live
  <1>. QED  BY <1>1, TaskStepInv, StartInv, StopInv DEF Next

(* No task is in an I2C transaction with a structure that was released, by *)
(* stop, by a failed initialisation or by another task, if every stop      *)
(* finds the tasks in their delay (dsp_application_stop, dsp_dht20_init).  *)
THEOREM NeverUsedAfterFree == StopsAtRest => (Spec => []NoUseAfterFree)
  <1>. SUFFICES ASSUME StopsAtRest PROVE Spec => []NoUseAfterFree
    OBVIOUS
  <1>1. AppInv /\ [Next]_vars => AppInv'
    BY StopsAtRest, AppStep
  <1>2. AppInv => NoUseAfterFree
    <2>. SUFFICES ASSUME AppInv, NEW t \in Task, NEW h \in Task, UsesDevice(t, h)
                  PROVE  held[h] = Parts
      BY DEF NoUseAfterFree
    <2>1. CASE h = t /\ task[t].pc \in {"status", "cal"}
      BY <2>1 DEF AppInv, PartsOf
    <2>2. CASE h = task[t].h /\ h # NoTask /\ task[t].pc \in {"trigger", "poll", "data"}
      <3>1. h = s_dht20
        BY <2>2 DEF AppInv, ReadsHandle
      <3>2. ctl # "forget"
        BY <2>2 DEF AppInv, CallerInv, Stopping, Live, At
      <3>. QED  BY <2>2, <3>1, <3>2 DEF AppInv, HandleWhole
    <2>. QED  BY <2>1, <2>2 DEF UsesDevice
  <1>. QED  BY AppStart, <1>1, <1>2, PTL DEF Spec

(* What is allocated has an owner, the ring mutex a live holder, and the   *)
(* watchdog watches live tasks only, whatever fails and however often the  *)
(* application is started and stopped at rest (dsp_application_stop).      *)
THEOREM NeverLeaks == StopsAtRest => (Spec => []NothingLeaks)
  <1>. SUFFICES ASSUME StopsAtRest PROVE Spec => []NothingLeaks
    OBVIOUS
  <1>1. AppInv /\ [Next]_vars => AppInv'
    BY StopsAtRest, AppStep
  <1>2. AppInv => NothingLeaks
    <2>. SUFFICES ASSUME AppInv, NEW t \in Task, held[t] # {}
                  PROVE  \/ s_dht20 = t /\ ctl # "forget"
                         \/ task[t].pc \in {"bus", "dev", "status", "cal"}
                         \/ At(t, "initDone") /\ task[t].h = t
      BY DEF NothingLeaks, PartsOwned, AppInv
    <2>1. task[t].pc \in Pc /\ PartsOf(t)
      BY DEF AppInv, AppTypes, TaskRec
    <2>. QED  BY <2>1 DEF PartsOf, Pc, At, Fresh, Running, Storing
  <1>. QED  BY AppStart, <1>1, <1>2, PTL DEF Spec

-----------------------------------------------------------------------------
(* The time between two resets of the watchdog.                            *)

Base == IF InitMax > Interval THEN InitMax ELSE Interval

LEMMA Quotient ==
    ASSUME NEW a \in Nat, NEW b \in Nat \ {0}
    PROVE  a \div b \in Nat /\ \A n \in Nat : n * b <= a => n <= a \div b
  <1>1. a \div b \in Nat /\ a < b * (a \div b) + b
    OBVIOUS
  <1>2. ASSUME NEW n \in Nat, NEW q \in Nat, n > q PROVE n * b >= q * b + b
    <2>1. PICK d \in Nat : n = q + 1 + d
      <3>1. n - q - 1 \in Nat /\ n = q + 1 + (n - q - 1)
        BY <1>2
      <3>. QED  BY <3>1
    <2>2. n * b = q * b + b + d * b
      BY <2>1
    <2>3. d * b \in Nat /\ q * b \in Nat
      OBVIOUS
    <2>. QED  BY <2>2, <2>3
  <1>. QED  BY <1>1, <1>2

(* The poll asks at most PollMax times, and each time costs what the       *)
(* budget of a cycle has for it.                                           *)
LEMMA Budget ==
    /\ I2cMax \in Nat /\ PowerOn \in Nat /\ MeasWait \in Nat /\ PollStep \in Nat \ {0}
    /\ BusyTimeout \in Nat /\ MeasWait < BusyTimeout + PollStep
    /\ ResetTime \in Nat /\ InitMax \in Nat /\ Base \in Nat
    /\ PollMax \in Nat /\ CycleMax \in Nat
    /\ InitMax = PowerOn + I2cMax + 3 * ResetTime
    /\ InitMax <= Base /\ Interval <= Base /\ Interval \in Nat
    /\ Base + MeasWait + I2cMax + I2cMax + I2cMax <= CycleMax
    /\ \A k \in 0 .. PollMax :
          /\ k * PollStep \in Nat /\ k * I2cMax \in Nat
          /\ Base + (MeasWait + k * PollStep) + k * I2cMax + I2cMax + I2cMax + I2cMax <= CycleMax
          /\ (k + 1) * PollStep = k * PollStep + PollStep
          /\ (k + 1) * I2cMax = k * I2cMax + I2cMax
          /\ MeasWait + k * PollStep < BusyTimeout => k + 1 \in 0 .. PollMax
  <1>1. /\ I2cMax \in Nat /\ PowerOn \in Nat /\ MeasWait \in Nat /\ PollStep \in Nat \ {0}
        /\ BusyTimeout \in Nat /\ MeasWait <= BusyTimeout /\ Interval \in Nat
    BY DriverAssumption, ApplicationAssumption
  <1>2. ResetTime \in Nat /\ InitMax \in Nat /\ InitMax = PowerOn + I2cMax + 3 * ResetTime
    BY <1>1 DEF ResetTime, InitMax
  <1>3. Base \in Nat /\ InitMax <= Base /\ Interval <= Base
    BY <1>1, <1>2 DEF Base
  <1>4. /\ PollMax \in Nat
        /\ \A n \in Nat : n * PollStep <= BusyTimeout - MeasWait + PollStep - 1 => n <= PollMax
    <2>1. BusyTimeout - MeasWait + PollStep - 1 \in Nat
      BY <1>1
    <2>. QED  BY <1>1, <2>1, Quotient DEF PollMax
  <1>5. \A k, n, x \in Nat : /\ k * x \in Nat /\ (k + 1) * x = k * x + x
                             /\ k <= n => k * x <= n * x
    <2>. SUFFICES ASSUME NEW k \in Nat, NEW n \in Nat, NEW x \in Nat
                  PROVE  k * x \in Nat /\ (k + 1) * x = k * x + x /\ (k <= n => k * x <= n * x)
      OBVIOUS
    <2>1. k * x \in Nat /\ (k + 1) * x = k * x + x
      OBVIOUS
    <2>2. ASSUME k <= n PROVE k * x <= n * x
      <3>1. n - k \in Nat /\ n = k + (n - k)
        BY <2>2
      <3>2. PICK d \in Nat : n = k + d
        BY <3>1
      <3>3. n * x = k * x + d * x /\ d * x \in Nat
        BY <3>2
      <3>. QED  BY <2>1, <3>3
    <2>. QED  BY <2>1, <2>2
  <1>6. CycleMax = Base + MeasWait + PollMax * PollStep + PollMax * I2cMax + 3 * I2cMax
    <2>1. (PollMax + 3) * I2cMax = PollMax * I2cMax + 3 * I2cMax
      BY <1>1, <1>4
    <2>2. CycleMax = Base + MeasWait + PollMax * PollStep + (PollMax + 3) * I2cMax
      BY DEF CycleMax, Base
    <2>3. PollMax * I2cMax \in Nat /\ PollMax * PollStep \in Nat
      BY <1>1, <1>4, <1>5
    <2>. QED  BY <1>1, <1>3, <2>1, <2>2, <2>3
  <1>7. PollMax * I2cMax \in Nat /\ PollMax * PollStep \in Nat
    BY <1>1, <1>4, <1>5
  <1>8. CycleMax \in Nat /\ Base + MeasWait + I2cMax + I2cMax + I2cMax <= CycleMax
    BY <1>1, <1>3, <1>6, <1>7
  <1>9. ASSUME NEW k \in 0 .. PollMax
        PROVE  /\ k * PollStep \in Nat /\ k * I2cMax \in Nat
               /\ Base + (MeasWait + k * PollStep) + k * I2cMax + I2cMax + I2cMax + I2cMax <= CycleMax
               /\ (k + 1) * PollStep = k * PollStep + PollStep
               /\ (k + 1) * I2cMax = k * I2cMax + I2cMax
               /\ MeasWait + k * PollStep < BusyTimeout => k + 1 \in 0 .. PollMax
    <2>1. /\ k \in Nat /\ k <= PollMax /\ k * PollStep \in Nat /\ k * I2cMax \in Nat
          /\ k * PollStep <= PollMax * PollStep /\ k * I2cMax <= PollMax * I2cMax
          /\ (k + 1) * PollStep = k * PollStep + PollStep
          /\ (k + 1) * I2cMax = k * I2cMax + I2cMax
      BY <1>1, <1>4, <1>5
    <2>2. Base + (MeasWait + k * PollStep) + k * I2cMax + I2cMax + I2cMax + I2cMax <= CycleMax
      BY <1>1, <1>3, <1>6, <1>7, <2>1
    <2>3. ASSUME MeasWait + k * PollStep < BusyTimeout PROVE k + 1 \in 0 .. PollMax
      <3>1. (k + 1) * PollStep <= BusyTimeout - MeasWait + PollStep - 1
        BY <1>1, <2>1, <2>3
      <3>. QED  BY <1>4, <2>1, <3>1
    <2>. QED  BY <2>1, <2>2, <2>3
  <1>. QED  BY <1>1, <1>2, <1>3, <1>4, <1>8, <1>9

(* What a task may have spent at each point of its cycle.                  *)
Timed(t) ==
    /\ task[t].waited < BusyTimeout + PollStep
    /\ task[t].pc \in {"none", "dead", "start", "alloc", "bus", "dev", "delay"}
          => task[t].spent = 0
    /\ At(t, "status") => task[t].spent <= PowerOn
    /\ At(t, "cal") => /\ task[t].reg \in 1 .. 3
                       /\ task[t].spent <= PowerOn + I2cMax + (task[t].reg - 1) * ResetTime
    /\ task[t].pc \in {"initDone", "ready", "running"} => task[t].spent <= InitMax
    /\ task[t].pc \in {"check", "acquire", "trigger"} => task[t].spent <= Base
    /\ At(t, "poll") => \E k \in 0 .. PollMax :
                           /\ task[t].waited = MeasWait + k * PollStep
                           /\ task[t].spent <= Base + (MeasWait + k * PollStep)
                                                    + k * I2cMax + I2cMax
    /\ At(t, "data") => task[t].spent <= CycleMax - I2cMax
    /\ task[t].pc \in {"pushTemp", "storeTemp", "pushHum", "storeHum", "feed"}
          => task[t].spent <= CycleMax

TimeInv == /\ task \in [Task -> TaskRec] /\ starts \in Nat /\ s_dht20 \in Task \cup {NoTask}
           /\ \A t \in Task : Timed(t)
           /\ \A t \in Task : t > starts => task[t].pc \in {"none", "dead"}

Takes(t, pc, c) == /\ task' \in [Task -> TaskRec]
                   /\ task'[t].pc = pc /\ task'[t].spent = task[t].spent + c
                   /\ \A u \in Task \ {t} : task'[u] = task[u]

LEMMA StepTakes ==
    ASSUME task \in [Task -> TaskRec], NEW t \in Task, NEW pc \in Pc, NEW c \in Int, Step(t, pc, c)
    PROVE  Takes(t, pc, c) /\ task'[t].waited = task[t].waited
  <1>1. task[t] \in TaskRec /\ task[t].spent + c \in Int
    BY DEF TaskRec
  <1>. DEFINE rec == [task[t] EXCEPT !.pc = pc, !.spent = @ + c]
  <1>2. rec \in TaskRec
    BY <1>1 DEF TaskRec
  <1>3. rec.pc = pc /\ rec.spent = task[t].spent + c /\ rec.waited = task[t].waited
    BY <1>1 DEF TaskRec
  <1>4. task' = [task EXCEPT ![t] = rec]
    BY DEF Step
  <1>. HIDE DEF rec
  <1>. QED  BY <1>2, <1>3, <1>4 DEF Takes

LEMMA ReturnTakes ==
    ASSUME task \in [Task -> TaskRec], NEW t \in Task, NEW pc \in Pc, NEW c \in Int,
           NEW h \in Task \cup {NoTask}, NEW r \in Accepted \cup {NoReading},
           Return(t, pc, h, r, c)
    PROVE  Takes(t, pc, c) /\ task'[t].waited = 0 /\ task'[t].h = h
  <1>1. task[t] \in TaskRec /\ task[t].spent + c \in Int
    BY DEF TaskRec
  <1>. DEFINE rec == [pc |-> pc, reg |-> 0, h |-> h, waited |-> 0,
                      spent |-> task[t].spent + c, reading |-> r]
  <1>2. rec \in TaskRec /\ rec.pc = pc /\ rec.spent = task[t].spent + c /\ rec.waited = 0
        /\ rec.h = h
    BY <1>1 DEF TaskRec
  <1>3. task' = [task EXCEPT ![t] = rec]
    BY DEF Return
  <1>. HIDE DEF rec
  <1>. QED  BY <1>2, <1>3 DEF Takes

(* A step of one task.                                                     *)
LEMMA TimedStep ==
    ASSUME TimeInv, NEW t \in Task, task[t].pc \notin {"none", "dead"},
           task' \in [Task -> TaskRec], \A u \in Task \ {t} : task'[u] = task[u],
           starts' = starts, s_dht20' \in Task \cup {NoTask}, Timed(t)'
    PROVE  TimeInv'
  <1>1. ASSUME NEW u \in Task, u # t PROVE Timed(u)'
    <2>1. task'[u] = task[u] /\ Timed(u)
      BY <1>1 DEF TimeInv
    <2>. QED  BY <2>1 DEF Timed, At
  <1>2. \A u \in Task : u > starts' => task'[u].pc \in {"none", "dead"}
    BY DEF TimeInv
  <1>. QED  BY <1>1, <1>2 DEF TimeInv

LEMMA TimedAt ==
    ASSUME NEW t \in Task,
           task'[t].waited < BusyTimeout + PollStep,
           \/ task'[t].pc \in {"none", "dead", "start", "alloc", "bus", "dev", "delay"}
              /\ task'[t].spent = 0
           \/ task'[t].pc = "status" /\ task'[t].spent <= PowerOn
           \/ task'[t].pc = "cal" /\ task'[t].reg \in 1 .. 3
              /\ task'[t].spent <= PowerOn + I2cMax + (task'[t].reg - 1) * ResetTime
           \/ task'[t].pc \in {"initDone", "ready", "running"} /\ task'[t].spent <= InitMax
           \/ task'[t].pc \in {"check", "acquire", "trigger"} /\ task'[t].spent <= Base
           \/ task'[t].pc = "poll"
              /\ \E k \in 0 .. PollMax :
                    /\ task'[t].waited = MeasWait + k * PollStep
                    /\ task'[t].spent <= Base + (MeasWait + k * PollStep) + k * I2cMax + I2cMax
           \/ task'[t].pc = "data" /\ task'[t].spent <= CycleMax - I2cMax
           \/ task'[t].pc \in {"pushTemp", "storeTemp", "pushHum", "storeHum", "feed"}
              /\ task'[t].spent <= CycleMax
    PROVE  Timed(t)'
  BY DEF Timed, At

LEMMA InitStepsTimed ==
    ASSUME TimeInv, NEW t \in Task, InitSteps(t), UNCHANGED <<starts, s_dht20>>
    PROVE  TimeInv'
  <1>1. /\ task \in [Task -> TaskRec] /\ Timed(t) /\ task[t] \in TaskRec
        /\ task[t].pc \notin {"none", "dead"} /\ s_dht20' \in Task \cup {NoTask}
    BY DEF TimeInv, InitSteps, AllocHandle, NewBus, AddDevice, ReadStatus, ResetRegister, At
  <1>2. task[t].waited \in Int /\ task[t].spent \in Int /\ task[t].waited < BusyTimeout + PollStep
    BY <1>1 DEF TaskRec, Timed
  <1>3. ASSUME NEW c \in Int, InitFails(t, c) \/ InitSucceeds(t, c), task[t].spent + c <= InitMax
        PROVE  TimeInv'
    <2>1. Takes(t, "initDone", c) /\ task'[t].waited = 0
      BY <1>1, <1>3, ReturnTakes DEF InitFails, InitSucceeds, Pc
    <2>2. Timed(t)'
      BY <1>3, <2>1, Budget, TimedAt DEF Takes
    <2>. QED  BY <1>1, <2>1, <2>2, TimedStep DEF Takes
  <1>4. ASSUME NEW pc \in {"bus", "dev"}, Step(t, pc, 0), task[t].spent = 0
        PROVE  TimeInv'
    <2>1. Takes(t, pc, 0) /\ task'[t].waited = task[t].waited
      BY <1>1, <1>4, StepTakes DEF Pc
    <2>2. Timed(t)'
      BY <1>2, <1>4, <2>1, TimedAt DEF Takes
    <2>. QED  BY <1>1, <2>1, <2>2, TimedStep DEF Takes
  <1>5. CASE AllocHandle(t)
    BY <1>1, <1>3, <1>4, <1>5, Budget DEF AllocHandle, Timed, At
  <1>6. CASE NewBus(t)
    BY <1>1, <1>3, <1>4, <1>6, Budget DEF NewBus, Timed, At
  <1>7. CASE AddDevice(t)
    <2>1. task[t].spent = 0
      BY <1>1, <1>7 DEF AddDevice, Timed, At
    <2>2. CASE Step(t, "status", PowerOn)
      <3>1. Takes(t, "status", PowerOn) /\ task'[t].waited = task[t].waited
        BY <1>1, <2>2, Budget, StepTakes DEF Pc
      <3>2. Timed(t)'
        BY <1>2, <2>1, <3>1, Budget, TimedAt DEF Takes
      <3>. QED  BY <1>1, <3>1, <3>2, TimedStep DEF Takes
    <2>. QED  BY <1>3, <1>7, <2>1, <2>2, Budget DEF AddDevice
  <1>8. CASE ReadStatus(t)
    <2>1. task[t].spent <= PowerOn
      BY <1>1, <1>8 DEF ReadStatus, Timed, At
    <2>2. CASE task' = [task EXCEPT ![t].pc = "cal", ![t].reg = 1, ![t].spent = @ + I2cMax]
      <3>. DEFINE rec == [task[t] EXCEPT !.pc = "cal", !.reg = 1, !.spent = @ + I2cMax]
      <3>1. rec \in TaskRec
        <4>1. "cal" \in Pc /\ task[t].spent + I2cMax \in Int /\ 1 \in Int
          BY <1>2, Budget DEF Pc
        <4>2. /\ task[t].pc \in Pc /\ task[t].spent \in Int
              /\ task[t].reg \in Int /\ task[t].waited \in Int
          BY <1>1 DEF TaskRec
        <4>. QED  BY <1>1, <4>1, <4>2 DEF TaskRec
      <3>2. /\ rec.pc = "cal" /\ rec.spent = task[t].spent + I2cMax
            /\ rec.waited = task[t].waited /\ rec.reg = 1
        BY <1>1 DEF TaskRec
      <3>3. task' = [task EXCEPT ![t] = rec]
        BY <2>2
      <3>. HIDE DEF rec
      <3>4. /\ task'[t] = rec /\ task' \in [Task -> TaskRec]
            /\ \A u \in Task \ {t} : task'[u] = task[u]
        BY <1>1, <3>1, <3>3
      <3>5. rec.spent <= PowerOn + I2cMax + (1 - 1) * ResetTime
        BY <1>2, <2>1, <3>2, Budget
      <3>6. Timed(t)'
        BY <1>2, <3>2, <3>4, <3>5, TimedAt
      <3>. QED  BY <1>1, <3>4, <3>6, TimedStep
    <2>3. task[t].spent + I2cMax <= InitMax
      BY <1>2, <2>1, Budget
    <2>. QED  BY <1>3, <1>8, <2>2, <2>3, Budget DEF ReadStatus
  <1>9. CASE ResetRegister(t)
    <2>1. /\ task[t].reg \in 1 .. 3 /\ At(t, "cal")
          /\ task[t].spent <= PowerOn + I2cMax + (task[t].reg - 1) * ResetTime
      BY <1>1, <1>9 DEF ResetRegister, Timed
    <2>2. task[t].spent + ResetTime <= InitMax
      <3>1. CASE task[t].reg = 1
        BY <1>2, <2>1, <3>1, Budget
      <3>2. CASE task[t].reg = 2
        BY <1>2, <2>1, <3>2, Budget
      <3>3. CASE task[t].reg = 3
        BY <1>2, <2>1, <3>3, Budget
      <3>. QED  BY <2>1, <3>1, <3>2, <3>3
    <2>3. CASE task[t].reg < 3 /\ task' = [task EXCEPT ![t].reg = @ + 1, ![t].spent = @ + ResetTime]
      <3>. DEFINE rec == [task[t] EXCEPT !.reg = @ + 1, !.spent = @ + ResetTime]
      <3>1. rec \in TaskRec
        <4>1. task[t].reg + 1 \in Int /\ task[t].spent + ResetTime \in Int
          BY <1>2, <2>1, Budget
        <4>2. /\ task[t].pc \in Pc /\ task[t].spent \in Int
              /\ task[t].reg \in Int /\ task[t].waited \in Int
          BY <1>1 DEF TaskRec
        <4>. QED  BY <1>1, <4>1, <4>2 DEF TaskRec
      <3>2. /\ rec.pc = "cal" /\ rec.spent = task[t].spent + ResetTime
            /\ rec.waited = task[t].waited /\ rec.reg = task[t].reg + 1
        BY <1>1, <2>1 DEF TaskRec, At
      <3>3. task' = [task EXCEPT ![t] = rec]
        BY <2>3
      <3>. HIDE DEF rec
      <3>4. /\ task'[t] = rec /\ task' \in [Task -> TaskRec]
            /\ \A u \in Task \ {t} : task'[u] = task[u]
        BY <1>1, <3>1, <3>3
      <3>5. rec.reg \in 1 .. 3 /\ rec.spent <= PowerOn + I2cMax + (rec.reg - 1) * ResetTime
        <4>1. CASE task[t].reg = 1
          BY <1>2, <2>1, <3>2, <4>1, Budget
        <4>2. CASE task[t].reg = 2
          BY <1>2, <2>1, <3>2, <4>2, Budget
        <4>. QED  BY <2>1, <2>3, <4>1, <4>2
      <3>6. Timed(t)'
        BY <1>2, <3>2, <3>4, <3>5, TimedAt
      <3>. QED  BY <1>1, <3>4, <3>6, TimedStep
    <2>. QED  BY <1>3, <1>9, <2>2, <2>3, Budget DEF ResetRegister
  <1>. QED  BY <1>5, <1>6, <1>7, <1>8, <1>9 DEF InitSteps

LEMMA ReadStepsTimed ==
    ASSUME TimeInv, NEW t \in Task, ReadSteps(t), UNCHANGED <<starts, s_dht20>>
    PROVE  TimeInv'
  <1>1. /\ task \in [Task -> TaskRec] /\ Timed(t) /\ task[t] \in TaskRec
        /\ task[t].pc \notin {"none", "dead"} /\ s_dht20' \in Task \cup {NoTask}
    BY DEF TimeInv, ReadSteps, Trigger, Poll, ReadData, At
  <1>2. task[t].waited \in Int /\ task[t].spent \in Int /\ task[t].waited < BusyTimeout + PollStep
    BY <1>1 DEF TaskRec, Timed
  <1>3. ASSUME NEW pc \in {"feed", "pushTemp"}, NEW r \in Accepted \cup {NoReading},
               Return(t, pc, NoTask, r, I2cMax), task[t].spent + I2cMax <= CycleMax
        PROVE  TimeInv'
    <2>0. pc \in Pc /\ I2cMax \in Int /\ NoTask \in Task \cup {NoTask}
      BY Budget DEF Pc
    <2>1. Takes(t, pc, I2cMax) /\ task'[t].waited = 0
      BY <1>1, <1>3, <2>0, ReturnTakes
    <2>2. Timed(t)'
      BY <1>3, <2>1, Budget, TimedAt DEF Takes
    <2>. QED  BY <1>1, <2>1, <2>2, TimedStep DEF Takes
  <1>4. CASE Trigger(t)
    <2>1. task[t].spent <= Base
      BY <1>1, <1>4 DEF Trigger, Timed, At
    <2>2. task[t].spent + I2cMax <= CycleMax
      BY <1>2, <2>1, Budget
    <2>3. CASE task' = [task EXCEPT ![t].pc = "poll", ![t].waited = MeasWait,
                                    ![t].spent = @ + I2cMax + MeasWait]
      <3>. DEFINE rec == [task[t] EXCEPT !.pc = "poll", !.waited = MeasWait,
                                         !.spent = @ + I2cMax + MeasWait]
      <3>1. rec \in TaskRec
        <4>1. "poll" \in Pc /\ task[t].spent + I2cMax + MeasWait \in Int /\ MeasWait \in Int
          BY <1>2, Budget DEF Pc
        <4>. QED  BY <1>1, <4>1 DEF TaskRec
      <3>2. /\ rec.pc = "poll" /\ rec.spent = task[t].spent + I2cMax + MeasWait
            /\ rec.waited = MeasWait
        BY <1>1 DEF TaskRec
      <3>3. task' = [task EXCEPT ![t] = rec]
        BY <2>3
      <3>. HIDE DEF rec
      <3>4. /\ task'[t] = rec /\ task' \in [Task -> TaskRec]
            /\ \A u \in Task \ {t} : task'[u] = task[u]
        BY <1>1, <3>1, <3>3
      <3>5. /\ 0 \in 0 .. PollMax /\ rec.waited = MeasWait + 0 * PollStep
            /\ rec.spent <= Base + (MeasWait + 0 * PollStep) + 0 * I2cMax + I2cMax
        BY <1>2, <2>1, <3>2, Budget
      <3>6. Timed(t)'
        BY <3>2, <3>4, <3>5, Budget, TimedAt
      <3>. QED  BY <1>1, <3>4, <3>6, TimedStep
    <2>. QED  BY <1>3, <1>4, <2>2, <2>3 DEF Trigger, ReadFails
  <1>5. CASE Poll(t)
    <2>1. PICK k \in 0 .. PollMax :
             /\ task[t].waited = MeasWait + k * PollStep
             /\ task[t].spent <= Base + (MeasWait + k * PollStep) + k * I2cMax + I2cMax
      BY <1>1, <1>5 DEF Poll, Timed
    <2>2. task[t].spent + I2cMax + I2cMax <= CycleMax
      BY <1>2, <2>1, Budget
    <2>3. CASE ReadFails(t)
      BY <1>2, <1>3, <2>2, <2>3, Budget DEF ReadFails
    <2>4. CASE Step(t, "data", I2cMax)
      <3>1. Takes(t, "data", I2cMax) /\ task'[t].waited = task[t].waited
        BY <1>1, <2>4, Budget, StepTakes DEF Pc
      <3>2. task[t].spent + I2cMax <= CycleMax - I2cMax
        BY <1>2, <2>2, Budget
      <3>3. Timed(t)'
        BY <1>2, <3>1, <3>2, TimedAt DEF Takes
      <3>. QED  BY <1>1, <3>1, <3>3, TimedStep DEF Takes
    <2>5. CASE /\ task[t].waited < BusyTimeout
               /\ task' = [task EXCEPT ![t].waited = @ + PollStep, ![t].spent = @ + I2cMax + PollStep]
      <3>. DEFINE rec == [task[t] EXCEPT !.waited = @ + PollStep, !.spent = @ + I2cMax + PollStep]
      <3>1. rec \in TaskRec
        <4>1. task[t].spent + I2cMax + PollStep \in Int /\ task[t].waited + PollStep \in Int
          BY <1>2, Budget
        <4>. QED  BY <1>1, <4>1 DEF TaskRec
      <3>2. /\ rec.pc = "poll" /\ rec.spent = task[t].spent + I2cMax + PollStep
            /\ rec.waited = task[t].waited + PollStep
        BY <1>1, <1>5 DEF TaskRec, Poll, At
      <3>3. task' = [task EXCEPT ![t] = rec]
        BY <2>5
      <3>. HIDE DEF rec
      <3>4. /\ task'[t] = rec /\ task' \in [Task -> TaskRec]
            /\ \A u \in Task \ {t} : task'[u] = task[u]
        BY <1>1, <3>1, <3>3
      <3>5. /\ k + 1 \in 0 .. PollMax /\ k * PollStep \in Nat /\ k * I2cMax \in Nat
            /\ (k + 1) * PollStep = k * PollStep + PollStep
            /\ (k + 1) * I2cMax = k * I2cMax + I2cMax
        BY <2>1, <2>5, Budget
      <3>6. /\ rec.waited = MeasWait + (k + 1) * PollStep
            /\ rec.waited < BusyTimeout + PollStep
            /\ rec.spent <= Base + (MeasWait + (k + 1) * PollStep) + (k + 1) * I2cMax + I2cMax
        BY <1>2, <2>1, <2>5, <3>2, <3>5, Budget
      <3>7. Timed(t)'
        BY <3>2, <3>4, <3>5, <3>6, TimedAt
      <3>. QED  BY <1>1, <3>4, <3>7, TimedStep
    <2>. QED  BY <1>2, <1>5, <2>3, <2>4, <2>5, Budget DEF Poll, PollBusy
  <1>6. CASE ReadData(t)
    <2>1. task[t].spent <= CycleMax - I2cMax
      BY <1>1, <1>6 DEF ReadData, Timed
    <2>2. task[t].spent + I2cMax <= CycleMax
      BY <1>2, <2>1, Budget
    <2>. QED  BY <1>3, <1>6, <2>2 DEF ReadData, ReadFails
  <1>. QED  BY <1>4, <1>5, <1>6 DEF ReadSteps

(* The steps of the acquisition loop and of its start.                     *)
LEMMA LoopTimed ==
    ASSUME TimeInv, NEW t \in Task,
           \/ Subscribe(t) \/ Initialised(t) \/ SetReady(t) \/ SetRunning(t)
           \/ CheckSensor(t) \/ AcquireSamples(t) \/ PushTemp(t) \/ PushHum(t)
           \/ Feed(t) \/ Delay(t)
    PROVE  TimeInv'
  <1>. DEFINE Pushing == {"pushTemp", "storeTemp", "pushHum", "storeHum"}
  <1>1. /\ task \in [Task -> TaskRec] /\ Timed(t) /\ task[t] \in TaskRec
        /\ task[t].waited \in Int /\ task[t].spent \in Int
        /\ task[t].waited < BusyTimeout + PollStep
        /\ s_dht20 \in Task \cup {NoTask} /\ task[t].h \in Task \cup {NoTask}
    BY DEF TimeInv, TaskRec, Timed
  <1>2. /\ starts' = starts /\ s_dht20' \in Task \cup {NoTask}
        /\ task[t].pc \notin {"none", "dead"}
    BY <1>1 DEF Subscribe, Initialised, SetReady, SetRunning, CheckSensor, AcquireSamples, PushTemp,
           PushHum, PushLock, PushStore, Feed, Delay, callerVars, appVars, At
  <1>3. ASSUME NEW pc \in Pc, NEW c \in Int, Step(t, pc, c),
               \/ pc = "alloc" /\ task[t].spent + c = 0
               \/ pc = "running" /\ task[t].spent + c <= InitMax
               \/ pc \in {"check", "acquire"} /\ task[t].spent + c <= Base
               \/ pc \in Pushing \cup {"feed"} /\ task[t].spent + c <= CycleMax
        PROVE  TimeInv'
    <2>1. Takes(t, pc, c) /\ task'[t].waited = task[t].waited
      BY <1>1, <1>3, StepTakes
    <2>2. Timed(t)'
      BY <1>1, <1>3, <2>1, TimedAt DEF Takes
    <2>. QED  BY <1>1, <1>2, <2>1, <2>2, TimedStep DEF Takes
  <1>4. CASE Subscribe(t)
    BY <1>1, <1>3, <1>4 DEF Subscribe, Timed, At, Pc
  <1>5. CASE Initialised(t)
    <2>0. "ready" \in Pc /\ 0 \in Int /\ NoTask \in Task \cup {NoTask}
          /\ NoReading \in Accepted \cup {NoReading} /\ Return(t, "ready", NoTask, NoReading, 0)
      BY <1>5 DEF Initialised, Pc
    <2>1. Takes(t, "ready", 0) /\ task'[t].waited = 0
      BY <1>1, <2>0, ReturnTakes
    <2>2. task[t].spent <= InitMax
      BY <1>1, <1>5 DEF Initialised, Timed, At
    <2>3. Timed(t)'
      BY <1>1, <2>1, <2>2, Budget, TimedAt DEF Takes
    <2>. QED  BY <1>1, <1>2, <2>1, <2>3, TimedStep DEF Takes
  <1>6. CASE SetReady(t)
    BY <1>1, <1>3, <1>6 DEF SetReady, Timed, At, Pc
  <1>7. CASE SetRunning(t)
    <2>1. task[t].spent <= InitMax
      BY <1>1, <1>7 DEF SetRunning, Timed, At
    <2>2. task[t].spent + 0 <= Base
      BY <1>1, <2>1, Budget
    <2>. QED  BY <1>3, <1>7, <2>2 DEF SetRunning, Pc
  <1>8. CASE CheckSensor(t)
    <2>1. task[t].spent <= Base
      BY <1>1, <1>8 DEF CheckSensor, Timed, At
    <2>2. task[t].spent + 0 <= Base /\ task[t].spent + 0 <= CycleMax
      BY <1>1, <2>1, Budget
    <2>. QED  BY <1>3, <1>8, <2>2 DEF CheckSensor, Pc
  <1>9. CASE AcquireSamples(t)
    <2>. DEFINE rec == [task[t] EXCEPT !.pc = "trigger", !.h = s_dht20]
    <2>1. rec \in TaskRec /\ rec.pc = "trigger" /\ rec.spent = task[t].spent
          /\ rec.waited = task[t].waited
      BY <1>1 DEF TaskRec, Pc
    <2>2. task' = [task EXCEPT ![t] = rec]
      BY <1>9 DEF AcquireSamples
    <2>. HIDE DEF rec
    <2>3. /\ task'[t] = rec /\ task' \in [Task -> TaskRec]
          /\ \A u \in Task \ {t} : task'[u] = task[u]
      BY <1>1, <2>1, <2>2
    <2>4. task[t].spent <= Base
      BY <1>1, <1>9 DEF AcquireSamples, Timed, At
    <2>5. Timed(t)'
      BY <1>1, <2>1, <2>3, <2>4, TimedAt
    <2>. QED  BY <1>2, <2>3, <2>5, TimedStep
  <1>10. CASE PushTemp(t) \/ PushHum(t)
    <2>1. task[t].pc \in Pushing
      BY <1>10 DEF PushTemp, PushHum, PushLock, PushStore, At
    <2>2. task[t].spent + 0 <= CycleMax
      BY <1>1, <2>1 DEF Timed
    <2>3. \E pc \in Pushing \cup {"feed"} : Step(t, pc, 0)
      BY <1>10 DEF PushTemp, PushHum, PushLock, PushStore
    <2>. QED  BY <1>3, <2>2, <2>3 DEF Pc
  <1>11. CASE Feed(t)
    <2>. DEFINE rec == [task[t] EXCEPT !.pc = "delay", !.spent = 0, !.reading = NoReading]
    <2>0. "delay" \in Pc /\ 0 \in Int /\ NoReading \in Accepted \cup {NoReading}
      BY DEF Pc
    <2>1. rec \in TaskRec /\ rec.pc = "delay" /\ rec.spent = 0 /\ rec.waited = task[t].waited
      BY <1>1, <2>0 DEF TaskRec
    <2>2. task' = [task EXCEPT ![t] = rec]
      BY <1>11 DEF Feed
    <2>. HIDE DEF rec
    <2>3. /\ task'[t] = rec /\ task' \in [Task -> TaskRec]
          /\ \A u \in Task \ {t} : task'[u] = task[u]
      BY <1>1, <2>1, <2>2
    <2>4. Timed(t)'
      BY <1>1, <2>1, <2>3, TimedAt
    <2>. QED  BY <1>2, <2>3, <2>4, TimedStep
  <1>12. CASE Delay(t)
    <2>1. task[t].spent = 0
      BY <1>1, <1>12 DEF Delay, Timed, At
    <2>. QED  BY <1>3, <1>12, <2>1, Budget DEF Delay, Pc
  <1>. QED  BY <1>4, <1>5, <1>6, <1>7, <1>8, <1>9, <1>10, <1>11, <1>12

(* start and stop: they touch a task that has not begun, or end one.       *)
LEMMA CallerTimed ==
    ASSUME TimeInv, StartCall \/ CreateTask \/ StopCall \/ Stop \/ Pop \/ UNCHANGED vars
    PROVE  TimeInv'
  <1>1. /\ task \in [Task -> TaskRec] /\ starts \in Nat /\ NoTask \in Task \cup {NoTask}
        /\ \A t \in Task : task[t] \in TaskRec
    BY DEF TimeInv
  <1>2. CASE task' = task /\ starts' \in {starts, starts + 1} /\ s_dht20' \in {s_dht20, NoTask}
    <2>1. \A t \in Task : Timed(t)'
      BY <1>2 DEF TimeInv, Timed, At
    <2>2. \A t \in Task : t > starts' => t > starts
      BY <1>1, <1>2, DriverAssumption DEF Task
    <2>. QED  BY <1>2, <2>1, <2>2 DEF TimeInv
  <1>3. ASSUME NEW t \in Task, NEW rec \in TaskRec, task' = [task EXCEPT ![t] = rec],
               rec.pc \in {"start", "dead"}, rec.spent = 0, rec.waited < BusyTimeout + PollStep,
               starts' \in Nat, s_dht20' = s_dht20,
               \A u \in Task : u > starts' => u > starts /\ (rec.pc = "dead" \/ u # t)
        PROVE  TimeInv'
    <2>1. /\ task'[t] = rec /\ task' \in [Task -> TaskRec]
          /\ \A u \in Task \ {t} : task'[u] = task[u]
      BY <1>1, <1>3
    <2>2. Timed(t)'
      BY <1>3, <2>1, TimedAt
    <2>3. ASSUME NEW u \in Task, u # t PROVE Timed(u)'
      <3>1. task'[u] = task[u] /\ Timed(u)
        BY <2>1, <2>3 DEF TimeInv
      <3>. QED  BY <3>1 DEF Timed, At
    <2>4. \A u \in Task : u > starts' => task'[u].pc \in {"none", "dead"}
      BY <1>3, <2>1 DEF TimeInv
    <2>. QED  BY <1>3, <2>1, <2>2, <2>3, <2>4 DEF TimeInv
  <1>4. CASE CreateTask /\ task' # task
    <2>1. /\ starts' = starts + 1 /\ s_dht20' = s_dht20
          /\ task' = [task EXCEPT ![starts'].pc = "start"]
      BY <1>4 DEF CreateTask
    <2>2. PICK t \in Task : t = starts + 1
      BY <1>1, <1>4, <2>1
    <2>. DEFINE rec == [task[t] EXCEPT !.pc = "start"]
    <2>3. "start" \in Pc
      BY DEF Pc
    <2>4. /\ rec \in TaskRec /\ rec.pc = "start" /\ rec.spent = task[t].spent
          /\ rec.waited = task[t].waited
      BY <1>1, <2>3 DEF TaskRec
    <2>5. task' = [task EXCEPT ![t] = rec]
      BY <2>1, <2>2
    <2>. HIDE DEF rec
    <2>6. task[t].pc \in {"none", "dead"} /\ Timed(t)
      BY <1>1, <2>2 DEF TimeInv
    <2>7. rec.spent = 0 /\ rec.waited < BusyTimeout + PollStep
      BY <2>4, <2>6 DEF Timed
    <2>8. \A u \in Task : u > starts' => u > starts /\ u # t
      BY <1>1, <2>1, <2>2, DriverAssumption DEF Task
    <2>9. starts' \in Nat
      BY <1>1, <2>1
    <2>. QED  BY <1>3, <2>1, <2>4, <2>5, <2>7, <2>8, <2>9, ZenonT(30)
  <1>5. CASE StopDelete /\ task' # task
    <2>. DEFINE rec == [TaskInit EXCEPT !.pc = "dead"]
    <2>1. /\ rec \in TaskRec /\ rec.pc = "dead" /\ rec.spent = 0 /\ rec.waited = 0
      BY DEF TaskInit, TaskRec, Pc
    <2>2. task' = [task EXCEPT ![s_task_handle] = rec] /\ UNCHANGED <<starts, s_dht20>>
      BY <1>5 DEF StopDelete
    <2>. HIDE DEF rec
    <2>3. s_task_handle \in Task
      BY <1>1, <1>5, <2>2
    <2>4. 0 < BusyTimeout + PollStep
      BY Budget
    <2>. QED  BY <1>1, <1>3, <2>1, <2>2, <2>3, <2>4
  <1>. QED
    BY <1>2, <1>4, <1>5
       DEF StartCall, CreateTask, StopCall, Stop, StopRelease, StopForget, StopUnshare, StopUnwatch,
           StopDelete, Pop, vars, driverVars, callerVars, appVars

LEMMA TimeStart == Init => TimeInv
  <1>. SUFFICES ASSUME Init PROVE TimeInv
    OBVIOUS
  <1>1. \A t \in Task : task[t] = TaskInit
    BY DEF Init
  <1>2. /\ TaskInit \in TaskRec /\ TaskInit.pc = "none" /\ TaskInit.spent = 0
        /\ TaskInit.waited = 0
    BY DEF TaskInit, TaskRec, Pc
  <1>3. \A t \in Task : Timed(t)
    BY <1>1, <1>2, Budget DEF Timed, At
  <1>. QED  BY <1>1, <1>2, <1>3 DEF Init, TimeInv

LEMMA TimeStep == ASSUME TimeInv, [Next]_vars PROVE TimeInv'
  <1>1. ASSUME NEW t \in Task, TaskStep(t) PROVE TimeInv'
    <2>1. CASE Driver(t)
      BY <2>1, InitStepsTimed, ReadStepsTimed DEF Driver, callerVars, appVars
    <2>. QED  BY <1>1, <2>1, LoopTimed DEF TaskStep
  <1>. QED  BY <1>1, CallerTimed DEF Next

(* A sensor that stays busy, or an I2C bus that fails at any step, holds   *)
(* the task for a bounded time, and the watchdog is fed within it, however *)
(* the timings are configured and whenever the application is started and  *)
(* stopped (dsp_dht20_read's busy poll, acquisition_task's loop).          *)
THEOREM PollAlwaysBounded == Spec => []PollBounded
  <1>1. TimeInv => PollBounded
    <2>. SUFFICES ASSUME TimeInv, NEW t \in Task
                  PROVE  task[t].waited < BusyTimeout + PollStep /\ task[t].spent <= CycleMax
      BY DEF PollBounded
    <2>1. Timed(t) /\ task[t].pc \in Pc /\ task[t].spent \in Int
      BY DEF TimeInv, TaskRec
    <2>2. CASE At(t, "cal")
      <3>1. /\ task[t].reg \in 1 .. 3
            /\ task[t].spent <= PowerOn + I2cMax + (task[t].reg - 1) * ResetTime
        BY <2>1, <2>2 DEF Timed
      <3>2. task[t].spent <= PowerOn + I2cMax + 2 * ResetTime
        <4>1. CASE task[t].reg = 1
          BY <2>1, <3>1, <4>1, Budget
        <4>2. CASE task[t].reg = 2
          BY <2>1, <3>1, <4>2, Budget
        <4>3. CASE task[t].reg = 3
          BY <2>1, <3>1, <4>3, Budget
        <4>. QED  BY <3>1, <4>1, <4>2, <4>3
      <3>. QED  BY <2>1, <3>2, Budget DEF Timed
    <2>3. CASE At(t, "poll")
      <3>1. PICK k \in 0 .. PollMax :
               task[t].spent <= Base + (MeasWait + k * PollStep) + k * I2cMax + I2cMax
        BY <2>1, <2>3 DEF Timed
      <3>. QED  BY <2>1, <3>1, Budget DEF Timed
    <2>4. CASE task[t].pc \notin {"cal", "poll"}
      <3>1. \/ task[t].spent = 0 \/ task[t].spent <= PowerOn \/ task[t].spent <= InitMax
            \/ task[t].spent <= Base \/ task[t].spent <= CycleMax - I2cMax
            \/ task[t].spent <= CycleMax
        BY <2>1, <2>4 DEF Timed, Pc, At
      <3>. QED  BY <2>1, <3>1, Budget DEF Timed
    <2>. QED  BY <2>2, <2>3, <2>4 DEF At
  <1>. QED  BY <1>1, TimeStart, TimeStep, PTL DEF Spec

-----------------------------------------------------------------------------
(* What a sample is.                                                       *)

Bits20 == 0 .. 2 ^ 20 - 1

(* The two values of 20 bits come back out of the bytes they share.        *)
LEMMA Split ==
    ASSUME NEW h \in Bits20, NEW t \in Bits20
    PROVE  /\ (h \div 2 ^ 12) * 2 ^ 12 + ((h \div 2 ^ 4) % 256) * 2 ^ 4
                + ((h % 16) * 16 + t \div 2 ^ 16) \div 16 = h
           /\ (((h % 16) * 16 + t \div 2 ^ 16) % 16) * 2 ^ 16
                + ((t \div 2 ^ 8) % 256) * 2 ^ 8 + (t % 256) = t
  <1>1. /\ ((h % 16) * 16 + t \div 2 ^ 16) \div 16 = h % 16
        /\ ((h % 16) * 16 + t \div 2 ^ 16) % 16 = t \div 2 ^ 16
    BY SMT DEF Bits20
  <1>2. /\ (h \div 2 ^ 12) * 2 ^ 12 + ((h \div 2 ^ 4) % 256) * 2 ^ 4 + (h % 16) = h
        /\ (t \div 2 ^ 16) * 2 ^ 16 + ((t \div 2 ^ 8) % 256) * 2 ^ 8 + (t % 256) = t
    BY SMT DEF Bits20
  <1>. QED  BY <1>1, <1>2, SMT

LEMMA FrameExtracts ==
    ASSUME NEW r \in Readings
    PROVE  Extract(SensorFrame(r)) = r
  <1>1. r \in [h : Bits20, t : Bits20]
    BY ReadingAssumption DEF Bits20
  <1>. DEFINE body == << 28, r.h \div 2 ^ 12, (r.h \div 2 ^ 4) % 256,
                         (r.h % 16) * 16 + r.t \div 2 ^ 16, (r.t \div 2 ^ 8) % 256, r.t % 256 >>
              buf == Append(body, Crc8(body))
  <1>2. /\ buf[2] = r.h \div 2 ^ 12 /\ buf[3] = (r.h \div 2 ^ 4) % 256
        /\ buf[4] = (r.h % 16) * 16 + r.t \div 2 ^ 16
        /\ buf[5] = (r.t \div 2 ^ 8) % 256 /\ buf[6] = r.t % 256
    <2>. HIDE DEF Crc8
    <2>. QED  BY <1>1
  <1>3. SensorFrame(r) = buf
    BY DEF SensorFrame
  <1>. HIDE DEF buf
  <1>4. Extract(buf).h = r.h /\ Extract(buf).t = r.t
    BY <1>1, <1>2, Split DEF Extract
  <1>5. Extract(buf) = [h |-> Extract(buf).h, t |-> Extract(buf).t]
    BY DEF Extract
  <1>. QED  BY <1>1, <1>3, <1>4, <1>5

LEMMA AcceptedTrue == DamageDetected => Accepted \subseteq Readings
  <1>. SUFFICES ASSUME DamageDetected, NEW a \in Accepted PROVE a \in Readings
    OBVIOUS
  <1>1. PICK buf \in Received : CrcMatches(buf) /\ a = Extract(buf)
    BY DEF Accepted
  <1>2. buf \notin Damaged
    BY <1>1 DEF DamageDetected
  <1>3. PICK r \in Readings : buf = SensorFrame(r)
    BY <1>1, <1>2 DEF Received
  <1>. QED  BY <1>1, <1>3, FrameExtracts

(* The sign and the size of both values survive the cast to uint32_t.      *)
LEMMA WordDecodes ==
    ASSUME NEW x \in Int, -15000 <= x, x < 15000
    PROVE  Word(x) \in Int /\ Decode(Word(x)) = x
  BY ApplicationAssumption, SMT DEF Word, Decode

LEMMA CentiRange ==
    ASSUME NEW r \in Readings
    PROVE  /\ CentiTemp(r) \in Int /\ -15000 <= CentiTemp(r) /\ CentiTemp(r) < 15000
           /\ CentiHum(r) \in Int /\ -15000 <= CentiHum(r) /\ CentiHum(r) < 15000
  <1>1. r.h \in 0 .. 2 ^ 20 - 1 /\ r.t \in 0 .. 2 ^ 20 - 1
    BY ReadingAssumption
  <1>. QED  BY <1>1, SMT DEF CentiTemp, CentiHum, Trunc

-----------------------------------------------------------------------------
(* Where a sample comes from.                                              *)

Pushing == {"pushTemp", "storeTemp", "pushHum", "storeHum"}

Carrying == \A t \in Task : task[t].pc \in Pushing => task[t].reading \in Readings

SampleRec == [ch : {"temp", "hum"}, raw : Int]

SampleInv == TimeInv /\ Carrying /\ queue \in Seq(SampleRec) /\ SamplesTrue

(* A task gets to the push with a reading that dsp_dht20_read accepted,    *)
(* and keeps it until both values are in the buffer.                       *)
Carries(t) == \/ task'[t].pc \notin Pushing
              \/ task[t].pc \in Pushing /\ task'[t].reading = task[t].reading
              \/ task'[t].reading \in Accepted

LEMMA TaskCarries ==
    ASSUME TimeInv, NEW t \in Task, TaskStep(t)
    PROVE  Carries(t) /\ \A u \in Task \ {t} : task'[u] = task[u]
  <1>1. task \in [Task -> TaskRec] /\ task[t] \in TaskRec
    BY DEF TimeInv
  <1>2. ASSUME NEW pc, NEW c, Step(t, pc, c), pc \in Pushing => task[t].pc \in Pushing
        PROVE  Carries(t) /\ \A u \in Task \ {t} : task'[u] = task[u]
    <2>. DEFINE rec == [task[t] EXCEPT !.pc = pc, !.spent = @ + c]
    <2>1. rec.pc = pc /\ rec.reading = task[t].reading
      BY <1>1 DEF TaskRec
    <2>2. task' = [task EXCEPT ![t] = rec]
      BY <1>2 DEF Step
    <2>. HIDE DEF rec
    <2>. QED  BY <1>1, <1>2, <2>1, <2>2 DEF Carries
  <1>3. ASSUME NEW pc, NEW h, NEW r, NEW c, Return(t, pc, h, r, c), pc \in Pushing => r \in Accepted
        PROVE  Carries(t) /\ \A u \in Task \ {t} : task'[u] = task[u]
    BY <1>1, <1>3 DEF Return, Carries
  <1>4. ASSUME NEW rec, task' = [task EXCEPT ![t] = rec], rec.pc \notin Pushing
        PROVE  Carries(t) /\ \A u \in Task \ {t} : task'[u] = task[u]
    BY <1>1, <1>4 DEF Carries
  <1>5. CASE Subscribe(t) \/ SetReady(t) \/ SetRunning(t) \/ CheckSensor(t) \/ Delay(t)
    BY <1>2, <1>5 DEF Subscribe, SetReady, SetRunning, CheckSensor, Delay, Pushing
  <1>6. CASE PushTemp(t) \/ PushHum(t)
    <2>1. task[t].pc \in Pushing /\ \E pc : Step(t, pc, 0)
      BY <1>6 DEF PushTemp, PushHum, PushLock, PushStore, Pushing, At
    <2>. QED  BY <1>2, <2>1
  <1>7. CASE Initialised(t)
    BY <1>3, <1>7 DEF Initialised, Pushing
  <1>8. CASE AcquireSamples(t)
    <2>1. task' = [task EXCEPT ![t] = [task[t] EXCEPT !.pc = "trigger", !.h = s_dht20]]
      BY <1>8 DEF AcquireSamples
    <2>2. [task[t] EXCEPT !.pc = "trigger", !.h = s_dht20].pc \notin Pushing
      BY <1>1 DEF TaskRec, Pushing
    <2>. QED  BY <1>4, <2>1, <2>2
  <1>9. CASE Feed(t)
    <2>1. task' = [task EXCEPT ![t] = [task[t] EXCEPT !.pc = "delay", !.spent = 0,
                                                      !.reading = NoReading]]
      BY <1>9 DEF Feed
    <2>2. [task[t] EXCEPT !.pc = "delay", !.spent = 0, !.reading = NoReading].pc \notin Pushing
      BY <1>1 DEF TaskRec, Pushing
    <2>. QED  BY <1>4, <2>1, <2>2
  <1>10. CASE InitSteps(t)
    <2>1. CASE \E pc \in {"bus", "dev", "status"} : \E c : Step(t, pc, c)
      BY <1>2, <2>1 DEF Pushing
    <2>2. CASE \E c : InitFails(t, c) \/ InitSucceeds(t, c)
      BY <1>3, <2>2 DEF InitFails, InitSucceeds, Pushing
    <2>3. CASE task' = [task EXCEPT ![t].pc = "cal", ![t].reg = 1, ![t].spent = @ + I2cMax]
      <3>1. task' = [task EXCEPT ![t] = [task[t] EXCEPT !.pc = "cal", !.reg = 1,
                                                        !.spent = @ + I2cMax]]
        BY <2>3
      <3>2. [task[t] EXCEPT !.pc = "cal", !.reg = 1, !.spent = @ + I2cMax].pc \notin Pushing
        BY <1>1 DEF TaskRec, Pushing
      <3>. QED  BY <1>4, <3>1, <3>2
    <2>4. CASE At(t, "cal") /\ task' = [task EXCEPT ![t].reg = @ + 1, ![t].spent = @ + ResetTime]
      <3>1. task' = [task EXCEPT ![t] = [task[t] EXCEPT !.reg = @ + 1, !.spent = @ + ResetTime]]
        BY <2>4
      <3>2. [task[t] EXCEPT !.reg = @ + 1, !.spent = @ + ResetTime].pc \notin Pushing
        BY <1>1, <2>4 DEF TaskRec, Pushing, At
      <3>. QED  BY <1>4, <3>1, <3>2
    <2>. QED  BY <1>10, <2>1, <2>2, <2>3, <2>4
              DEF InitSteps, AllocHandle, NewBus, AddDevice, ReadStatus, ResetRegister
  <1>11. CASE ReadSteps(t)
    <2>1. CASE ReadFails(t)
      BY <1>3, <2>1 DEF ReadFails, Pushing
    <2>2. CASE \E r \in Accepted : Return(t, "pushTemp", NoTask, r, I2cMax)
      BY <1>3, <2>2
    <2>3. CASE Step(t, "data", I2cMax)
      BY <1>2, <2>3 DEF Pushing
    <2>4. CASE task' = [task EXCEPT ![t].pc = "poll", ![t].waited = MeasWait,
                                    ![t].spent = @ + I2cMax + MeasWait]
      <3>1. task' = [task EXCEPT ![t] = [task[t] EXCEPT !.pc = "poll", !.waited = MeasWait,
                                                        !.spent = @ + I2cMax + MeasWait]]
        BY <2>4
      <3>2. [task[t] EXCEPT !.pc = "poll", !.waited = MeasWait,
                            !.spent = @ + I2cMax + MeasWait].pc \notin Pushing
        BY <1>1 DEF TaskRec, Pushing
      <3>. QED  BY <1>4, <3>1, <3>2
    <2>5. CASE At(t, "poll") /\ task' = [task EXCEPT ![t].waited = @ + PollStep,
                                                     ![t].spent = @ + I2cMax + PollStep]
      <3>1. task' = [task EXCEPT ![t] = [task[t] EXCEPT !.waited = @ + PollStep,
                                                        !.spent = @ + I2cMax + PollStep]]
        BY <2>5
      <3>2. [task[t] EXCEPT !.waited = @ + PollStep, !.spent = @ + I2cMax + PollStep].pc \notin Pushing
        BY <1>1, <2>5 DEF TaskRec, Pushing, At
      <3>. QED  BY <1>4, <3>1, <3>2
    <2>. QED  BY <1>11, <2>1, <2>2, <2>3, <2>4, <2>5 DEF ReadSteps, Trigger, Poll, PollBusy, ReadData
  <1>. QED  BY <1>5, <1>6, <1>7, <1>8, <1>9, <1>10, <1>11 DEF TaskStep, Driver

(* A push stores the reading the task carries.                             *)
LEMMA QueueGrows ==
    ASSUME SampleInv, [Next]_vars
    PROVE  \/ queue' = queue
           \/ queue # <<>> /\ queue' = Tail(queue)
           \/ \E t \in Task, ch \in {"temp", "hum"} :
                 task[t].pc \in Pushing /\ queue' = Append(queue, Sample(t, ch))
  <1>1. ASSUME NEW t \in Task, TaskStep(t)
        PROVE  \/ queue' = queue
               \/ \E ch \in {"temp", "hum"} :
                     task[t].pc \in Pushing /\ queue' = Append(queue, Sample(t, ch))
    <2>1. CASE PushStore(t, "storeTemp", "temp", "pushHum") \/ PushStore(t, "storeHum", "hum", "feed")
      BY <2>1 DEF PushStore, At, Pushing
    <2>. QED
      BY <1>1, <2>1 DEF TaskStep, Subscribe, Driver, Initialised, SetReady, SetRunning, CheckSensor,
           AcquireSamples, PushTemp, PushHum, PushLock, Feed, Delay, sharedVars
  <1>2. CASE Pop
    BY <1>2 DEF Pop
  <1>3. CASE StartCall \/ CreateTask \/ StopCall \/ Stop \/ UNCHANGED vars
    BY <1>3 DEF StartCall, CreateTask, StopCall, Stop, StopRelease, StopForget, StopUnshare,
           StopUnwatch, StopDelete, vars, sharedVars
  <1>. QED  BY <1>1, <1>2, <1>3 DEF Next

TrueSample(s) == \E r \in Readings :
                    Decode(s.raw) = IF s.ch = "temp" THEN CentiTemp(r) ELSE CentiHum(r)

LEMMA SampleIsTrue ==
    ASSUME NEW t \in Task, task[t].reading \in Readings, NEW ch \in {"temp", "hum"}
    PROVE  Sample(t, ch) \in SampleRec /\ TrueSample(Sample(t, ch))
  <1>. DEFINE r == task[t].reading
              x == IF ch = "temp" THEN CentiTemp(r) ELSE CentiHum(r)
  <1>1. x \in Int /\ -15000 <= x /\ x < 15000
    BY CentiRange
  <1>2. Word(x) \in Int /\ Decode(Word(x)) = x
    BY <1>1, WordDecodes
  <1>3. Sample(t, ch).ch = ch /\ Sample(t, ch).raw = Word(x)
    BY DEF Sample
  <1>4. Sample(t, ch) = [ch |-> ch, raw |-> Word(x)]
    BY DEF Sample
  <1>. QED  BY <1>2, <1>3, <1>4 DEF SampleRec, TrueSample

LEMMA SampleStep ==
    ASSUME SampleInv, DamageDetected, [Next]_vars
    PROVE  SampleInv'
  <1>1. TimeInv'
    BY TimeStep DEF SampleInv
  <1>2. Carrying'
    <2>1. ASSUME NEW t \in Task, TaskStep(t) PROVE Carrying'
      BY <2>1, TaskCarries, AcceptedTrue DEF SampleInv, Carries, Carrying
    <2>2. CASE UNCHANGED task
      BY <2>2 DEF SampleInv, Carrying
    <2>3. CASE CreateTask
      <3>1. \A t \in Task : task'[t].pc = "start" \/ task'[t] = task[t]
        BY <2>3 DEF CreateTask, SampleInv, TimeInv, TaskRec
      <3>. QED  BY <3>1 DEF SampleInv, Carrying, Pushing
    <2>4. CASE StopDelete
      <3>1. \A t \in Task : task'[t].pc = "dead" \/ task'[t] = task[t]
        BY <2>4 DEF StopDelete, SampleInv, TimeInv, TaskInit
      <3>. QED  BY <3>1 DEF SampleInv, Carrying, Pushing
    <2>. QED
      BY <2>1, <2>2, <2>3, <2>4 DEF Next, StartCall, StopCall, Stop, StopRelease, StopForget,
           StopUnshare, StopUnwatch, Pop, vars, driverVars
  <1>3. queue \in Seq(SampleRec) /\ \A i \in 1 .. Len(queue) : TrueSample(queue[i])
    BY DEF SampleInv, SamplesTrue, TrueSample
  <1>4. queue' \in Seq(SampleRec) /\ \A i \in 1 .. Len(queue') : TrueSample(queue'[i])
    <2>1. CASE queue' = queue
      BY <1>3, <2>1
    <2>2. CASE queue # <<>> /\ queue' = Tail(queue)
      <3>1. /\ queue' \in Seq(SampleRec) /\ Len(queue) \in Nat /\ Len(queue') = Len(queue) - 1
            /\ \A i \in 1 .. Len(queue') : queue'[i] = queue[i + 1] /\ i + 1 \in 1 .. Len(queue)
        BY <1>3, <2>2
      <3>. QED  BY <1>3, <3>1
    <2>3. CASE \E t \in Task, ch \in {"temp", "hum"} :
                  task[t].pc \in Pushing /\ queue' = Append(queue, Sample(t, ch))
      <3>1. PICK t \in Task, ch \in {"temp", "hum"} :
               task[t].pc \in Pushing /\ queue' = Append(queue, Sample(t, ch))
        BY <2>3
      <3>2. Sample(t, ch) \in SampleRec /\ TrueSample(Sample(t, ch))
        BY <3>1, SampleIsTrue DEF SampleInv, Carrying
      <3>. HIDE DEF Sample
      <3>3. /\ queue' \in Seq(SampleRec) /\ Len(queue) \in Nat /\ Len(queue') = Len(queue) + 1
            /\ queue'[Len(queue) + 1] = Sample(t, ch)
            /\ \A i \in 1 .. Len(queue) : queue'[i] = queue[i]
        BY <1>3, <3>1, <3>2
      <3>4. \A i \in 1 .. Len(queue') : i \in 1 .. Len(queue) \/ i = Len(queue) + 1
        BY <3>3
      <3>. QED  BY <1>3, <3>2, <3>3, <3>4
    <2>. QED  BY <2>1, <2>2, <2>3, QueueGrows
  <1>5. SamplesTrue'
    BY <1>4 DEF SamplesTrue, TrueSample
  <1>. QED  BY <1>1, <1>2, <1>4, <1>5 DEF SampleInv

(* Every sample in the buffer is, once decoded as the header says, what    *)
(* the sensor measured: neither the byte the two values share, nor the     *)
(* scaling, nor the cast of a temperature below zero to uint32_t, nor a    *)
(* failed, repeated or interrupted reading lets another value in, if the   *)
(* checksum finds the damage of a frame (dsp_dht20_read,                   *)
(* acquire_samples).                                                       *)
THEOREM SamplesAlwaysTrue == DamageDetected => (Spec => []SamplesTrue)
  <1>. SUFFICES ASSUME DamageDetected PROVE Spec => []SamplesTrue
    OBVIOUS
  <1>1. Init => SampleInv
    <2>. SUFFICES ASSUME Init PROVE SampleInv
      OBVIOUS
    <2>1. \A t \in Task : task[t].pc \notin Pushing
      BY DEF Init, TaskInit, Pushing
    <2>2. queue = <<>>
      BY DEF Init
    <2>. QED  BY <2>1, <2>2, TimeStart DEF SampleInv, Carrying, SamplesTrue
  <1>2. SampleInv /\ [Next]_vars => SampleInv'
    BY SampleStep
  <1>3. SampleInv => SamplesTrue
    BY DEF SampleInv
  <1>. QED  BY <1>1, <1>2, <1>3, PTL DEF Spec
=============================================================================
