------------------------------- MODULE DspDht20 -------------------------------
(***************************************************************************)
(* The DHT20 sensor driver (components/dsp_dht20) as the tasks that call   *)
(* it run it: what an initialisation allocates and gives back on each      *)
(* failure, the busy poll and the time it takes, the checksum and the bits *)
(* of a frame.  The I2C driver, the heap and the sensor are external:      *)
(* every call of theirs may fail, and a frame may arrive damaged.          *)
(*                                                                         *)
(* A driver structure is named after the task whose dsp_dht20_init         *)
(* allocated it.                                                           *)
(***************************************************************************)
EXTENDS Integers, Sequences

CONSTANTS
    MaxStarts,   \* bound on the tasks created since boot
    I2cMax,      \* what an I2C transaction takes at most; DHT20_I2C_TIMEOUT_MS
                 \* allows 100 ms.  Every transaction is given this time.
    PowerOn,     \* DHT20_POWERON_WAIT_MS
    MeasWait,    \* DHT20_MEAS_WAIT_MS
    PollStep,    \* DHT20_BUSY_POLL_STEP_MS
    BusyTimeout, \* DHT20_BUSY_TIMEOUT_MS
    Readings,    \* what the sensor measures: raw 20-bit humidity h, temperature t
    BurstErrors  \* damage of a frame: bytes added (xor) at some bit offset

ASSUME DriverAssumption == /\ MaxStarts \in Nat \ {0}
                           /\ I2cMax \in Nat /\ PowerOn \in Nat /\ MeasWait \in Nat
                           /\ PollStep \in Nat \ {0}
                           /\ BusyTimeout \in Nat /\ MeasWait <= BusyTimeout

(* Both values have 20 bits.                                               *)
ASSUME ReadingAssumption ==
    Readings \subseteq [h : 0 .. 2 ^ 20 - 1, t : 0 .. 2 ^ 20 - 1]

Task == 1 .. MaxStarts
NoTask == 0
Parts == {"mem", "bus", "dev"}

VARIABLES
    task,  \* each task: program counter; calibration register; h, the handle
           \* dsp_dht20_read was given; waited_ms; time spent since the task
           \* watchdog was fed last; the reading on its way to the buffer
    held   \* what is allocated of each driver structure

driverVars == <<task, held>>
-----------------------------------------------------------------------------
(* The checksum and the frame *)

Bit(b, i) == (b \div 2 ^ i) % 2

(* Exclusive or of two bytes.                                              *)
Xor(a, b) == LET low[i \in 0 .. 8] ==
                     IF i = 0 THEN 0
                     ELSE low[i - 1] + 2 ^ (i - 1) * ((Bit(a, i - 1) + Bit(b, i - 1)) % 2)
             IN  low[8]

(* One bit of dht20_crc8: shift left, polynomial 0x31 when a bit falls out.*)
Shift(crc) == IF crc >= 128 THEN Xor((2 * crc) % 256, 49) ELSE (2 * crc) % 256

Crc8(bytes) == LET crc[n \in 0 .. Len(bytes)] ==
                       IF n = 0 THEN 255
                       ELSE LET bits[i \in 0 .. 8] ==
                                    IF i = 0 THEN Xor(crc[n - 1], bytes[n])
                                    ELSE Shift(bits[i - 1])
                            IN  bits[8]
               IN  crc[Len(bytes)]

(* What the sensor sends: status, 20 bits of humidity, 20 of temperature,  *)
(* checksum.                                                               *)
SensorFrame(r) ==
    LET body == << 28, r.h \div 2 ^ 12, (r.h \div 2 ^ 4) % 256,
                   (r.h % 16) * 16 + r.t \div 2 ^ 16, (r.t \div 2 ^ 8) % 256, r.t % 256 >>
    IN  Append(body, Crc8(body))

(* A burst: the bits of e, which fit a byte, from bit k of the frame on.   *)
Burst(e, k) == [n \in 1 .. 7 |->
                   LET at == 8 * n - 8
                   IN  IF k >= at /\ k < at + 8 THEN (e * 2 ^ (8 - (k - at))) \div 256
                       ELSE IF k < at /\ k + 8 > at THEN (e * 2 ^ (at - k)) % 256
                       ELSE 0]

Damaged == { [n \in 1 .. 7 |-> Xor(SensorFrame(r)[n], Burst(e, k)[n])] :
                 r \in Readings, e \in BurstErrors, k \in 0 .. 48 }

Received == { SensorFrame(r) : r \in Readings } \cup Damaged

CrcMatches(buf) == Crc8(SubSeq(buf, 1, 6)) = buf[7]

Extract_Swapped(buf) == [h |-> buf[2] * 2 ^ 12 + buf[3] * 2 ^ 4 + (buf[4] % 16),
                         t |-> (buf[4] \div 16) * 2 ^ 16 + buf[5] * 2 ^ 8 + buf[6]]

(* The two 20-bit values of a frame share byte 3.                          *)
Extract(buf) == [h |-> buf[2] * 2 ^ 12 + buf[3] * 2 ^ 4 + buf[4] \div 16,
                 t |-> (buf[4] % 16) * 2 ^ 16 + buf[5] * 2 ^ 8 + buf[6]]

(* The readings dsp_dht20_read can return.                                 *)
Accepted == { Extract(buf) : buf \in { b \in Received : CrcMatches(b) } }

NoReading == [h |-> 0, t |-> 0]
-----------------------------------------------------------------------------
At(t, pc) == task[t].pc = pc

(* The task goes on at pc after c units of time.                           *)
Step(t, pc, c) == task' = [task EXCEPT ![t].pc = pc, ![t].spent = @ + c]

(* A driver function returns to pc with h and the reading it hands back.   *)
Return(t, pc, h, r, c) ==
    task' = [task EXCEPT ![t] = [pc |-> pc, reg |-> 0, h |-> h, waited |-> 0,
                                 spent |-> @.spent + c, reading |-> r]]

(***************************************************************************)
(* dsp_dht20_init, called by a task; it ends at pc "initDone" with h its   *)
(* own structure, or NoTask when it fails.                                 *)
(***************************************************************************)

InitFails_KeepsBus(t, c) ==
    /\ Return(t, "initDone", NoTask, NoReading, c)
    /\ held' = [held EXCEPT ![t] = @ \cap {"bus"}]

InitFails(t, c) ==
    /\ Return(t, "initDone", NoTask, NoReading, c)
    /\ held' = [held EXCEPT ![t] = {}]

InitSucceeds(t, c) ==
    /\ Return(t, "initDone", t, NoReading, c)
    /\ UNCHANGED held

AllocHandle(t) ==
    /\ At(t, "alloc")
    /\ \/ InitFails(t, 0)
       \/ Step(t, "bus", 0) /\ held' = [held EXCEPT ![t] = {"mem"}]

PortFree == \A u \in Task : "bus" \notin held[u]

(* i2c_new_master_bus refuses a port that is in use.                       *)
NewBus(t) ==
    /\ At(t, "bus")
    /\ \/ InitFails(t, 0)
       \/ PortFree /\ Step(t, "dev", 0) /\ held' = [held EXCEPT ![t] = @ \cup {"bus"}]

AddDevice(t) ==
    /\ At(t, "dev")
    /\ \/ InitFails(t, 0)
       \/ Step(t, "status", PowerOn) /\ held' = [held EXCEPT ![t] = @ \cup {"dev"}]

(* An uncalibrated sensor has its three calibration registers reset.       *)
ReadStatus(t) ==
    /\ At(t, "status")
    /\ \/ InitFails(t, I2cMax)
       \/ InitSucceeds(t, I2cMax)
       \/ /\ task' = [task EXCEPT ![t].pc = "cal", ![t].reg = 1, ![t].spent = @ + I2cMax]
          /\ UNCHANGED held

(* dht20_reset_register: three transactions, of which any may fail, and    *)
(* three delays, which are counted as four steps of the poll.              *)
ResetTime == 3 * I2cMax + 4 * PollStep

ResetRegister(t) ==
    /\ At(t, "cal")
    /\ \/ InitFails(t, ResetTime)
       \/ task[t].reg = 3 /\ InitSucceeds(t, ResetTime)
       \/ /\ task[t].reg < 3
          /\ task' = [task EXCEPT ![t].reg = @ + 1, ![t].spent = @ + ResetTime]
          /\ UNCHANGED held

InitSteps(t) == AllocHandle(t) \/ NewBus(t) \/ AddDevice(t) \/ ReadStatus(t) \/ ResetRegister(t)

(***************************************************************************)
(* dsp_dht20_read, called with the handle task[t].h; it ends at pc         *)
(* "pushTemp" with a reading, or at "feed".                                *)
(***************************************************************************)

ReadFails(t) == Return(t, "feed", NoTask, NoReading, I2cMax)

Trigger(t) ==
    /\ At(t, "trigger")
    /\ \/ ReadFails(t)   \* no handle, or a failed write
       \/ /\ task[t].h # NoTask
          /\ task' = [task EXCEPT ![t].pc = "poll", ![t].waited = MeasWait,
                                  ![t].spent = @ + I2cMax + MeasWait]
    /\ UNCHANGED held

(* The busy bit is set: give up, or wait for another step.                 *)
PollBusy_LateLimit(t) ==
    IF task[t].waited > BusyTimeout + PollStep
    THEN ReadFails(t)
    ELSE task' = [task EXCEPT ![t].waited = @ + PollStep, ![t].spent = @ + I2cMax + PollStep]

PollBusy(t) ==
    IF task[t].waited >= BusyTimeout
    THEN ReadFails(t)
    ELSE task' = [task EXCEPT ![t].waited = @ + PollStep, ![t].spent = @ + I2cMax + PollStep]

Poll(t) ==
    /\ At(t, "poll")
    /\ \/ ReadFails(t)   \* the read failed
       \/ Step(t, "data", I2cMax)   \* the busy bit is clear
       \/ PollBusy(t)
    /\ UNCHANGED held

ReadData(t) ==
    /\ At(t, "data")
    /\ \/ ReadFails(t)   \* the read failed, or the checksum does not match
       \/ \E r \in Accepted : Return(t, "pushTemp", NoTask, r, I2cMax)
    /\ UNCHANGED held

ReadSteps(t) == Trigger(t) \/ Poll(t) \/ ReadData(t)

(* Where a task is in an I2C transaction with the structure h.             *)
UsesDevice(t, h) == \/ h = t /\ task[t].pc \in {"status", "cal"}
                    \/ h = task[t].h /\ h # NoTask /\ task[t].pc \in {"trigger", "poll", "data"}

(* dsp_dht20_deinit(h)                                                     *)
Release(h) == held' = [held EXCEPT ![h] = {}]
=============================================================================
