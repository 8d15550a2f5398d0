------------------------------ MODULE DspShared ------------------------------
(***************************************************************************)
(* The sample path from Core 1 to Core 0: the acquisition task             *)
(* (components/dsp_application) pushes samples into the ring buffer of     *)
(* components/dsp_shared, and a consumer on Core 0 drains it when woken by *)
(* the depth-1 notification queue.  Every store that the other core could  *)
(* see is a step, so that what the mutex protects is part of the model.    *)
(*                                                                         *)
(* No code under components/ or main/ drains the buffer.  The consumer is  *)
(* the one that dsp_shared.c describes ("Core 0 drains all available       *)
(* samples on wake"), and exists only if Drains.                           *)
(***************************************************************************)
EXTENDS Integers, Sequences

CONSTANTS
    Capacity,   \* DSP_RING_BUF_CAPACITY
    DrainMax,   \* the capacity argument of the consumer's dsp_ring_buf_drain;
                \* dsp_ring_buf_pop is a drain of 1
    MaxSample,  \* bound on the samples acquired
    Drains      \* Core 0 runs a consumer

ASSUME SharedAssumption == /\ Capacity \in Nat \ {0}
                           /\ DrainMax \in Nat \ {0}
                           /\ MaxSample \in Nat
                           /\ Drains \in BOOLEAN

VARIABLES
    data, head, tail, count,  \* ring_buf
    mutex,    \* ring_buf_mutex: "free" or the core that holds it
    notify,   \* messages in data_notify_q, 0 or 1
    prod,     \* Core 1: program counter, number of its sample, loaded count
    cons,     \* Core 0: program counter, samples left to copy, loaded count,
              \* whether it will drain again
    taken     \* the sample copied out last, 0 before the first

ringVars == <<data, head, tail, count>>
vars == <<ringVars, mutex, notify, prod, cons, taken>>

Slot == 0 .. Capacity - 1
Sample == 1 .. MaxSample

(* (i + 1u) % DSP_RING_BUF_CAPACITY                                        *)
Wrap(i) == (i + 1) % Capacity

Init == /\ data = [i \in Slot |-> 0]
        /\ head = 0 /\ tail = 0 /\ count = 0
        /\ mutex = "free" /\ notify = 0
        /\ prod = [pc |-> "idle", n |-> 0, loaded |-> 0]
        /\ cons = [pc |-> "wait", left |-> 0, loaded |-> 0, again |-> FALSE]
        /\ taken = 0

-----------------------------------------------------------------------------
(* Core 1: acquire_dht20_samples.  Samples are numbered in the order they  *)
(* are pushed, two for each successful reading of the sensor.              *)

Acquire == /\ prod.pc = "idle"
           /\ prod.n < MaxSample
           /\ prod' = [prod EXCEPT !.pc = "lock", !.n = @ + 1]
           /\ UNCHANGED <<ringVars, mutex, notify, cons, taken>>

PushLock_None == /\ prod.pc = "lock"
                 /\ prod' = [prod EXCEPT !.pc = "check"]
                 /\ UNCHANGED <<ringVars, mutex, notify, cons, taken>>

(* dsp_ring_buf_push                                                       *)
PushLock == /\ prod.pc = "lock"
            /\ mutex = "free"
            /\ mutex' = "core1"
            /\ prod' = [prod EXCEPT !.pc = "check"]
            /\ UNCHANGED <<ringVars, notify, cons, taken>>

Full == count >= Capacity

(* A full buffer: the sample is dropped (ESP_ERR_NO_MEM).                  *)
PushDrop == /\ prod.pc = "check"
            /\ Full
            /\ mutex' = "free"
            /\ prod' = [prod EXCEPT !.pc = "idle"]
            /\ UNCHANGED <<ringVars, notify, cons, taken>>

(* Store the sample, advance head, load count ...                          *)
PushStore == /\ prod.pc = "check"
             /\ ~Full
             /\ data' = [data EXCEPT ![head] = prod.n]
             /\ head' = Wrap(head)
             /\ prod' = [prod EXCEPT !.pc = "count", !.loaded = count]
             /\ UNCHANGED <<tail, count, mutex, notify, cons, taken>>

(* ... and store count + 1.                                                *)
PushCount == /\ prod.pc = "count"
             /\ count' = prod.loaded + 1
             /\ prod' = [prod EXCEPT !.pc = "unlock"]
             /\ UNCHANGED <<data, head, tail, mutex, notify, cons, taken>>

PushUnlock == /\ prod.pc = "unlock"
              /\ mutex' = "free"
              /\ prod' = [prod EXCEPT !.pc = "notify"]
              /\ UNCHANGED <<ringVars, notify, cons, taken>>

(* xQueueSend with no wait: no effect on a full queue.                     *)
PushNotify == /\ prod.pc = "notify"
              /\ notify' = 1
              /\ prod' = [prod EXCEPT !.pc = "idle"]
              /\ UNCHANGED <<ringVars, mutex, cons, taken>>

Push == PushLock \/ PushDrop \/ PushStore \/ PushCount \/ PushUnlock \/ PushNotify

-----------------------------------------------------------------------------
(* Core 0 *)

(* The consumer blocks on data_notify_q.                                   *)
Woken == /\ cons.pc = "wait"
         /\ notify = 1
         /\ notify' = 0
         /\ cons' = [cons EXCEPT !.pc = "lock"]
         /\ UNCHANGED <<ringVars, mutex, prod, taken>>

DrainLock_Once == /\ cons.pc = "lock"
                  /\ mutex = "free"
                  /\ mutex' = "core0"
                  /\ cons' = [cons EXCEPT !.pc = "loop",
                                          !.left = IF count < DrainMax THEN count ELSE DrainMax,
                                          !.again = FALSE]
                  /\ UNCHANGED <<ringVars, notify, prod, taken>>

(* dsp_ring_buf_drain: n = min(count, capacity).  The consumer drains      *)
(* again when it got as many samples as it had room for.                   *)
DrainLock == /\ cons.pc = "lock"
             /\ mutex = "free"
             /\ mutex' = "core0"
             /\ cons' = [cons EXCEPT !.pc = "loop",
                                     !.left = IF count < DrainMax THEN count ELSE DrainMax,
                                     !.again = count >= DrainMax]
             /\ UNCHANGED <<ringVars, notify, prod, taken>>

DrainCopy_Newest == /\ cons.pc = "loop"
                    /\ cons.left > 0
                    /\ taken' = data[(head + Capacity - 1) % Capacity]
                    /\ tail' = Wrap(tail)
                    /\ cons' = [cons EXCEPT !.pc = "count", !.loaded = count]
                    /\ UNCHANGED <<data, head, count, mutex, notify, prod>>

(* Copy a sample out, advance tail, load count ...                         *)
DrainCopy == /\ cons.pc = "loop"
             /\ cons.left > 0
             /\ taken' = data[tail]
             /\ tail' = Wrap(tail)
             /\ cons' = [cons EXCEPT !.pc = "count", !.loaded = count]
             /\ UNCHANGED <<data, head, count, mutex, notify, prod>>

(* ... and store count - 1.                                                *)
DrainCount == /\ cons.pc = "count"
              /\ count' = cons.loaded - 1
              /\ cons' = [cons EXCEPT !.pc = "loop", !.left = @ - 1]
              /\ UNCHANGED <<data, head, tail, mutex, notify, prod, taken>>

DrainUnlock_NoGive == /\ cons.pc = "loop"
                      /\ cons.left = 0
                      /\ cons' = [cons EXCEPT !.pc = IF cons.again THEN "lock" ELSE "wait"]
                      /\ UNCHANGED <<ringVars, mutex, notify, prod, taken>>

DrainUnlock == /\ cons.pc = "loop"
               /\ cons.left = 0
               /\ mutex' = "free"
               /\ cons' = [cons EXCEPT !.pc = IF cons.again THEN "lock" ELSE "wait"]
               /\ UNCHANGED <<ringVars, notify, prod, taken>>

Drain == DrainLock \/ DrainCopy \/ DrainCount \/ DrainUnlock

Consume == Drains /\ (Woken \/ Drain)

Next == Acquire \/ Push \/ Consume

(* Each core runs its task; the mutex is given to a waiting task.          *)
Spec == Init /\ [][Next]_vars /\ WF_vars(Acquire) /\ WF_vars(Push) /\ WF_vars(Consume)
-----------------------------------------------------------------------------
(* Properties *)

(* Every variable stays in its type; count never wraps below zero.         *)
TypeOK == /\ data \in [Slot -> Sample \cup {0}]
          /\ head \in Slot /\ tail \in Slot /\ count \in 0 .. Capacity
          /\ mutex \in {"free", "core0", "core1"}
          /\ notify \in 0 .. 1
          /\ prod \in [pc: {"idle", "lock", "check", "count", "unlock", "notify"},
                      n: Sample \cup {0}, loaded: 0 .. Capacity]
          /\ cons \in [pc: {"wait", "lock", "loop", "count"}, left: 0 .. Capacity,
                      loaded: 0 .. Capacity, again: BOOLEAN]
          /\ taken \in Sample \cup {0}

(* The samples in the buffer: count is one store behind head or tail while *)
(* a core is between the two.                                              *)
Held == IF prod.pc = "count" THEN count + 1
        ELSE IF cons.pc = "count" THEN count - 1 ELSE count

QueueView == [i \in 1 .. Held |-> data[(tail + i - 1) % Capacity]]

Queue == INSTANCE SampleQueue WITH queue <- QueueView

(* The ring buffer is a bounded FIFO queue: push appends or refuses, drain *)
(* takes from the front, nothing accepted is lost or overwritten, whatever *)
(* the two cores do between the stores of an operation.                    *)
ImplementsQueue == Queue!QueueSpec

(* Samples leave in the order they were acquired, across wrap-around and   *)
(* dropped samples.                                                        *)
InOrder == /\ \A i, j \in 1 .. Held : i < j => QueueView[i] < QueueView[j]
           /\ \A i \in 1 .. Held : taken < QueueView[i] /\ QueueView[i] <= prod.n

(* No lost wake-up: when the consumer is blocked and the buffer holds a    *)
(* sample, a notification is pending or its producer is about to send it   *)
(* ("if the queue is already full a pending notification exists, so        *)
(* nothing is lost").                                                      *)
NoLostWakeup == cons.pc = "wait" /\ count > 0 =>
                    notify = 1 \/ prod.pc \in {"unlock", "notify"}

(* Core 0 drains the ring buffer: samples in it are all taken out.         *)
RingDrained == count > 0 ~> count = 0

=============================================================================
