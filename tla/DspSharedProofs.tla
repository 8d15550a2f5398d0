--------------------------- MODULE DspSharedProofs ---------------------------
(***************************************************************************)
(* Proofs about DspShared, for every capacity, drain size and number of    *)
(* samples: the invariant of the mutex and of the indices, that samples    *)
(* are never lost behind a missed notification, and that the ring buffer   *)
(* is a bounded FIFO queue.                                                *)
(***************************************************************************)
EXTENDS DspShared, SequenceTheorems, TLAPS

(* Who is inside: the mutex is held by exactly the core whose program      *)
(* counter is between lock and unlock.                                     *)
Exclusion ==
    /\ mutex = "core1" <=> prod.pc \in {"check", "count", "unlock"}
    /\ mutex = "core0" <=> cons.pc \in {"loop", "count"}

(* The loaded copies of count are current, and there is room for the store *)
(* that follows.                                                           *)
Loaded ==
    /\ prod.pc = "count" => prod.loaded = count /\ count < Capacity
    /\ cons.pc = "count" => cons.loaded = count /\ 0 < cons.left
    /\ cons.pc \in {"loop", "count"} => cons.left <= count

(* head is Held slots after tail.                                          *)
Indices == head = (tail + Held) % Capacity

(* A producer that has a sample in hand has numbered it.                   *)
Numbered == prod.pc # "idle" => prod.n \in Sample

RingInv == TypeOK /\ Exclusion /\ Loaded /\ Indices /\ Numbered

-----------------------------------------------------------------------------
(* Indices of the buffer.                                                  *)

LEMMA ModBelow == ASSUME NEW c \in Nat \ {0}, NEW x \in 0 .. c - 1
                  PROVE  x % c = x
  BY SMT

(* Offsets of at most the capacity, from any slot.                         *)
LEMMA OffsetSlot == ASSUME SharedAssumption, NEW i \in Slot, NEW k \in 0 .. Capacity
                    PROVE  /\ (i + k) % Capacity \in Slot
                           /\ (i + k) % Capacity =
                                IF i + k < Capacity THEN i + k ELSE i + k - Capacity
  <1>1. Capacity \in Nat \ {0} /\ i \in 0 .. Capacity - 1
    BY DEF SharedAssumption, Slot
  <1>2. CASE i + k < Capacity
    <2>1. i + k \in 0 .. Capacity - 1
      BY <1>1, <1>2
    <2>2. (i + k) % Capacity = i + k
      BY <1>1, <2>1, ModBelow
    <2>. QED  BY <1>2, <2>1, <2>2 DEF Slot
  <1>3. CASE ~(i + k < Capacity)
    <2>1. i + k \in Capacity .. Capacity + Capacity - 1
      BY <1>1, <1>3
    <2>2. (i + k) % Capacity = i + k - Capacity
      BY <1>1, <2>1
    <2>. QED  BY <1>1, <1>3, <2>1, <2>2 DEF Slot
  <1>. QED  BY <1>2, <1>3

(* Wrap is the offset of one.                                              *)
LEMMA WrapSlot == ASSUME SharedAssumption, NEW i \in Slot
                  PROVE  /\ Wrap(i) \in Slot
                         /\ Wrap(i) = IF i + 1 < Capacity THEN i + 1 ELSE i + 1 - Capacity
  <1>1. 1 \in 0 .. Capacity
    BY DEF SharedAssumption
  <1>. QED  BY <1>1, OffsetSlot DEF Wrap

-----------------------------------------------------------------------------
(* The invariant is inductive: it holds at start-up and every step of      *)
(* either core keeps it.                                                   *)

LEMMA InitRingInv == ASSUME SharedAssumption, Init PROVE RingInv
  <1>1. 0 \in Slot /\ 0 \in 0 .. Capacity
    BY DEF SharedAssumption, Slot
  <1>2. (0 + 0) % Capacity = 0
    BY <1>1, OffsetSlot DEF SharedAssumption
  <1>3. TypeOK
    BY <1>1 DEF SharedAssumption, Init, TypeOK
  <1>4. Held = 0 /\ Indices
    BY <1>2 DEF Init, Held, Indices
  <1>. QED  BY <1>3, <1>4 DEF Init, RingInv, Exclusion, Loaded, Numbered

LEMMA NextRingInv == ASSUME SharedAssumption, RingInv, [Next]_vars PROVE RingInv'
  <1>. USE DEF RingInv, TypeOK, Exclusion, Loaded, Indices, Numbered, Held, ringVars
  <1>1. CASE Acquire
    <2>1. prod.n + 1 \in Sample
      BY <1>1 DEF Acquire, Sample, SharedAssumption
    <2>2. /\ prod'.pc = "lock" /\ prod'.n = prod.n + 1 /\ prod'.loaded = prod.loaded
          /\ prod' \in [pc: {"idle", "lock", "check", "count", "unlock", "notify"},
                       n: Sample \cup {0}, loaded: 0 .. Capacity]
      BY <1>1, <2>1 DEF Acquire
    <2>. QED  BY <1>1, <2>1, <2>2 DEF Acquire
  <1>2. CASE PushLock
    BY <1>2 DEF PushLock
  <1>3. CASE PushDrop
    BY <1>3 DEF PushDrop
  <1>4. CASE PushStore
    <2>1. head' \in Slot /\ data' \in [Slot -> Sample \cup {0}]
      BY <1>4, WrapSlot DEF PushStore
    <2>2. prod'.loaded = count' /\ count' < Capacity
      BY <1>4 DEF PushStore, Full, SharedAssumption
    <2>3. head' = (tail' + Held') % Capacity
      <3>1. cons.pc # "count" /\ Held = count /\ Held' = count + 1 /\ tail' = tail
        BY <1>4 DEF PushStore
      <3>2. count \in 0 .. Capacity /\ count + 1 \in 0 .. Capacity
        BY <1>4 DEF PushStore, Full, SharedAssumption
      <3>3. head = (tail + count) % Capacity
        BY <3>1
      <3>4. head' = Wrap(head)
        BY <1>4 DEF PushStore
      <3>5. head = IF tail + count < Capacity THEN tail + count ELSE tail + count - Capacity
        BY <3>2, <3>3, OffsetSlot
      <3>6. head' = IF head + 1 < Capacity THEN head + 1 ELSE head + 1 - Capacity
        BY <3>4, WrapSlot
      <3>7. (tail + (count + 1)) % Capacity = IF tail + (count + 1) < Capacity
                                              THEN tail + (count + 1)
                                              ELSE tail + (count + 1) - Capacity
        BY <3>2, OffsetSlot
      <3>8. head' = (tail + (count + 1)) % Capacity
        BY <3>2, <3>5, <3>6, <3>7 DEF Slot, SharedAssumption
      <3>. QED  BY <3>1, <3>8
    <2>. QED  BY <1>4, <2>1, <2>2, <2>3 DEF PushStore
  <1>5. CASE PushCount
    BY <1>5 DEF PushCount, SharedAssumption
  <1>6. CASE PushUnlock
    BY <1>6 DEF PushUnlock
  <1>7. CASE PushNotify
    BY <1>7 DEF PushNotify
  <1>8. CASE Woken
    BY <1>8 DEF Woken
  <1>9. CASE DrainLock
    <2>. DEFINE n == IF count < DrainMax THEN count ELSE DrainMax
                more == count >= DrainMax
    <2>1. n \in 0 .. Capacity /\ n <= count /\ more \in BOOLEAN
      BY DEF SharedAssumption
    <2>2. cons' = [cons EXCEPT !.pc = "loop", !.left = n, !.again = more]
      BY <1>9 DEF DrainLock
    <2>. HIDE DEF n, more
    <2>3. /\ cons'.pc = "loop" /\ cons'.left = n
          /\ cons' \in [pc: {"wait", "lock", "loop", "count"}, left: 0 .. Capacity,
                       loaded: 0 .. Capacity, again: BOOLEAN]
      BY <2>1, <2>2
    <2>4. prod.pc \notin {"check", "count", "unlock"}
      BY <1>9 DEF DrainLock
    <2>. QED  BY <1>9, <2>1, <2>3, <2>4 DEF DrainLock
  <1>10. CASE DrainCopy
    <2>1. tail' \in Slot /\ taken' \in Sample \cup {0}
      BY <1>10, WrapSlot DEF DrainCopy
    <2>2. head' = (tail' + Held') % Capacity
      <3>1. prod.pc # "count" /\ Held = count /\ Held' = count - 1 /\ head' = head
        BY <1>10 DEF DrainCopy
      <3>2. count \in 0 .. Capacity /\ count - 1 \in 0 .. Capacity
        BY <1>10 DEF DrainCopy, SharedAssumption
      <3>3. head = (tail + count) % Capacity
        BY <3>1
      <3>4. tail' = Wrap(tail)
        BY <1>10 DEF DrainCopy
      <3>5. head = IF tail + count < Capacity THEN tail + count ELSE tail + count - Capacity
        BY <3>2, <3>3, OffsetSlot
      <3>6. tail' = IF tail + 1 < Capacity THEN tail + 1 ELSE tail + 1 - Capacity
        BY <3>4, WrapSlot
      <3>7. (tail' + (count - 1)) % Capacity = IF tail' + (count - 1) < Capacity
                                               THEN tail' + (count - 1)
                                               ELSE tail' + (count - 1) - Capacity
        BY <2>1, <3>2, OffsetSlot
      <3>. QED  BY <2>1, <3>1, <3>2, <3>5, <3>6, <3>7 DEF Slot, SharedAssumption
    <2>. QED  BY <1>10, <2>1, <2>2 DEF DrainCopy
  <1>11. CASE DrainCount
    <2>1. count' = count - 1 /\ count - 1 \in 0 .. Capacity
      BY <1>11 DEF DrainCount, SharedAssumption
    <2>2. cons.left - 1 \in 0 .. Capacity /\ cons.left - 1 <= count - 1
      BY <1>11 DEF DrainCount, SharedAssumption
    <2>3. /\ cons'.pc = "loop" /\ cons'.left = cons.left - 1
          /\ cons' \in [pc: {"wait", "lock", "loop", "count"}, left: 0 .. Capacity,
                       loaded: 0 .. Capacity, again: BOOLEAN]
      BY <1>11, <2>2 DEF DrainCount
    <2>4. prod.pc # "count" /\ prod' = prod
      BY <1>11 DEF DrainCount
    <2>5. Held' = Held
      BY <1>11, <2>1, <2>3, <2>4 DEF DrainCount
    <2>. QED  BY <1>11, <2>1, <2>2, <2>3, <2>4, <2>5 DEF DrainCount
  <1>12. CASE DrainUnlock
    BY <1>12 DEF DrainUnlock
  <1>13. CASE UNCHANGED vars
    BY <1>13 DEF vars
  <1>. QED
    BY <1>1, <1>2, <1>3, <1>4, <1>5, <1>6, <1>7, <1>8, <1>9, <1>10, <1>11, <1>12, <1>13
       DEF Next, Push, Consume, Drain

(* Every reachable state satisfies the invariant, its types included.      *)
THEOREM RingInvariant == Spec => []RingInv
  <1>. USE SharedAssumption
  <1>. QED  BY InitRingInv, NextRingInv, PTL DEF Spec

(* Types hold for every capacity: in particular count stays in 0..Capacity *)
(* (it neither overflows the buffer nor wraps below zero).                 *)
THEOREM TypeCorrect == Spec => []TypeOK
  <1>1. RingInv => TypeOK
    BY DEF RingInv
  <1>. QED  BY <1>1, RingInvariant, PTL

-----------------------------------------------------------------------------
(* No lost wake-up. A drain that will not be repeated empties the buffer.  *)

Exhausts == cons.pc \in {"loop", "count"} /\ ~cons.again => cons.left = count

WakeInv == Exhausts /\ NoLostWakeup

LEMMA NextWakeInv == ASSUME SharedAssumption, RingInv, WakeInv, [Next]_vars
                     PROVE  WakeInv'
  <1>. USE DEF WakeInv, Exhausts, NoLostWakeup, RingInv, TypeOK, Exclusion, Loaded, ringVars
  <1>1. CASE Acquire
    BY <1>1 DEF Acquire
  <1>2. CASE Push
    <2>1. CASE PushLock
      BY <2>1 DEF PushLock
    <2>2. CASE PushDrop
      BY <2>2 DEF PushDrop
    <2>3. CASE PushStore
      BY <2>3 DEF PushStore
    <2>4. CASE PushCount
      BY <2>4 DEF PushCount
    <2>5. CASE PushUnlock
      BY <2>5 DEF PushUnlock
    <2>6. CASE PushNotify
      BY <2>6 DEF PushNotify
    <2>. QED  BY <1>2, <2>1, <2>2, <2>3, <2>4, <2>5, <2>6 DEF Push
  <1>3. CASE Woken
    BY <1>3 DEF Woken
  <1>4. CASE DrainLock
    <2>. DEFINE n == IF count < DrainMax THEN count ELSE DrainMax
                more == count >= DrainMax
    <2>1. more \in BOOLEAN /\ (~more => n = count)
      BY DEF SharedAssumption
    <2>2. cons' = [cons EXCEPT !.pc = "loop", !.left = n, !.again = more]
      BY <1>4 DEF DrainLock
    <2>. HIDE DEF n, more
    <2>3. cons'.pc = "loop" /\ cons'.left = n /\ cons'.again = more
      BY <2>1, <2>2
    <2>. QED  BY <1>4, <2>1, <2>3 DEF DrainLock
  <1>5. CASE DrainCopy
    BY <1>5 DEF DrainCopy
  <1>6. CASE DrainCount
    BY <1>6 DEF DrainCount, SharedAssumption
  <1>7. CASE DrainUnlock
    BY <1>7 DEF DrainUnlock
  <1>8. CASE UNCHANGED vars
    BY <1>8 DEF vars
  <1>. QED
    BY <1>1, <1>2, <1>3, <1>4, <1>5, <1>6, <1>7, <1>8 DEF Next, Consume, Drain

(* Whatever the capacity and the size of a drain, a blocked consumer never *)
(* sleeps on samples without a notification on its way.                    *)
THEOREM NeverLostWakeup == Spec => []NoLostWakeup
  <1>. USE SharedAssumption
  <1>1. Init => WakeInv
    BY DEF Init, WakeInv, Exhausts, NoLostWakeup
  <1>2. WakeInv => NoLostWakeup
    BY DEF WakeInv
  <1>. QED  BY <1>1, <1>2, RingInvariant, NextWakeInv, PTL DEF Spec

-----------------------------------------------------------------------------
(* The ring buffer implements the bounded queue. *)

Item == Sample \cup {0}

(* The h samples of a buffer d from slot t on.                             *)
Content(d, t, h) == [i \in 1 .. h |-> d[(t + i - 1) % Capacity]]

LEMMA ContentSeq == ASSUME SharedAssumption, NEW d \in [Slot -> Item],
                           NEW t \in Slot, NEW h \in 0 .. Capacity
                    PROVE  /\ Content(d, t, h) \in Seq(Item)
                           /\ Len(Content(d, t, h)) = h
                           /\ \A i \in 1 .. h :
                                 /\ (t + i - 1) % Capacity \in Slot
                                 /\ Content(d, t, h)[i] = d[(t + i - 1) % Capacity]
  <1>1. h \in Nat
    BY DEF SharedAssumption
  <1>2. ASSUME NEW i \in 1 .. h
        PROVE  (t + i - 1) % Capacity \in Slot
    <2>1. i - 1 \in 0 .. Capacity /\ t + i - 1 = t + (i - 1)
      BY <1>1 DEF SharedAssumption, Slot
    <2>. QED  BY <2>1, OffsetSlot
  <1>3. \A i \in 1 .. h : d[(t + i - 1) % Capacity] \in Item
    BY <1>2
  <1>. QED  BY <1>1, <1>2, <1>3 DEF Content

LEMMA HeldBounds == ASSUME SharedAssumption, RingInv
                    PROVE  Held \in 0 .. Capacity /\ QueueView = Content(data, tail, Held)
  BY DEF RingInv, TypeOK, Loaded, Held, SharedAssumption, QueueView, Content

(* push: the store appends the producer's sample.                          *)
LEMMA StoreAppends ==
    ASSUME SharedAssumption, RingInv, PushStore
    PROVE  /\ QueueView \in Seq(Item) /\ Len(QueueView) < Capacity
           /\ QueueView' = Append(QueueView, prod.n)
           /\ prod.n \in Sample
  <1>. DEFINE old == Content(data, tail, count)
              new == Content(data', tail, count + 1)
              app == Append(old, prod.n)
  <1>1. /\ prod.pc = "check" /\ cons.pc # "count" /\ count < Capacity
        /\ Held = count /\ Held' = count + 1
        /\ data \in [Slot -> Item] /\ tail \in Slot /\ head \in Slot /\ tail' = tail
        /\ count \in 0 .. Capacity /\ prod.n \in Sample
        /\ data' = [data EXCEPT ![head] = prod.n]
    BY DEF PushStore, Full, SharedAssumption, RingInv, TypeOK, Exclusion, Numbered, Held,
           Item
  <1>2. QueueView = old /\ QueueView' = new
    BY <1>1 DEF QueueView, Content
  <1>3. count + 1 \in 0 .. Capacity /\ data' \in [Slot -> Item]
    BY <1>1 DEF SharedAssumption, Item
  <1>4. /\ old \in Seq(Item) /\ Len(old) = count
        /\ \A i \in 1 .. count : /\ (tail + i - 1) % Capacity \in Slot
                                 /\ old[i] = data[(tail + i - 1) % Capacity]
    BY <1>1, ContentSeq
  <1>5. /\ new \in Seq(Item) /\ Len(new) = count + 1
        /\ \A i \in 1 .. count + 1 : new[i] = data'[(tail + i - 1) % Capacity]
    <2>. DEFINE k == count + 1
    <2>1. k \in 0 .. Capacity /\ data' \in [Slot -> Item] /\ tail \in Slot
      BY <1>1, <1>3
    <2>. HIDE DEF k
    <2>2. /\ Content(data', tail, k) \in Seq(Item) /\ Len(Content(data', tail, k)) = k
          /\ \A i \in 1 .. k : Content(data', tail, k)[i] = data'[(tail + i - 1) % Capacity]
      BY <2>1, ContentSeq
    <2>. QED  BY <2>2 DEF k
  <1>. HIDE DEF old, new
  <1>6. /\ app \in Seq(Item) /\ Len(app) = count + 1
        /\ \A i \in 1 .. count : app[i] = old[i]
        /\ app[count + 1] = prod.n
    BY <1>1, <1>4, AppendProperties DEF Item
  <1>7. head = (tail + count) % Capacity
    BY <1>1 DEF RingInv, Indices
  <1>8. ASSUME NEW i \in 1 .. count
        PROVE  new[i] = app[i]
    <2>1. (tail + i - 1) % Capacity # head
      <3>1. i - 1 \in 0 .. Capacity /\ i - 1 < count /\ tail + i - 1 = tail + (i - 1)
        BY <1>1 DEF SharedAssumption, Slot
      <3>2. (tail + (i - 1)) % Capacity =
              IF tail + (i - 1) < Capacity THEN tail + (i - 1) ELSE tail + (i - 1) - Capacity
        BY <1>1, <3>1, OffsetSlot
      <3>3. head = IF tail + count < Capacity THEN tail + count ELSE tail + count - Capacity
        BY <1>1, <1>7, OffsetSlot
      <3>. QED  BY <1>1, <3>1, <3>2, <3>3 DEF Slot, SharedAssumption
    <2>2. data'[(tail + i - 1) % Capacity] = data[(tail + i - 1) % Capacity]
      BY <1>1, <1>4, <2>1
    <2>3. i \in 1 .. count + 1
      BY <1>1 DEF SharedAssumption
    <2>. QED  BY <1>4, <1>5, <1>6, <2>2, <2>3
  <1>9. new[count + 1] = app[count + 1]
    <2>1. tail + (count + 1) - 1 = tail + count /\ count + 1 \in 1 .. count + 1
      BY <1>1 DEF Slot, SharedAssumption
    <2>2. data'[head] = prod.n
      BY <1>1
    <2>. QED  BY <1>5, <1>6, <1>7, <2>1, <2>2
  <1>10. \A i \in 1 .. Len(new) : new[i] = app[i]
    <2>1. \A i \in 1 .. count + 1 : i \in 1 .. count \/ i = count + 1
      BY <1>1 DEF SharedAssumption
    <2>. QED  BY <1>5, <1>8, <1>9, <2>1
  <1>11. new = app
    BY <1>5, <1>6, <1>10, SeqEqual
  <1>. QED  BY <1>1, <1>2, <1>4, <1>11

(* drain and pop: the copy takes the first sample.                         *)
LEMMA CopyTakes ==
    ASSUME SharedAssumption, RingInv, DrainCopy
    PROVE  /\ QueueView \in Seq(Item) /\ QueueView # <<>>
           /\ taken' = Head(QueueView) /\ taken' = QueueView[1]
           /\ QueueView' = Tail(QueueView)
  <1>. DEFINE old == Content(data, tail, count)
              new == Content(data, tail', count - 1)
  <1>1. /\ prod.pc # "count" /\ cons.pc = "loop" /\ 0 < count
        /\ Held = count /\ Held' = count - 1
        /\ data \in [Slot -> Item] /\ tail \in Slot /\ data' = data /\ tail' = Wrap(tail)
        /\ count \in 0 .. Capacity /\ taken' = data[tail]
    BY DEF DrainCopy, SharedAssumption, RingInv, TypeOK, Exclusion, Loaded, Held, Item
  <1>2. QueueView = old /\ QueueView' = new
    BY <1>1 DEF QueueView, Content
  <1>3. count - 1 \in 0 .. Capacity /\ tail' \in Slot
    BY <1>1, WrapSlot DEF SharedAssumption
  <1>4. /\ old \in Seq(Item) /\ Len(old) = count
        /\ \A i \in 1 .. count : old[i] = data[(tail + i - 1) % Capacity]
    BY <1>1, ContentSeq
  <1>5. /\ new \in Seq(Item) /\ Len(new) = count - 1
        /\ \A i \in 1 .. count - 1 : new[i] = data[(tail' + i - 1) % Capacity]
    <2>1. SharedAssumption /\ data \in [Slot -> Item] /\ new = Content(data, tail', count - 1)
      BY <1>1
    <2>. HIDE DEF new
    <2>. QED  BY <1>3, <2>1, ContentSeq, ZenonT(30)
  <1>. HIDE DEF old, new
  <1>6. old # <<>>
    BY <1>1, <1>4
  <1>7. /\ Tail(old) \in Seq(Item) /\ Len(Tail(old)) = count - 1
        /\ \A i \in 1 .. count - 1 : Tail(old)[i] = old[i + 1]
    BY <1>4, <1>6, HeadTailProperties
  <1>8. ASSUME NEW i \in 1 .. count - 1
        PROVE  new[i] = old[i + 1]
    <2>1. /\ i - 1 \in 0 .. Capacity /\ i \in 0 .. Capacity /\ i + 1 \in 1 .. count
          /\ tail' + i - 1 = tail' + (i - 1) /\ tail + (i + 1) - 1 = tail + i
      BY <1>1, <1>3 DEF SharedAssumption, Slot
    <2>2. tail' = IF tail + 1 < Capacity THEN tail + 1 ELSE tail + 1 - Capacity
      BY <1>1, WrapSlot
    <2>3. (tail' + (i - 1)) % Capacity =
            IF tail' + (i - 1) < Capacity THEN tail' + (i - 1) ELSE tail' + (i - 1) - Capacity
      BY <1>3, <2>1, OffsetSlot
    <2>4. (tail + i) % Capacity = IF tail + i < Capacity THEN tail + i ELSE tail + i - Capacity
      BY <1>1, <2>1, OffsetSlot
    <2>5. (tail' + (i - 1)) % Capacity = (tail + i) % Capacity
      BY <1>1, <1>3, <2>1, <2>2, <2>3, <2>4 DEF Slot, SharedAssumption
    <2>. QED  BY <1>4, <1>5, <2>1, <2>5
  <1>9. \A i \in 1 .. Len(new) : new[i] = Tail(old)[i]
    BY <1>5, <1>7, <1>8
  <1>10. new = Tail(old)
    BY <1>5, <1>7, <1>9, SeqEqual
  <1>11. taken' = old[1]
    <2>1. 1 \in 1 .. count /\ tail + 1 - 1 = tail
      BY <1>1 DEF Slot, SharedAssumption
    <2>2. tail % Capacity = tail
      BY <1>1, ModBelow DEF Slot, SharedAssumption
    <2>. QED  BY <1>1, <1>4, <2>1, <2>2
  <1>12. Head(old) = old[1]
    BY <1>4, <1>6
  <1>. QED  BY <1>2, <1>4, <1>6, <1>10, <1>11, <1>12

(* No other step changes what the queue holds.                             *)
LEMMA OthersKeep ==
    ASSUME SharedAssumption, RingInv, [Next]_vars, ~PushStore, ~DrainCopy
    PROVE  QueueView' = QueueView /\ taken' = taken
  <1>. USE DEF RingInv, TypeOK, Exclusion, Loaded, Held, QueueView, ringVars
  <1>1. CASE Acquire
    BY <1>1 DEF Acquire
  <1>2. CASE PushLock \/ PushDrop \/ PushUnlock \/ PushNotify
    BY <1>2 DEF PushLock, PushDrop, PushUnlock, PushNotify
  <1>3. CASE PushCount
    <2>1. Held' = Held /\ data' = data /\ tail' = tail /\ taken' = taken
      BY <1>3 DEF PushCount, SharedAssumption
    <2>. QED  BY <2>1
  <1>4. CASE Woken
    BY <1>4 DEF Woken
  <1>5. CASE DrainLock
    <2>1. cons'.pc = "loop" /\ prod' = prod /\ count' = count
      BY <1>5 DEF DrainLock
    <2>2. Held' = Held /\ data' = data /\ tail' = tail /\ taken' = taken
      BY <1>5, <2>1 DEF DrainLock
    <2>. QED  BY <2>2
  <1>6. CASE DrainCount
    <2>1. cons'.pc = "loop" /\ prod' = prod /\ count' = count - 1 /\ prod.pc # "count"
      BY <1>6 DEF DrainCount
    <2>2. Held' = Held /\ data' = data /\ tail' = tail /\ taken' = taken
      BY <1>6, <2>1 DEF DrainCount
    <2>. QED  BY <2>2
  <1>7. CASE DrainUnlock
    BY <1>7 DEF DrainUnlock
  <1>8. CASE UNCHANGED vars
    BY <1>8 DEF vars
  <1>. QED
    BY <1>1, <1>2, <1>3, <1>4, <1>5, <1>6, <1>7, <1>8 DEF Next, Push, Consume, Drain

(* The ring buffer with its two cores is a bounded first-in first-out      *)
(* queue, for every capacity: each step between two stores is a Put, a     *)
(* Take or nothing.                                                        *)
THEOREM RingIsQueue == Spec => ImplementsQueue
  <1>. USE SharedAssumption
  <1>1. Init => Queue!QueueInit
    <2>. SUFFICES ASSUME Init PROVE QueueView = <<>> /\ taken = 0
      BY DEF Queue!QueueInit
    <2>1. Held = 0 /\ taken = 0
      BY DEF Init, Held
    <2>. QED  BY <2>1 DEF QueueView
  <1>2. RingInv /\ [Next]_vars => [Queue!QueueNext]_(Queue!queueVars)
    <2>. SUFFICES ASSUME RingInv, [Next]_vars
                  PROVE  [Queue!QueueNext]_(Queue!queueVars)
      OBVIOUS
    <2>. USE DEF Queue!QueueNext, Queue!queueVars
    <2>1. CASE PushStore
      <3>1. Queue!Put(prod.n)
        BY <2>1, StoreAppends DEF Queue!Put, PushStore
      <3>. QED  BY <2>1, <3>1, StoreAppends
    <2>2. CASE DrainCopy
      <3>1. Queue!Take
        BY <2>2, CopyTakes DEF Queue!Take
      <3>. QED  BY <3>1
    <2>3. CASE ~PushStore /\ ~DrainCopy
      BY <2>3, OthersKeep
    <2>. QED  BY <2>1, <2>2, <2>3
  <1>. QED
    BY <1>1, <1>2, RingInvariant, PTL DEF Spec, ImplementsQueue, Queue!QueueSpec

-----------------------------------------------------------------------------
(* Order. A sample in the producer's hand is newer than all that left it.  *)

OrderInv ==
    /\ \A i, j \in 1 .. Len(QueueView) : i < j => QueueView[i] < QueueView[j]
    /\ \A i \in 1 .. Len(QueueView) :
          taken < QueueView[i] /\ QueueView[i] <= prod.n
    /\ taken <= prod.n
    /\ prod.pc \in {"lock", "check"} =>
          /\ taken < prod.n
          /\ \A i \in 1 .. Len(QueueView) : QueueView[i] < prod.n

LEMMA ViewLen == ASSUME SharedAssumption, RingInv
                 PROVE  /\ Held \in 0 .. Capacity /\ Len(QueueView) = Held
                        /\ QueueView \in Seq(Item)
  <1>1. data \in [Slot -> Item] /\ tail \in Slot
    BY DEF RingInv, TypeOK, Item
  <1>2. Held \in 0 .. Capacity /\ QueueView = Content(data, tail, Held)
    BY HeldBounds
  <1>. HIDE DEF Held
  <1>. QED  BY <1>1, <1>2, ContentSeq

LEMMA NextOrderInv == ASSUME SharedAssumption, RingInv, OrderInv, [Next]_vars
                      PROVE  OrderInv'
  <1>1. /\ QueueView \in Seq(Item) /\ Len(QueueView) \in Nat
        /\ \A i \in 1 .. Len(QueueView) : QueueView[i] \in Item
        /\ Item \subseteq Nat /\ prod.n \in Nat /\ taken \in Nat
    BY ViewLen DEF RingInv, TypeOK, Item, Sample, SharedAssumption
  <1>2. CASE PushStore
    <2>. DEFINE app == Append(QueueView, prod.n)
    <2>1. QueueView' = app /\ prod.n \in Item /\ prod'.n = prod.n /\ taken' = taken
          /\ prod.pc = "check" /\ prod'.pc = "count"
      BY <1>2, StoreAppends DEF PushStore, RingInv, TypeOK, Item
    <2>2. /\ Len(app) = Len(QueueView) + 1
          /\ \A i \in 1 .. Len(QueueView) : app[i] = QueueView[i]
          /\ app[Len(QueueView) + 1] = prod.n
      BY <1>1, <2>1, AppendProperties
    <2>. HIDE DEF app
    <2>3. \A i \in 1 .. Len(app) : i \in 1 .. Len(QueueView) \/ i = Len(QueueView) + 1
      BY <1>1, <2>2
    <2>. QED  BY <1>1, <2>1, <2>2, <2>3, SMTT(30) DEF OrderInv
  <1>3. CASE DrainCopy
    <2>. DEFINE tl == Tail(QueueView)
    <2>1. /\ QueueView # <<>> /\ taken' = QueueView[1] /\ QueueView' = tl /\ prod' = prod
          /\ prod.pc \notin {"check"}
      BY <1>3, CopyTakes DEF DrainCopy, RingInv, Exclusion
    <2>2. /\ Len(tl) = Len(QueueView) - 1
          /\ \A i \in 1 .. Len(tl) : tl[i] = QueueView[i + 1]
      BY <1>1, <2>1, HeadTailProperties
    <2>. HIDE DEF tl
    <2>3. /\ 1 \in 1 .. Len(QueueView)
          /\ \A i \in 1 .. Len(tl) : i + 1 \in 1 .. Len(QueueView) /\ 1 < i + 1
      BY <1>1, <2>1, <2>2
    <2>. QED  BY <1>1, <2>1, <2>2, <2>3, SMTT(30) DEF OrderInv
  <1>4. CASE ~PushStore /\ ~DrainCopy
    <2>1. QueueView' = QueueView /\ taken' = taken
      BY <1>4, OthersKeep
    <2>2. \/ /\ prod'.n = prod.n
             /\ prod'.pc \in {"lock", "check"} => prod.pc \in {"lock", "check"}
          \/ prod'.n = prod.n + 1
      BY <1>4 DEF RingInv, TypeOK, vars, Next, Acquire, Push, PushLock, PushDrop, PushCount,
                  PushUnlock, PushNotify, Consume, Woken, Drain, DrainLock, DrainCount,
                  DrainUnlock
    <2>. DEFINE q == QueueView
    <2>3. q \in Seq(Item) /\ \A i \in 1 .. Len(q) : q[i] \in Nat
      BY <1>1
    <2>4. /\ \A i, j \in 1 .. Len(q) : i < j => q[i] < q[j]
          /\ \A i \in 1 .. Len(q) : taken < q[i] /\ q[i] <= prod.n
          /\ taken <= prod.n
          /\ prod.pc \in {"lock", "check"} =>
                taken < prod.n /\ \A i \in 1 .. Len(q) : q[i] < prod.n
      BY DEF OrderInv
    <2>5. q' = q /\ taken' = taken
      BY <2>1
    <2>. HIDE DEF q
    <2>6. CASE prod'.n = prod.n /\ (prod'.pc \in {"lock", "check"} => prod.pc \in {"lock", "check"})
      <3>1. /\ \A i, j \in 1 .. Len(q') : i < j => q'[i] < q'[j]
            /\ \A i \in 1 .. Len(q') : taken' < q'[i] /\ q'[i] <= prod'.n
            /\ taken' <= prod'.n
            /\ prod'.pc \in {"lock", "check"} =>
                  taken' < prod'.n /\ \A i \in 1 .. Len(q') : q'[i] < prod'.n
        BY <2>4, <2>5, <2>6
      <3>. QED  BY <3>1 DEF OrderInv, q
    <2>7. CASE prod'.n = prod.n + 1
      <3>1. \A i \in 1 .. Len(q) : q[i] < prod.n + 1 /\ q[i] <= prod.n + 1
        BY <1>1, <2>3, <2>4
      <3>2. taken < prod.n + 1 /\ taken <= prod.n + 1
        BY <1>1, <2>4
      <3>3. /\ \A i, j \in 1 .. Len(q') : i < j => q'[i] < q'[j]
            /\ \A i \in 1 .. Len(q') : taken' < q'[i] /\ q'[i] <= prod'.n
            /\ taken' <= prod'.n
            /\ taken' < prod'.n /\ \A i \in 1 .. Len(q') : q'[i] < prod'.n
        BY <2>4, <2>5, <2>7, <3>1, <3>2
      <3>. QED  BY <3>3 DEF OrderInv, q
    <2>. QED  BY <2>2, <2>6, <2>7
  <1>. QED  BY <1>2, <1>3, <1>4

(* Samples leave in the order they were acquired, whatever the capacity,   *)
(* the wrap-arounds and the drops.                                         *)
THEOREM SamplesInOrder == Spec => []InOrder
  <1>. USE SharedAssumption
  <1>1. Init => OrderInv
    <2>. SUFFICES ASSUME Init PROVE OrderInv
      OBVIOUS
    <2>1. Held = 0 /\ taken = 0 /\ prod.n = 0 /\ prod.pc = "idle"
      BY DEF Init, Held
    <2>2. QueueView = <<>>
      BY <2>1 DEF QueueView
    <2>3. Len(QueueView) = 0 /\ (1 .. 0) = {}
      BY <2>2
    <2>. QED  BY <2>1, <2>3 DEF OrderInv
  <1>2. RingInv /\ OrderInv => InOrder
    BY ViewLen DEF OrderInv, InOrder
  <1>. QED  BY <1>1, <1>2, RingInvariant, NextOrderInv, PTL DEF Spec

=============================================================================
