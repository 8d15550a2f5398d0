----------------------------- MODULE SampleQueue -----------------------------
(***************************************************************************)
(* What the shared ring buffer promises: a bounded first-in first-out      *)
(* queue that refuses a sample when it is full and loses none that it has  *)
(* accepted.                                                               *)
(***************************************************************************)
EXTENDS Naturals, Sequences

CONSTANTS Capacity, Sample

VARIABLES
    queue,  \* accepted and not yet taken, oldest first
    taken   \* the sample taken last, 0 before the first

queueVars == <<queue, taken>>

QueueInit == queue = <<>> /\ taken = 0

Put(s) == /\ Len(queue) < Capacity
          /\ queue' = Append(queue, s)
          /\ UNCHANGED taken

Take == /\ queue # <<>>
        /\ taken' = Head(queue)
        /\ queue' = Tail(queue)

QueueNext == (\E s \in Sample : Put(s)) \/ Take

QueueSpec == QueueInit /\ [][QueueNext]_queueVars
=============================================================================
