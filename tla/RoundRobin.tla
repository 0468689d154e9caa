----------------------------- MODULE RoundRobin -----------------------------
(***************************************************************************)
(* What the cooperative scheduler of stacks.c promises, with no linked     *)
(* list in sight: the runnable threads form one queue whose head is the    *)
(* thread on the CPU.  A yield sends the head to the back, a new thread    *)
(* starts at the front (its creator is next in line), and a thread that    *)
(* ends leaves the queue.  The main thread never leaves it.                *)
(***************************************************************************)
EXTENDS Sequences

CONSTANTS Thread,   (* stacks a thread can be created on *)
          Main      (* the thread POST runs on *)

VARIABLE queue

Queued == {queue[i] : i \in DOMAIN queue}

Init == queue = <<Main>>

Start(t) == /\ t \notin Queued
            /\ queue' = <<t>> \o queue

Rotate == queue' = Append(Tail(queue), Head(queue))

End == /\ Head(queue) # Main
       /\ queue' = Tail(queue)

Next == \/ \E t \in Thread : Start(t)
        \/ Rotate
        \/ End

Spec == Init /\ [][Next]_queue
=============================================================================
