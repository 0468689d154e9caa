------------------------------ MODULE KeyQueue ------------------------------
(***************************************************************************)
(* What the keyboard buffer of the BDA promises: key strokes are read in   *)
(* the order they came, each once; when the buffer is full a new stroke is *)
(* dropped and the old ones stay.                                          *)
(***************************************************************************)
EXTENDS Naturals, Sequences

CONSTANTS Stroke,     (* what one entry of the buffer can be *)
          Capacity

VARIABLE queue

Init == queue = << >>

Put == \E s \in Stroke : /\ Len(queue) < Capacity
                         /\ queue' = Append(queue, s)

Get == queue # << >> /\ queue' = Tail(queue)

Spec == Init /\ [][Put \/ Get]_queue
=============================================================================
