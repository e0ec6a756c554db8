---------------------------- MODULE BoundedFifo ----------------------------
(***************************************************************************)
(* What util/BoundedQueue.h promises: a sequence of at most Capacity       *)
(* items that leaves in the order it came.                                 *)
(***************************************************************************)
EXTENDS Naturals, Sequences

CONSTANTS Item, Capacity

VARIABLE queue

Init == queue = <<>>

Put == /\ Len(queue) < Capacity
       /\ \E x \in Item : queue' = Append(queue, x)

Take == /\ queue # <<>>
        /\ queue' = Tail(queue)

Spec == Init /\ [][Put \/ Take]_queue
=============================================================================
