---------------------------- MODULE BoundedQueue ----------------------------
(***************************************************************************)
(* What StaticRing of static_alloc.rs promises: a first-in first-out queue *)
(* that refuses a byte when it holds Capacity of them.                     *)
(***************************************************************************)
EXTENDS Naturals, Sequences

CONSTANTS Capacity, Value
VARIABLE queue

Init == queue = <<>>
Put == Len(queue) < Capacity /\ \E v \in Value : queue' = Append(queue, v)
Take == queue # <<>> /\ queue' = Tail(queue)
Next == Put \/ Take
Spec == Init /\ [][Next]_queue
=============================================================================
