------------------------------- MODULE MCHeap -------------------------------
(* Instances of Heap for TLC: pages of 16 with a slab of 4 at the tail. *)
EXTENDS Heap

MCRequests == {[obj_size |-> 5, align |-> 2], [obj_size |-> 3, align |-> 6],
               [obj_size |-> 13, align |-> 0]}
=============================================================================
