-------------------------------- MODULE MCHeap --------------------------------
(* Model-checking instances of Heap: a few blocks, in bytes. *)
EXTENDS Heap
=============================================================================
