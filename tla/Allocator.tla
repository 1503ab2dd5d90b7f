------------------------------ MODULE Allocator ------------------------------
(***************************************************************************)
(* What kmalloc and kfree promise their callers: an allocation is a piece  *)
(* of the heap of its own, from the moment kmalloc returns it until its    *)
(* holder gives it to kfree.  A call that returns NULL changes nothing.    *)
(***************************************************************************)
EXTENDS Naturals

CONSTANTS
  HeapSize,      \* HEAP_INITIAL_SIZE, in bytes
  Sizes          \* the sizes asked for

VARIABLE held    \* per address, how many bytes a caller holds from it

Addr == 0 .. HeapSize

Init == held = [p \in Addr |-> 0]

Apart(p, n, q) == p + n <= q \/ q + held[q] <= p

Alloc(p, n) ==
  /\ held[p] = 0
  /\ p + n <= HeapSize
  /\ \A q \in Addr : held[q] > 0 => Apart(p, n, q)
  /\ held' = [held EXCEPT ![p] = n]

Free(p) ==
  /\ held[p] > 0
  /\ held' = [held EXCEPT ![p] = 0]

Next == \E p \in Addr : Free(p) \/ \E n \in Sizes : Alloc(p, n)

Spec == Init /\ [][Next]_held

=============================================================================
