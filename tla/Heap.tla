--------------------------------- MODULE Heap ---------------------------------
(***************************************************************************)
(* The kernel heap, kernel/heap.c: first fit over a list of blocks, split  *)
(* and coalesced in place.                                                 *)
(*                                                                         *)
(* Addresses are offsets from HEAP_START.  kmalloc and kfree walk the list *)
(* one block per step, because an interrupt may come in between: the mouse *)
(* handler (IRQ12) closes a window and so calls kfree, while the main flow *)
(* stands still.  IrqFrees says whether it does.                           *)
(***************************************************************************)
EXTENDS Naturals

CONSTANTS
  HeapSize,      \* HEAP_INITIAL_SIZE, in bytes
  Header,        \* sizeof(heap_block_t)
  MinSplit,      \* the 16 of split_block
  Sizes,         \* the sizes callers ask for; 0 is refused at once
  IrqFrees       \* whether the interrupt handler frees

ASSUME HeaderAssumption == Header \in Nat \ {0}
ASSUME HeapAssumption == HeapSize \in Nat /\ Header <= HeapSize
ASSUME SplitAssumption == MinSplit \in Nat
ASSUME SizesAssumption == Sizes \subseteq Nat \ {0}
ASSUME IrqAssumption == IrqFrees \in BOOLEAN

VARIABLES
  hdr,           \* the header at each address that ever was a block
  chain,         \* ghost: the blocks on the list from heap_start
  held,          \* per pointer returned, the bytes its holder asked for
  pc, current,   \* per flow, where it is in the code, and its local pointer
  want           \* the size kmalloc was called with

vars == <<hdr, chain, held, pc, current, want>>

Addr == 0 .. HeapSize
Null == HeapSize                \* the NULL of heap_block_t*
heap_start == 0

Flows == {"main", "irq"}
PCs == {"idle", "search", "mark", "merge"}

BlockHeader == [size : Addr, free : BOOLEAN, next : Addr]

TypeOK ==
  /\ hdr \in [Addr -> BlockHeader]
  /\ chain \subseteq Addr
  /\ held \in [Addr -> {0} \cup Sizes]
  /\ pc \in [Flows -> PCs]
  /\ current \in [Flows -> Addr]
  /\ want \in {0} \cup Sizes

-----------------------------------------------------------------------------

FirstBlock == [size |-> HeapSize - Header, free |-> TRUE, next |-> Null]

NoBlock == [size |-> 0, free |-> FALSE, next |-> Null]

\* heap_init.
Init ==
  /\ hdr = [a \in Addr |-> IF a = heap_start THEN FirstBlock ELSE NoBlock]
  /\ chain = {heap_start}
  /\ held = [p \in Addr |-> 0]
  /\ pc = [f \in Flows |-> "idle"]
  /\ current = [f \in Flows |-> heap_start]
  /\ want = 0

\* The handler runs with interrupts off: the main flow waits for its end.
Running(f) == f = "main" => pc["irq"] = "idle"

At(f, label) == Running(f) /\ pc[f] = label

Goto(f, label) == pc' = [pc EXCEPT ![f] = label]

Move(f, a) == current' = [current EXCEPT ![f] = a]

\* The call is over and its locals are gone.
Return(f) == Goto(f, "idle") /\ Move(f, heap_start)

\* (size + 3) & ~3, for sizes that do not wrap.
Aligned(n) == 4 * ((n + 3) \div 4)

CallMalloc(n) ==
  /\ At("main", "idle")
  /\ want' = n
  /\ Goto("main", "search")
  /\ Move("main", heap_start)
  /\ UNCHANGED <<hdr, chain, held>>

\* Mutant: a free block is taken whatever its size.
FitsAny(a, n) == hdr[a].free

\* Mutant: a block of exactly the right size is refused.
FitsStrictly(a, n) == hdr[a].free /\ hdr[a].size > Aligned(n)

Fits(a, n) == hdr[a].free /\ hdr[a].size >= Aligned(n)

\* Mutant: the remainder is not marked free.
SplitKeeping(a, n) ==
  [hdr EXCEPT
     ![a + Header + n] = [size |-> hdr[a].size - n - Header, free |-> FALSE,
                          next |-> hdr[a].next],
     ![a] = [@ EXCEPT !.size = n, !.next = a + Header + n]]

\* The headers once split_block has cut block a after n bytes.
Split(a, n) ==
  [hdr EXCEPT
     ![a + Header + n] = [size |-> hdr[a].size - n - Header, free |-> TRUE,
                          next |-> hdr[a].next],
     ![a] = [@ EXCEPT !.size = n, !.next = a + Header + n]]

\* kmalloc's loop: the list is at its end, the block fits, or on to the next.
Search ==
  LET a == current["main"]
      n == Aligned(want)
  IN
  /\ At("main", "search")
  /\ \/ /\ a = Null
        /\ Return("main")
        /\ want' = 0
        /\ UNCHANGED <<hdr, chain>>
     \/ /\ a # Null /\ Fits(a, want)
        /\ IF hdr[a].size >= n + Header + MinSplit
           THEN hdr' = Split(a, n) /\ chain' = chain \cup {a + Header + n}
           ELSE UNCHANGED <<hdr, chain>>
        /\ Goto("main", "mark")
        /\ UNCHANGED <<current, want>>
     \/ /\ a # Null /\ ~Fits(a, want)
        /\ Move("main", hdr[a].next)
        /\ UNCHANGED <<hdr, chain, pc, want>>
  /\ UNCHANGED held

\* ... current->free = false, and the pointer goes to the caller.
Mark ==
  LET a == current["main"] IN
  /\ At("main", "mark")
  /\ hdr' = [hdr EXCEPT ![a].free = FALSE]
  /\ held' = [held EXCEPT ![a + Header] = want]
  /\ Return("main")
  /\ want' = 0
  /\ UNCHANGED chain

\* kfree of what somebody holds; NULL is refused at once.
CallFree(f, p) ==
  /\ At(f, "idle")
  /\ f = "irq" => IrqFrees
  /\ held[p] > 0
  /\ hdr' = [hdr EXCEPT ![p - Header].free = TRUE]
  /\ held' = [held EXCEPT ![p] = 0]
  /\ Goto(f, "merge")
  /\ Move(f, heap_start)
  /\ UNCHANGED <<chain, want>>

\* Mutant: both headers are counted.
MergedTwice(a) ==
  [hdr EXCEPT ![a].size = @ + 2 * Header + hdr[hdr[a].next].size,
              ![a].next = hdr[hdr[a].next].next]

\* Mutant: the absorbed block's header is not counted.
MergedShort(a) ==
  [hdr EXCEPT ![a].size = @ + hdr[hdr[a].next].size,
              ![a].next = hdr[hdr[a].next].next]

\* The headers once block a has absorbed the next one.
Merged(a) ==
  [hdr EXCEPT ![a].size = @ + Header + hdr[hdr[a].next].size,
              ![a].next = hdr[hdr[a].next].next]

\* Mutant: coalesce goes on to the next block after a merge, too.
AfterMergeOn(a) == hdr[hdr[a].next].next

\* Where coalesce stands after a merge.
AfterMerge(a) == a

\* Mutant: coalesce stays where it is.
OnwardNot(a) == a

Onward(a) == hdr[a].next

\* coalesce's loop.
Merge(f) ==
  LET a == current[f]
      last == a = Null \/ hdr[a].next = Null
      both == hdr[a].free /\ hdr[hdr[a].next].free
  IN
  /\ At(f, "merge")
  /\ \/ /\ last
        /\ Return(f)
        /\ UNCHANGED <<hdr, chain>>
     \/ /\ ~last /\ both
        /\ hdr' = Merged(a)
        /\ chain' = chain \ {hdr[a].next}
        /\ Move(f, AfterMerge(a))
        /\ UNCHANGED pc
     \/ /\ ~last /\ ~both
        /\ Move(f, Onward(a))
        /\ UNCHANGED <<hdr, chain, pc>>
  /\ UNCHANGED <<held, want>>

Next ==
  \/ \E n \in Sizes : CallMalloc(n)
  \/ Search
  \/ Mark
  \/ \E f \in Flows, p \in Addr : CallFree(f, p)
  \/ \E f \in Flows : Merge(f)

\* A call that was entered goes on.
Fairness == WF_vars(Search) /\ WF_vars(Mark) /\ \A f \in Flows : WF_vars(Merge(f))

Spec == Init /\ [][Next]_vars
FairSpec == Spec /\ Fairness

-----------------------------------------------------------------------------
(* Properties *)

End(a) == a + Header + hdr[a].size

\* The blocks of the list tile the heap: each ends where the next begins, the
\* last one at the end of the heap.  split_block and coalesce compute these
\* places from sizes, kfree the block from the pointer.
Tiling ==
  /\ heap_start \in chain
  /\ \A a \in chain :
       /\ hdr[a].next = End(a)
       /\ hdr[a].next \in chain \cup {Null}
  /\ \A a, b \in chain : a < b => hdr[a].next <= b

\* No byte is lost: outside of a call, a block is free or somebody holds it.
NothingLost ==
  \A a \in chain :
    hdr[a].free \/ (a + Header \in Addr /\ held[a + Header] > 0)

FreePair(a) == hdr[a].free /\ hdr[a].next # Null /\ hdr[hdr[a].next].free

\* coalesce leaves no two free blocks side by side, and neither does a split.
Coalesced == pc["main"] = "idle" => \A a \in chain : ~FreePair(a)

\* kmalloc returns NULL only if no free block is large enough.
NullOnlyWhenFull ==
  [][(pc["main"] = "search" /\ pc'["main"] = "idle")
     => \A a \in chain : hdr[a].free => hdr[a].size < Aligned(want)]_vars

\* What callers rely on: an allocation overlaps no other one.
Promise == INSTANCE Allocator WITH HeapSize <- HeapSize, Sizes <- Sizes, held <- held
KeepsPromise == Promise!Spec

\* The walks over the list end.
CallsReturn == \A f \in Flows : pc[f] # "idle" ~> pc[f] = "idle"

\* README.md:60 calls kmalloc and kfree working: no two allocations overlap,
\* also when the mouse handler frees one in the middle of a kmalloc.
HoldersApart ==
  \A p, q \in Addr :
    held[p] > 0 /\ held[q] > 0 /\ p < q => p + held[p] <= q

=============================================================================
