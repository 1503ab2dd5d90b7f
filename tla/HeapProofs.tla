------------------------------ MODULE HeapProofs ------------------------------
(***************************************************************************)
(* The kernel heap used from one flow only, for every size of the heap, of *)
(* a header and of the requests: the blocks tile the heap, coalesce leaves *)
(* no free neighbours, kmalloc returns NULL only when nothing fits, and    *)
(* the whole keeps the promise of Allocator.  IInv says, besides, that     *)
(* what is held is a block of the list that is not free and large enough,  *)
(* and how far the walk in progress has established its result.            *)
(***************************************************************************)
EXTENDS Heap, TLAPS

USE HeaderAssumption, HeapAssumption, SplitAssumption, SizesAssumption

\* Whatever is held is a block of the list, in use and large enough.
HeldBlocks ==
  \A p \in Addr :
    held[p] > 0 =>
      /\ p - Header \in chain
      /\ ~hdr[p - Header].free
      /\ held[p] <= hdr[p - Header].size

\* kmalloc has passed only blocks that do not fit, coalesce has left no free
\* pair behind.
WalkOK ==
  LET c == current["main"] IN
  /\ pc["main"] = "search" =>
       /\ want \in Sizes
       /\ c \in chain \cup {Null}
       /\ \A a \in chain : a < c => ~Fits(a, want)
  /\ pc["main"] = "mark" => want \in Sizes /\ c \in chain /\ Fits(c, want)
  /\ pc["main"] = "merge" => c \in chain

\* Where a free pair may be: at the block just split, or ahead of coalesce.
PairsOK ==
  LET c == current["main"] IN
  \A a \in chain :
    \/ ~FreePair(a)
    \/ pc["main"] = "mark" /\ a = c
    \/ pc["main"] = "merge" /\ c <= a

IInv ==
  /\ TypeOK
  /\ pc["irq"] = "idle"
  /\ Tiling
  /\ HeldBlocks
  /\ NothingLost
  /\ WalkOK
  /\ PairsOK

\* Rounding up to a multiple of 4 does not make a size smaller.
LEMMA AlignedFacts ==
  ASSUME NEW n \in Nat PROVE Aligned(n) \in Nat /\ n <= Aligned(n)
BY DEF Aligned

\* The places and sizes of the blocks on the list.
LEMMA ChainFacts ==
  ASSUME TypeOK, Tiling, NEW a \in chain
  PROVE  /\ a \in Nat /\ a \in Addr
         /\ hdr[a] \in BlockHeader
         /\ hdr[a].size \in Nat
         /\ hdr[a].next \in Nat /\ hdr[a].next \in Addr
         /\ hdr[a].next = a + Header + hdr[a].size
         /\ hdr[a].next <= HeapSize
         /\ a < Null
<1>1. a \in Addr /\ hdr[a] \in BlockHeader
  BY DEF TypeOK
<1>2. hdr[a].size \in Addr /\ hdr[a].next \in Addr
  BY <1>1 DEF BlockHeader
<1>3. hdr[a].next = a + Header + hdr[a].size
  BY DEF Tiling, End
<1> QED BY <1>1, <1>2, <1>3 DEF Addr, Null

\* heap_init: one free block as long as the heap.
LEMMA InitInv == Init => IInv
<1> SUFFICES ASSUME Init PROVE IInv
  OBVIOUS
<1> USE DEF Init, heap_start, Addr, Null
<1>1. TypeOK
  <2>1. FirstBlock \in BlockHeader /\ NoBlock \in BlockHeader
    BY DEF FirstBlock, NoBlock, BlockHeader
  <2> QED BY <2>1 DEF TypeOK, Flows, PCs
<1>2. pc["irq"] = "idle" /\ pc["main"] = "idle"
  BY DEF Flows
<1>3. hdr[0] = FirstBlock
  OBVIOUS
<1>4. Tiling
  BY <1>3 DEF Tiling, End, FirstBlock
<1>5. HeldBlocks /\ NothingLost /\ PairsOK
  BY <1>3 DEF HeldBlocks, NothingLost, PairsOK, FreePair, FirstBlock
<1> QED BY <1>1, <1>2, <1>4, <1>5 DEF IInv, WalkOK

\* kmalloc is entered: the walk stands at the first block.
LEMMA CallMallocInv ==
  ASSUME IInv, NEW n \in Sizes, CallMalloc(n) PROVE IInv'
<1> USE DEF CallMalloc, At, Goto, Move, heap_start
<1>1. heap_start \in Addr
  BY DEF Addr
<1>2. TypeOK' /\ pc'["irq"] = "idle"
  BY <1>1 DEF IInv, TypeOK, Flows, PCs
<1>3. pc'["main"] = "search" /\ current'["main"] = 0 /\ want' = n
  BY DEF IInv, TypeOK, Flows
<1>4. UNCHANGED <<hdr, chain, held>>
  OBVIOUS
<1>5. Tiling' /\ HeldBlocks' /\ NothingLost'
  BY <1>4 DEF IInv, Tiling, End, HeldBlocks, NothingLost
<1>6. WalkOK'
  BY <1>3, <1>4, ChainFacts DEF IInv, WalkOK, Tiling
<1>7. PairsOK'
  BY <1>3, <1>4 DEF IInv, PairsOK, FreePair
<1> QED BY <1>2, <1>5, <1>6, <1>7 DEF IInv

\* kmalloc gives up: the walk passed every block.
LEMMA SearchEndInv ==
  ASSUME IInv, Search, current["main"] = Null PROVE IInv'
<1> USE DEF Search, At, Goto, Move, Return, heap_start
<1>1. heap_start \in Addr
  BY DEF Addr
<1>2. TypeOK' /\ pc'["irq"] = "idle"
  BY <1>1 DEF IInv, TypeOK, Flows, PCs
<1>3. pc["main"] = "search" /\ pc'["main"] = "idle"
  BY DEF IInv, TypeOK, Flows
<1>4. UNCHANGED <<hdr, chain, held>>
  OBVIOUS
<1>5. Tiling' /\ HeldBlocks' /\ NothingLost'
  BY <1>4 DEF IInv, Tiling, End, HeldBlocks, NothingLost
<1>6. WalkOK'
  BY <1>3 DEF WalkOK
<1>7. PairsOK'
  BY <1>3, <1>4 DEF IInv, PairsOK, FreePair
<1> QED BY <1>2, <1>5, <1>6, <1>7 DEF IInv

\* kmalloc goes on to the next block.
LEMMA SearchOnInv ==
  ASSUME IInv, Search, current["main"] # Null, ~Fits(current["main"], want)
  PROVE  IInv'
<1> DEFINE c == current["main"]
<1> USE DEF Search, At, Goto, Move
<1>1. pc["main"] = "search" /\ c \in chain /\ want \in Sizes
  BY DEF IInv, WalkOK
<1>2. hdr[c].next \in Addr
  BY <1>1, ChainFacts DEF IInv
<1>3. UNCHANGED <<hdr, chain, held, pc, want>>
  OBVIOUS
<1>4. TypeOK' /\ pc'["irq"] = "idle"
  BY <1>2, <1>3 DEF IInv, TypeOK, Flows
<1>5. current'["main"] = hdr[c].next
  BY DEF IInv, TypeOK, Flows
<1>6. Tiling' /\ HeldBlocks' /\ NothingLost'
  BY <1>3 DEF IInv, Tiling, End, HeldBlocks, NothingLost
<1>7. WalkOK'
  <2>1. hdr[c].next \in chain \cup {Null}
    BY <1>1 DEF IInv, Tiling
  <2>2. ASSUME NEW a \in chain, a < hdr[c].next
        PROVE  a < c \/ a = c
    <3>1. c < a => hdr[c].next <= a
      BY <1>1 DEF IInv, Tiling
    <3> QED BY <1>1, <2>2, <3>1, ChainFacts DEF IInv
  <2>3. \A a \in chain : a < hdr[c].next => ~Fits(a, want)
    BY <1>1, <2>2 DEF IInv, WalkOK
  <2> QED BY <1>1, <1>3, <1>5, <2>1, <2>3 DEF WalkOK, Fits
<1>8. PairsOK'
  BY <1>1, <1>3 DEF IInv, PairsOK, FreePair
<1> QED BY <1>4, <1>6, <1>7, <1>8 DEF IInv

\* kmalloc found a block that fits and takes it whole.
LEMMA SearchWholeInv ==
  ASSUME IInv, Search, current["main"] # Null, Fits(current["main"], want),
         UNCHANGED <<hdr, chain>>
  PROVE  IInv'
<1> DEFINE c == current["main"]
<1> USE DEF Search, At, Goto, Move
<1>1. pc["main"] = "search" /\ c \in chain /\ want \in Sizes
  BY DEF IInv, WalkOK
<1>2. UNCHANGED <<current, held, want>>
  OBVIOUS
<1>3. TypeOK' /\ pc'["irq"] = "idle" /\ pc'["main"] = "mark"
  BY <1>2 DEF IInv, TypeOK, Flows, PCs
<1>4. Tiling' /\ HeldBlocks' /\ NothingLost'
  BY <1>2 DEF IInv, Tiling, End, HeldBlocks, NothingLost
<1>5. WalkOK'
  BY <1>1, <1>2, <1>3 DEF WalkOK, Fits
<1>6. PairsOK'
  BY <1>1, <1>2 DEF IInv, PairsOK, FreePair
<1> QED BY <1>3, <1>4, <1>5, <1>6 DEF IInv

\* Where split_block puts the new block.
LEMMA SplitPlace ==
  ASSUME TypeOK, Tiling, NEW c \in chain, NEW n \in Nat, NEW b,
         hdr[c].size >= n + Header + MinSplit, b = c + Header + n
  PROVE  /\ b \in Addr /\ b \notin chain /\ c < b /\ b < hdr[c].next
         /\ n \in Addr /\ hdr[c].size - n - Header \in Addr
<1>1. /\ c \in Nat /\ hdr[c].size \in Nat
      /\ hdr[c].next = c + Header + hdr[c].size /\ hdr[c].next <= HeapSize
  BY ChainFacts
<1>2. b \in Nat /\ c < b /\ b < hdr[c].next /\ b \in Addr
  BY <1>1 DEF Addr
<1>3. b \notin chain
  BY <1>1, <1>2 DEF Tiling
<1>4. n \in Addr /\ hdr[c].size - n - Header \in Addr
  BY <1>1 DEF Addr
<1> QED BY <1>2, <1>3, <1>4

\* kmalloc found a block that fits and cuts it.
LEMMA SearchSplitInv ==
  ASSUME IInv, At("main", "search"), current["main"] # Null,
         Fits(current["main"], want),
         hdr[current["main"]].size >= Aligned(want) + Header + MinSplit,
         hdr' = Split(current["main"], Aligned(want)),
         chain' = chain \cup {current["main"] + Header + Aligned(want)},
         Goto("main", "mark"), UNCHANGED <<current, want, held>>
  PROVE  IInv'
<1> DEFINE c == current["main"]
           n == Aligned(want)
           b == c + Header + n
<1> USE DEF At, Goto
<1>1. TypeOK /\ Tiling
  BY DEF IInv
<1>2. pc["main"] = "search" /\ c \in chain /\ want \in Sizes
  BY DEF IInv, WalkOK
<1>3. n \in Nat /\ want <= n
  BY <1>2, AlignedFacts
<1>4. hdr[c].size >= n + Header + MinSplit /\ hdr' = Split(c, n)
  OBVIOUS
<1>5. chain' = chain \cup {b}
  OBVIOUS
<1> HIDE DEF c, n
<1>6. /\ hdr' \in [Addr -> BlockHeader]
      /\ b \in Addr /\ b \notin chain /\ c < b /\ b < hdr[c].next
      /\ hdr'[c].size = n
      /\ hdr'[c].free = hdr[c].free
      /\ hdr'[c].next = b
      /\ hdr'[b].size = hdr[c].size - n - Header
      /\ hdr'[b].free = TRUE
      /\ hdr'[b].next = hdr[c].next
      /\ \A a \in Addr \ {c, b} : hdr'[a] = hdr[a]
  <2>1. b = c + Header + n
    OBVIOUS
  <2> HIDE DEF b
  <2> DEFINE new == [size |-> hdr[c].size - n - Header, free |-> TRUE,
                     next |-> hdr[c].next]
             old == [hdr[c] EXCEPT !.size = n, !.next = b]
  <2>2. /\ b \in Addr /\ b \notin chain /\ c < b /\ b < hdr[c].next
        /\ n \in Addr /\ hdr[c].size - n - Header \in Addr
    BY <1>1, <1>2, <1>3, <1>4, <2>1, SplitPlace
  <2>3. /\ c \in Nat /\ c \in Addr /\ hdr[c] \in BlockHeader
        /\ hdr[c].next \in Addr
    BY <1>1, <1>2, ChainFacts
  <2>4. new \in BlockHeader /\ old \in BlockHeader
    BY <2>2, <2>3 DEF BlockHeader
  <2>5. old.size = n /\ old.free = hdr[c].free /\ old.next = b
    BY <2>3 DEF BlockHeader
  <2>6. hdr' = [hdr EXCEPT ![b] = new, ![c] = old]
    BY <1>4, <2>1 DEF Split
  <2>7. hdr \in [Addr -> BlockHeader] /\ b # c
    BY <1>1, <2>2, <2>3 DEF TypeOK, Addr
  <2> HIDE DEF old
  <2>8. hdr'[b] = new /\ hdr'[c] = old
    BY <2>2, <2>3, <2>6, <2>7
  <2>9. /\ hdr' \in [Addr -> BlockHeader]
        /\ \A a \in Addr \ {c, b} : hdr'[a] = hdr[a]
    BY <2>2, <2>3, <2>4, <2>6, <2>7
  <2> QED BY <2>2, <2>5, <2>8, <2>9
<1>7. TypeOK' /\ pc'["irq"] = "idle" /\ pc'["main"] = "mark"
  BY <1>5, <1>6 DEF IInv, TypeOK, Flows, PCs
<1>8. \A a \in chain : a # c => hdr'[a] = hdr[a] /\ a # b
  BY <1>1, <1>6, ChainFacts
<1>9. /\ c \in Nat /\ hdr[c].next = c + Header + hdr[c].size
      /\ hdr[c].size \in Nat
  BY <1>1, <1>2, ChainFacts
<1> HIDE DEF b
<1>10. b = c + Header + n /\ b \in Nat
  BY <1>3, <1>9 DEF b
<1>11. Tiling'
  <2>1. heap_start \in chain'
    BY <1>1, <1>5 DEF Tiling
  <2>2. \A a \in chain' : hdr'[a].next = a + Header + hdr'[a].size
    <3>1. hdr'[c].next = c + Header + hdr'[c].size
      BY <1>6, <1>10
    <3>2. hdr'[b].next = b + Header + hdr'[b].size
      BY <1>3, <1>6, <1>9, <1>10
    <3> QED BY <1>1, <1>8, <1>5, <3>1, <3>2 DEF Tiling, End
  <2>3. \A a \in chain' : hdr'[a].next \in chain' \cup {Null}
    BY <1>1, <1>2, <1>6, <1>8, <1>5 DEF Tiling
  <2>4. ASSUME NEW a \in chain', NEW d \in chain', a < d
        PROVE  hdr'[a].next <= d
    <3>1. CASE a = c
      <4>1. d # b => hdr[c].next <= d /\ d \in Nat
        BY <1>1, <1>2, <1>5, <2>4, <3>1, ChainFacts DEF Tiling
      <4> QED BY <1>6, <1>9, <1>10, <3>1, <4>1
    <3>2. CASE a = b
      <4>1. d \in chain /\ c < d /\ d \in Nat
        BY <1>1, <1>6, <1>9, <1>5, <1>10, <2>4, <3>2, ChainFacts
      <4> QED BY <1>1, <1>2, <1>6, <3>2, <4>1 DEF Tiling
    <3>3. CASE a # b /\ a # c
      <4>1. a \in chain /\ hdr'[a] = hdr[a] /\ a \in Nat /\ hdr[a].next \in Nat
        BY <1>1, <1>8, <1>5, <3>3, ChainFacts
      <4>2. CASE d # b
        BY <1>1, <1>5, <2>4, <4>1, <4>2 DEF Tiling
      <4>3. CASE d = b
        <5>1. a < c \/ c < a
          BY <1>9, <3>3, <4>1
        <5>2. ~(c < a)
          BY <1>1, <1>2, <1>6, <1>9, <1>10, <2>4, <4>1, <4>3 DEF Tiling
        <5>3. hdr[a].next <= c
          BY <1>1, <1>2, <4>1, <5>1, <5>2 DEF Tiling
        <5> QED BY <1>6, <1>9, <1>10, <4>1, <4>3, <5>3
      <4> QED BY <4>2, <4>3
    <3> QED BY <3>1, <3>2, <3>3
  <2> QED BY <2>1, <2>2, <2>3, <2>4 DEF Tiling, End
<1>12. hdr[c].free /\ held' = held
  BY DEF Fits, c
<1>13. HeldBlocks'
  BY <1>8, <1>5, <1>12 DEF IInv, HeldBlocks
<1>14. NothingLost'
  BY <1>6, <1>8, <1>5, <1>12 DEF IInv, NothingLost
<1>15. WalkOK'
  <2>1. current'["main"] = c /\ want' = want
    BY DEF c
  <2>2. hdr'[c].free /\ hdr'[c].size >= Aligned(want)
    BY <1>3, <1>6, <1>12 DEF n
  <2>3. Fits(current["main"], want)'
    BY <2>1, <2>2 DEF Fits
  <2> QED BY <1>2, <1>7, <1>5, <2>1, <2>3 DEF WalkOK
<1>16. PairsOK'
  <2>1. current'["main"] = c
    BY DEF c
  <2>2. \A a \in chain : ~FreePair(a)
    BY <1>2 DEF IInv, PairsOK
  <2>3. ASSUME NEW a \in chain', a # c PROVE ~FreePair(a)'
    <3>1. CASE a = b
      <4>1. hdr[c].next = Null \/ ~hdr[hdr[c].next].free
        BY <1>2, <1>12, <2>2 DEF FreePair
      <4>2. hdr[c].next \in chain \cup {Null} /\ hdr[c].next # c
        BY <1>1, <1>2, <1>6, <1>9, <1>10 DEF Tiling
      <4> QED BY <1>6, <1>8, <3>1, <4>1, <4>2 DEF FreePair
    <3>2. CASE a # b
      <4>1. a \in chain /\ hdr'[a] = hdr[a] /\ hdr[a].next \in chain \cup {Null}
        BY <1>1, <1>8, <1>5, <2>3, <3>2 DEF Tiling
      <4>2. ~FreePair(a)
        BY <2>2, <4>1
      <4> QED BY <1>6, <1>8, <4>1, <4>2 DEF FreePair
    <3> QED BY <3>1, <3>2
  <2> QED BY <1>7, <2>1, <2>3 DEF PairsOK
<1> QED BY <1>7, <1>11, <1>13, <1>14, <1>15, <1>16 DEF IInv

\* One round of kmalloc's loop.
LEMMA SearchInv == ASSUME IInv, Search PROVE IInv'
<1> DEFINE c == current["main"]
<1>1. CASE c = Null
  BY <1>1, SearchEndInv
<1>2. CASE c # Null /\ ~Fits(c, want)
  BY <1>2, SearchOnInv
<1>3. CASE c # Null /\ Fits(c, want)
  <2>1. CASE hdr[c].size >= Aligned(want) + Header + MinSplit
    BY <1>3, <2>1, SearchSplitInv DEF Search
  <2>2. CASE ~(hdr[c].size >= Aligned(want) + Header + MinSplit)
    BY <1>3, <2>2, SearchWholeInv DEF Search
  <2> QED BY <2>1, <2>2
<1> QED BY <1>1, <1>2, <1>3

\* The block found gets its holder.
LEMMA MarkInv == ASSUME IInv, Mark PROVE IInv'
<1> DEFINE c == current["main"]
<1> USE DEF Mark, At, Goto, Move, Return, heap_start
<1>1. TypeOK /\ Tiling
  BY DEF IInv
<1>2. /\ pc["main"] = "mark" /\ c \in chain /\ want \in Sizes
      /\ hdr[c].free /\ hdr[c].size >= Aligned(want)
  BY DEF IInv, WalkOK, Fits
<1>3. /\ c \in Nat /\ c \in Addr /\ hdr[c] \in BlockHeader /\ hdr[c].size \in Nat
      /\ hdr[c].next = c + Header + hdr[c].size /\ hdr[c].next <= HeapSize
  BY <1>1, <1>2, ChainFacts
<1>4. c + Header \in Addr
  BY <1>3 DEF Addr
<1>5. want <= hdr[c].size /\ want > 0
  BY <1>2, <1>3, AlignedFacts
<1>6. /\ \A a \in Addr : a # c => hdr'[a] = hdr[a]
      /\ hdr'[c].free = FALSE
      /\ hdr'[c].size = hdr[c].size /\ hdr'[c].next = hdr[c].next
      /\ hdr' \in [Addr -> BlockHeader]
  <2> DEFINE new == [hdr[c] EXCEPT !.free = FALSE]
  <2>1. new \in BlockHeader
    BY <1>3 DEF BlockHeader
  <2>2. /\ new.free = FALSE /\ new.size = hdr[c].size
        /\ new.next = hdr[c].next
    BY <1>3 DEF BlockHeader
  <2>3. hdr' = [hdr EXCEPT ![c] = new]
    OBVIOUS
  <2> HIDE DEF new
  <2> QED BY <1>1, <1>3, <2>1, <2>2, <2>3 DEF TypeOK
<1>7. /\ \A p \in Addr : p # c + Header => held'[p] = held[p]
      /\ held'[c + Header] = want
      /\ held' \in [Addr -> {0} \cup Sizes]
  BY <1>1, <1>2, <1>4 DEF TypeOK
<1>8. TypeOK' /\ pc'["irq"] = "idle" /\ pc'["main"] = "idle"
  <2>1. heap_start \in Addr
    BY DEF Addr
  <2> QED BY <1>6, <1>7, <2>1 DEF IInv, TypeOK, Flows, PCs
<1>9. chain' = chain
  OBVIOUS
<1> HIDE DEF c, Mark
<1>10. Tiling'
  BY <1>1, <1>2, <1>6, <1>9, ChainFacts DEF Tiling, End
<1>11. HeldBlocks'
  <2> SUFFICES ASSUME NEW p \in Addr, held'[p] > 0
               PROVE  /\ p - Header \in chain /\ ~hdr'[p - Header].free
                      /\ held'[p] <= hdr'[p - Header].size
    BY <1>9 DEF HeldBlocks
  <2>1. CASE p = c + Header
    <3>1. p - Header = c
      BY <1>3, <2>1
    <3> QED BY <1>2, <1>5, <1>6, <1>7, <2>1, <3>1
  <2>2. CASE p # c + Header
    <3>1. p - Header # c
      BY <1>3, <2>2 DEF Addr
    <3>2. /\ p - Header \in chain /\ ~hdr[p - Header].free
          /\ held[p] <= hdr[p - Header].size
      BY <1>7, <2>2 DEF IInv, HeldBlocks
    <3>3. hdr'[p - Header] = hdr[p - Header]
      BY <1>1, <1>6, <3>1, <3>2, ChainFacts
    <3> QED BY <1>7, <2>2, <3>2, <3>3
  <2> QED BY <2>1, <2>2
<1>12. NothingLost'
  <2> SUFFICES ASSUME NEW a \in chain
               PROVE  hdr'[a].free \/ (a + Header \in Addr /\ held'[a + Header] > 0)
    BY <1>9 DEF NothingLost
  <2>1. CASE a = c
    BY <1>4, <1>5, <1>7, <2>1
  <2>2. CASE a # c
    <3>1. a \in Addr /\ a \in Nat /\ a + Header # c + Header
      BY <1>1, <1>3, <2>2, ChainFacts
    <3> QED BY <1>6, <1>7, <2>2, <3>1 DEF IInv, NothingLost
  <2> QED BY <2>1, <2>2
<1>13. PairsOK'
  <2> SUFFICES ASSUME NEW a \in chain PROVE ~FreePair(a)'
    BY <1>9 DEF PairsOK
  <2>1. CASE a = c
    BY <1>6, <2>1 DEF FreePair
  <2>2. CASE a # c
    <3>1. hdr'[a] = hdr[a] /\ hdr[a].next \in chain \cup {Null}
      BY <1>1, <1>6, <2>2, ChainFacts DEF Tiling
    <3>2. ~FreePair(a)
      BY <1>2, <2>2 DEF IInv, PairsOK, c
    <3>3. hdr[a].next \in chain /\ hdr[a].next # c
          => hdr'[hdr[a].next] = hdr[hdr[a].next]
      BY <1>1, <1>6, ChainFacts
    <3> QED BY <1>6, <3>1, <3>2, <3>3 DEF FreePair
  <2> QED BY <2>1, <2>2
<1>14. WalkOK'
  BY <1>8 DEF WalkOK
<1> QED BY <1>8, <1>10, <1>11, <1>12, <1>13, <1>14 DEF IInv

\* A block is given back and coalesce begins.
LEMMA CallFreeInv ==
  ASSUME IInv, NEW p \in Addr, CallFree("main", p) PROVE IInv'
<1> DEFINE b == p - Header
<1> USE DEF CallFree, At, Goto, Move, heap_start
<1>1. TypeOK /\ Tiling
  BY DEF IInv
<1>2. b \in chain
  BY DEF IInv, HeldBlocks
<1>3. b \in Nat /\ b \in Addr /\ hdr[b] \in BlockHeader
  BY <1>1, <1>2, ChainFacts
<1>4. /\ \A a \in Addr : a # b => hdr'[a] = hdr[a]
      /\ hdr'[b].free = TRUE
      /\ hdr'[b].size = hdr[b].size /\ hdr'[b].next = hdr[b].next
      /\ hdr' \in [Addr -> BlockHeader]
  <2> DEFINE new == [hdr[b] EXCEPT !.free = TRUE]
  <2>1. new \in BlockHeader
    BY <1>3 DEF BlockHeader
  <2>2. /\ new.free = TRUE /\ new.size = hdr[b].size
        /\ new.next = hdr[b].next
    BY <1>3 DEF BlockHeader
  <2>3. hdr' = [hdr EXCEPT ![b] = new]
    OBVIOUS
  <2>4. hdr \in [Addr -> BlockHeader]
    BY <1>1 DEF TypeOK
  <2> HIDE DEF new, b
  <2>5. /\ \A a \in Addr : a # b => hdr'[a] = hdr[a]
        /\ hdr'[b] = new
    BY <1>3, <2>3, <2>4
  <2>6. hdr' \in [Addr -> BlockHeader]
    BY <1>3, <2>1, <2>3, <2>4
  <2> QED BY <2>2, <2>5, <2>6
<1>5. /\ \A q \in Addr : q # p => held'[q] = held[q]
      /\ held'[p] = 0
      /\ held' \in [Addr -> {0} \cup Sizes]
  BY <1>1 DEF TypeOK
<1>6. /\ TypeOK' /\ pc'["irq"] = "idle"
      /\ pc'["main"] = "merge" /\ current'["main"] = 0
  <2>1. heap_start \in Addr
    BY DEF Addr
  <2> QED BY <1>4, <1>5, <2>1 DEF IInv, TypeOK, Flows, PCs
<1>7. chain' = chain /\ b + Header = p
  BY DEF Addr
<1> HIDE DEF b, CallFree
<1>8. Tiling'
  BY <1>1, <1>2, <1>4, <1>7, ChainFacts DEF Tiling, End
<1>9. HeldBlocks'
  <2> SUFFICES ASSUME NEW q \in Addr, held'[q] > 0
               PROVE  /\ q - Header \in chain /\ ~hdr'[q - Header].free
                      /\ held'[q] <= hdr'[q - Header].size
    BY <1>7 DEF HeldBlocks
  <2>1. q # p
    BY <1>5
  <2>2. q - Header # b
    BY <1>3, <1>7, <2>1 DEF Addr
  <2>3. /\ q - Header \in chain /\ ~hdr[q - Header].free
        /\ held[q] <= hdr[q - Header].size
    BY <1>5, <2>1 DEF IInv, HeldBlocks
  <2>4. hdr'[q - Header] = hdr[q - Header]
    BY <1>1, <1>4, <2>2, <2>3, ChainFacts
  <2> QED BY <1>5, <2>1, <2>3, <2>4
<1>10. NothingLost'
  <2> SUFFICES ASSUME NEW a \in chain, a # b
               PROVE  hdr'[a].free \/ (a + Header \in Addr /\ held'[a + Header] > 0)
    BY <1>4, <1>7 DEF NothingLost
  <2>1. a \in Addr /\ a + Header # p
    BY <1>1, <1>3, <1>7, ChainFacts
  <2> QED BY <1>4, <1>5, <2>1 DEF IInv, NothingLost
<1>11. PairsOK'
  BY <1>1, <1>6, <1>7, ChainFacts DEF PairsOK
<1>12. WalkOK'
  BY <1>1, <1>6, <1>7 DEF WalkOK, Tiling
<1> QED BY <1>6, <1>8, <1>9, <1>10, <1>11, <1>12 DEF IInv

\* coalesce is at the last block.
LEMMA MergeEndInv ==
  ASSUME IInv, Merge("main"), hdr[current["main"]].next = Null PROVE IInv'
<1> DEFINE c == current["main"]
<1> USE DEF Merge, At, Goto, Move, Return, heap_start
<1>1. TypeOK /\ Tiling
  BY DEF IInv
<1>2. pc["main"] = "merge" /\ c \in chain
  BY DEF IInv, WalkOK
<1>3. UNCHANGED <<hdr, chain, held, want>>
  OBVIOUS
<1>4. TypeOK' /\ pc'["irq"] = "idle" /\ pc'["main"] = "idle"
  <2>1. heap_start \in Addr /\ c < Null
    BY <1>1, <1>2, ChainFacts DEF Addr
  <2> QED BY <1>2, <1>3, <2>1 DEF IInv, TypeOK, Flows, PCs, Null, Addr
<1>5. Tiling' /\ HeldBlocks' /\ NothingLost' /\ WalkOK'
  BY <1>3, <1>4 DEF IInv, Tiling, End, HeldBlocks, NothingLost, WalkOK
<1>6. PairsOK'
  <2> SUFFICES ASSUME NEW a \in chain PROVE ~FreePair(a)
    BY <1>3 DEF PairsOK, FreePair
  <2>1. /\ a \in Nat /\ a < Null /\ c \in Nat /\ Null \in Nat
        /\ (c < a => hdr[c].next <= a)
    BY <1>1, <1>2, ChainFacts DEF Tiling, Null
  <2>2. a <= c
    BY <2>1
  <2>3. CASE a = c
    BY <2>3 DEF FreePair
  <2>4. CASE a < c
    BY <1>2, <2>1, <2>4 DEF IInv, PairsOK
  <2> QED BY <2>1, <2>2, <2>3, <2>4
<1> QED BY <1>4, <1>5, <1>6 DEF IInv

\* coalesce goes on to the next block.
LEMMA MergeOnInv ==
  ASSUME IInv, Merge("main"), hdr[current["main"]].next # Null,
         ~(hdr[current["main"]].free
           /\ hdr[hdr[current["main"]].next].free)
  PROVE  IInv'
<1> DEFINE c == current["main"]
<1> USE DEF Merge, At, Goto, Move, Onward
<1>1. TypeOK /\ Tiling
  BY DEF IInv
<1>2. pc["main"] = "merge" /\ c \in chain
  BY DEF IInv, WalkOK
<1>3. /\ c \in Nat /\ c < Null /\ hdr[c].next \in chain
      /\ hdr[c].next \in Addr /\ hdr[c].next \in Nat
  BY <1>1, <1>2, ChainFacts DEF Tiling
<1>4. UNCHANGED <<hdr, chain, held, want, pc>>
  BY <1>3
<1>5. TypeOK' /\ pc'["irq"] = "idle"
  BY <1>3, <1>4 DEF IInv, TypeOK, Flows
<1>6. current'["main"] = hdr[c].next
  BY <1>3 DEF IInv, TypeOK, Flows
<1>7. Tiling' /\ HeldBlocks' /\ NothingLost'
  BY <1>4 DEF IInv, Tiling, End, HeldBlocks, NothingLost
<1>8. WalkOK'
  BY <1>2, <1>3, <1>4, <1>6 DEF WalkOK
<1>9. PairsOK'
  <2> SUFFICES ASSUME NEW a \in chain, ~(hdr[c].next <= a)
               PROVE  ~FreePair(a)
    BY <1>2, <1>4, <1>6 DEF PairsOK, FreePair
  <2>1. /\ a \in Nat
        /\ (c < a => hdr[c].next <= a)
    BY <1>1, <1>2, ChainFacts DEF Tiling
  <2>2. CASE a = c
    BY <2>2 DEF FreePair
  <2>3. CASE a < c
    BY <1>2, <1>3, <2>1, <2>3 DEF IInv, PairsOK
  <2> QED BY <1>3, <2>1, <2>2, <2>3
<1> QED BY <1>5, <1>7, <1>8, <1>9 DEF IInv

\* coalesce joins a block and the next one.
LEMMA MergeJoinInv ==
  ASSUME IInv, Merge("main"), hdr[current["main"]].next # Null,
         hdr[current["main"]].free, hdr[hdr[current["main"]].next].free
  PROVE  IInv'
<1> DEFINE c == current["main"]
           b == hdr[c].next
<1> USE DEF Merge, At, Goto, Move, AfterMerge
<1>1. TypeOK /\ Tiling
  BY DEF IInv
<1>2. pc["main"] = "merge" /\ c \in chain
  BY DEF IInv, WalkOK
<1>3. b \in chain
  BY <1>1, <1>2 DEF Tiling
<1>4. /\ c \in Nat /\ c \in Addr /\ c < Null /\ hdr[c] \in BlockHeader
      /\ hdr[c].size \in Nat /\ b = c + Header + hdr[c].size /\ b \in Nat
      /\ b \in Addr /\ hdr[b].size \in Nat /\ hdr[b].next \in Addr
      /\ hdr[b].next = b + Header + hdr[b].size /\ hdr[b].next <= HeapSize
  BY <1>1, <1>2, <1>3, ChainFacts
<1>5. /\ hdr' = Merged(c) /\ chain' = chain \ {b}
      /\ UNCHANGED <<held, want, pc>>
      /\ current' = [current EXCEPT !["main"] = c]
  BY <1>4
<1>6. current'["main"] = c
  BY <1>5 DEF IInv, TypeOK, Flows
<1>7. c < b /\ hdr[c].free /\ hdr[b].free /\ b # Null
  BY <1>4
<1>8. /\ \A a \in Addr : a # c => hdr'[a] = hdr[a]
      /\ hdr'[c].free = hdr[c].free
      /\ hdr'[c].size = hdr[c].size + Header + hdr[b].size
      /\ hdr'[c].next = hdr[b].next
      /\ hdr' \in [Addr -> BlockHeader]
  <2> DEFINE size == hdr[c].size + Header + hdr[b].size
             new == [hdr[c] EXCEPT !.size = size, !.next = hdr[b].next]
  <2>1. size \in Addr
    BY <1>4 DEF Addr
  <2>2. new \in BlockHeader
    BY <1>4, <2>1 DEF BlockHeader
  <2>3. new.free = hdr[c].free /\ new.size = size /\ new.next = hdr[b].next
    BY <1>4 DEF BlockHeader
  <2>4. hdr' = [hdr EXCEPT ![c] = new]
    BY <1>5 DEF Merged
  <2> HIDE DEF new
  <2> QED BY <1>1, <1>4, <2>2, <2>3, <2>4 DEF TypeOK
<1> HIDE DEF c, b, Merge
<1>9. TypeOK' /\ pc'["irq"] = "idle"
  BY <1>4, <1>5, <1>8 DEF IInv, TypeOK, Flows
<1>10. \A a \in chain : a # c => hdr'[a] = hdr[a] /\ a \in Nat /\ a \in Addr
  BY <1>1, <1>8, ChainFacts
<1>11. \A a \in chain : hdr[a].next = b => a = c
  <2> SUFFICES ASSUME NEW a \in chain, hdr[a].next = b, a # c PROVE FALSE
    OBVIOUS
  <2>1. a \in Nat /\ a < hdr[a].next
    BY <1>1, ChainFacts
  <2>2. a < c => hdr[a].next <= c
    BY <1>1, <1>2 DEF Tiling
  <2>3. c < a => b <= a
    BY <1>1, <1>2 DEF Tiling, b
  <2> QED BY <1>4, <1>7, <2>1, <2>2, <2>3
<1>12. Tiling'
  <2>1. heap_start \in chain'
    BY <1>1, <1>4, <1>5, <1>7 DEF Tiling, heap_start
  <2>2. \A a \in chain' : hdr'[a].next = a + Header + hdr'[a].size
    <3>1. hdr'[c].next = c + Header + hdr'[c].size
      BY <1>4, <1>8
    <3> QED BY <1>1, <1>5, <1>10, <3>1 DEF Tiling, End
  <2>3. \A a \in chain' : hdr'[a].next \in chain' \cup {Null}
    <3>1. hdr[b].next \in chain \cup {Null} /\ hdr[b].next # b
      BY <1>1, <1>3, <1>4 DEF Tiling
    <3> QED BY <1>1, <1>5, <1>8, <1>10, <1>11, <3>1 DEF Tiling
  <2>4. ASSUME NEW a \in chain', NEW d \in chain', a < d
        PROVE  hdr'[a].next <= d
    <3>1. CASE a = c
      <4>1. b <= d /\ d # b /\ d \in Nat
        BY <1>1, <1>2, <1>5, <2>4, <3>1, ChainFacts DEF Tiling, b
      <4>2. hdr[b].next <= d
        BY <1>1, <1>3, <1>4, <1>5, <4>1 DEF Tiling
      <4> QED BY <1>8, <3>1, <4>2
    <3>2. CASE a # c
      BY <1>1, <1>5, <1>10, <2>4, <3>2 DEF Tiling
    <3> QED BY <3>1, <3>2
  <2> QED BY <2>1, <2>2, <2>3, <2>4 DEF Tiling, End
<1>13. HeldBlocks'
  BY <1>5, <1>7, <1>10 DEF IInv, HeldBlocks
<1>14. NothingLost'
  BY <1>5, <1>7, <1>8, <1>10 DEF IInv, NothingLost
<1>15. WalkOK'
  BY <1>2, <1>4, <1>5, <1>6, <1>7 DEF WalkOK
<1>16. PairsOK'
  <2> SUFFICES ASSUME NEW a \in chain, a # b, ~(c <= a) PROVE ~FreePair(a)'
    BY <1>2, <1>5, <1>6 DEF PairsOK
  <2>1. a # c /\ ~FreePair(a)
    BY <1>2, <1>4 DEF IInv, PairsOK, c
  <2>2. hdr'[a] = hdr[a] /\ hdr[a].next \in chain \cup {Null} /\ hdr[a].next # b
    BY <1>1, <1>10, <1>11, <2>1 DEF Tiling
  <2> QED BY <1>8, <1>10, <2>1, <2>2 DEF FreePair
<1> QED BY <1>9, <1>12, <1>13, <1>14, <1>15, <1>16 DEF IInv

\* One step of coalesce.
LEMMA MergeInv == ASSUME IInv, Merge("main") PROVE IInv'
<1> DEFINE c == current["main"]
<1>1. CASE hdr[c].next = Null
  BY <1>1, MergeEndInv
<1>2. CASE hdr[c].next # Null /\ hdr[c].free /\ hdr[hdr[c].next].free
  BY <1>2, MergeJoinInv
<1>3. CASE hdr[c].next # Null /\ ~(hdr[c].free /\ hdr[hdr[c].next].free)
  BY <1>3, MergeOnInv
<1> QED BY <1>1, <1>2, <1>3

\* Without frees in interrupt handlers every step keeps the invariant.
LEMMA NextInv == ASSUME ~IrqFrees, IInv, [Next]_vars PROVE IInv'
<1>1. ASSUME NEW p \in Addr, CallFree("irq", p) PROVE FALSE
  BY <1>1 DEF CallFree
<1>2. ASSUME Merge("irq") PROVE FALSE
  BY <1>2 DEF Merge, At, IInv
<1>3. CASE Next
  BY <1>1, <1>2, <1>3, CallMallocInv, SearchInv, MarkInv, CallFreeInv, MergeInv
  DEF Next, Flows
<1>4. CASE UNCHANGED vars
  BY <1>4 DEF vars, IInv, TypeOK, Tiling, End, HeldBlocks, NothingLost,
     WalkOK, Fits, PairsOK, FreePair
<1> QED BY <1>3, <1>4

-----------------------------------------------------------------------------
(* The theorems *)

\* The inductive invariant of the heap (heap.c), whatever the sizes.
THEOREM Invariance == ASSUME ~IrqFrees PROVE Spec => []IInv
<1>1. IInv /\ [Next]_vars => IInv'
  BY NextInv
<1> QED BY <1>1, InitInv, PTL DEF Spec

\* The headers and pointers of heap.c keep their types: no size or address
\* computed by split_block or coalesce leaves the heap.
THEOREM TypeCorrect == ASSUME ~IrqFrees PROVE Spec => []TypeOK
<1>1. IInv => TypeOK
  BY DEF IInv
<1> QED BY <1>1, Invariance, PTL

\* The blocks tile the heap at every step of kmalloc and kfree.
THEOREM TilingHolds == ASSUME ~IrqFrees PROVE Spec => []Tiling
<1>1. IInv => Tiling
  BY DEF IInv
<1> QED BY <1>1, Invariance, PTL

\* No block is neither free nor held.
THEOREM NothingLostHolds == ASSUME ~IrqFrees PROVE Spec => []NothingLost
<1>1. IInv => NothingLost
  BY DEF IInv
<1> QED BY <1>1, Invariance, PTL

\* coalesce (heap.c:87-97) leaves no two free neighbours.
THEOREM CoalescedHolds == ASSUME ~IrqFrees PROVE Spec => []Coalesced
<1>1. IInv => Coalesced
  BY DEF IInv, PairsOK, Coalesced
<1> QED BY <1>1, Invariance, PTL

\* kmalloc (heap.c:51-70) returns NULL only when no free block is large enough.
THEOREM NullOnlyWhenFullHolds == ASSUME ~IrqFrees PROVE Spec => NullOnlyWhenFull
<1> DEFINE A == pc["main"] = "search" /\ pc'["main"] = "idle"
                => \A a \in chain : hdr[a].free => hdr[a].size < Aligned(want)
<1>1. IInv /\ [Next]_vars => A
  <2> SUFFICES ASSUME IInv, Next, pc["main"] = "search", pc'["main"] = "idle"
               PROVE  \A a \in chain : hdr[a].free => hdr[a].size < Aligned(want)
    BY DEF vars
  <2>1. Search
    <3>1. ASSUME NEW f \in Flows, NEW p \in Addr, CallFree(f, p) PROVE FALSE
      BY <3>1 DEF CallFree, At, Running, Goto, IInv, TypeOK, Flows
    <3>2. ASSUME NEW f \in Flows, Merge(f) PROVE FALSE
      BY <3>2 DEF Merge, At, IInv, TypeOK, Flows
    <3> QED BY <3>1, <3>2 DEF Next, CallMalloc, Mark, At
  <2>2. current["main"] = Null
    BY <2>1 DEF Search, Goto, Move, IInv, TypeOK, Flows
  <2>3. want \in Sizes /\ \A a \in chain : a < Null => ~Fits(a, want)
    BY <2>2 DEF IInv, WalkOK
  <2>4. Aligned(want) \in Nat
    BY <2>3, AlignedFacts
  <2> QED BY <2>3, <2>4, ChainFacts DEF Fits, IInv
<1> QED BY <1>1, Invariance, PTL DEF Spec, NullOnlyWhenFull

\* The heap keeps the promise of Allocator: what kmalloc returns overlaps
\* nothing that anybody holds, and only kfree takes it away.
THEOREM KeepsPromiseHolds == ASSUME ~IrqFrees PROVE Spec => KeepsPromise
<1>1. Init => Promise!Init
  BY DEF Init, Promise!Init, Addr, Promise!Addr
<1>2. IInv /\ [Next]_vars => [Promise!Next]_held
  <2> SUFFICES ASSUME IInv, Next, held' # held PROVE Promise!Next
    BY DEF vars
  <2>1. CASE Mark
    <3> DEFINE c == current["main"]
               p == c + Header
    <3>1. /\ c \in chain /\ want \in Sizes
          /\ hdr[c].free /\ hdr[c].size >= Aligned(want)
      BY <2>1 DEF Mark, At, IInv, WalkOK, Fits
    <3>2. /\ c \in Nat /\ hdr[c].size \in Nat
          /\ hdr[c].next = c + Header + hdr[c].size /\ hdr[c].next <= HeapSize
      BY <3>1, ChainFacts DEF IInv
    <3>3. want \in Nat /\ want <= hdr[c].size
      BY <3>1, <3>2, AlignedFacts
    <3>4. p \in Addr /\ p + want <= HeapSize
      BY <3>2, <3>3 DEF Addr
    <3>5. \A q \in Addr : held[q] \in Nat /\ q \in Nat
      <4>1. \A q \in Addr : held[q] \in {0} \cup Sizes
        BY DEF IInv, TypeOK
      <4>2. {0} \cup Sizes \subseteq Nat
        OBVIOUS
      <4>3. Addr \subseteq Nat
        BY DEF Addr
      <4> QED BY <4>1, <4>2, <4>3
    <3>6. ASSUME NEW q \in Addr, held[q] > 0
          PROVE  p # q /\ (p + want <= q \/ q + held[q] <= p)
      <4> DEFINE d == q - Header
      <4>1. d \in chain /\ ~hdr[d].free /\ held[q] <= hdr[d].size
        BY <3>6 DEF IInv, HeldBlocks
      <4>2. /\ d \in Nat /\ hdr[d].size \in Nat
            /\ hdr[d].next = d + Header + hdr[d].size
        BY <4>1, ChainFacts DEF IInv
      <4>3. q \in Nat /\ held[q] \in Nat /\ q = d + Header /\ d # c
        BY <3>1, <3>5, <4>1
      <4>4. (c < d => hdr[c].next <= d) /\ (d < c => hdr[d].next <= c)
        BY <3>1, <4>1 DEF IInv, Tiling
      <4> HIDE DEF d, c
      <4> QED BY <3>2, <3>3, <4>1, <4>2, <4>3, <4>4 DEF p
    <3>7. ~(held[p] > 0) /\ held[p] \in Nat
      BY <3>4, <3>6, <3>5
    <3>8. held' = [held EXCEPT ![p] = want] /\ held[p] = 0
      BY <2>1, <3>7 DEF Mark
    <3>9. Promise!Alloc(p, want)
      BY <3>4, <3>6, <3>8 DEF Promise!Alloc, Promise!Apart, Promise!Addr, Addr
    <3> QED BY <3>1, <3>4, <3>9 DEF Promise!Next, Promise!Addr, Addr
  <2>2. ASSUME NEW f \in Flows, NEW p \in Addr, CallFree(f, p)
        PROVE  Promise!Next
    BY <2>2 DEF CallFree, Promise!Next, Promise!Free, Promise!Addr, Addr
  <2> QED BY <2>1, <2>2 DEF Next, CallMalloc, Search, Merge
<1> QED BY <1>1, <1>2, Invariance, PTL DEF Spec, KeepsPromise, Promise!Spec
=============================================================================
