---------------------------- MODULE MemoryProofs ----------------------------
(***************************************************************************)
(* Memory of every size, for every boot and every set of programs: types,  *)
(* and that pmm_used_blocks counts the bits of the bitmap; then what pages *)
(* lead to and what frames are used for (FramesApart, TranslationsAsAsked, *)
(* LoadComplete).                                                          *)
(*                                                                         *)
(* What makes the first two inductive: a frame in somebody's hand is       *)
(* marked, and a load in progress stands at a segment of its program.  The *)
(* argument for the others: a frame that pmm_alloc_frame returns had no    *)
(* use, so a new table shares its frame with no other unless it is the one *)
(* at frame 0.  Hence a call of vmm_map_page changes what one page leads   *)
(* to, and another page only if the table at frame 0 is shared             *)
(* (MapPagePhys).  The bytes of a segment with a sound header are copied   *)
(* to its own pages and to no others (SoundHeader), each in a frame of its *)
(* own, where later segments leave them and the heap has no page but those *)
(* the load was addressed to (CopyFrames, HeapWriteFrames).                *)
(***************************************************************************)
EXTENDS Memory, FiniteSetTheorems, TLAPS

Held == held \subseteq used

Loading ==
  pc = "load" =>
    /\ image \in Images /\ seg \in 1 .. Len(image) /\ loads >= 1
    /\ Checked(image[seg])

Booting ==
  /\ pc = "identity" => at < Ident
  /\ pc = "framebuffer" => at >= 1

Inv == TypeOK /\ CounterMatches /\ Held /\ Loading /\ Booting

-----------------------------------------------------------------------------
(* The bitmap and its counter *)

\* The pair of a bitmap and its counter.
Sound(u, n) == u \subseteq Frames /\ n = Cardinality(u)

\* Frames are finitely many, and so is every set of them.
LEMMA FiniteFrames ==
  ASSUME NEW u \in SUBSET Frames
  PROVE  IsFiniteSet(u) /\ Cardinality(u) \in 0 .. NFrames
<1>1. IsFiniteSet(Frames) /\ Cardinality(Frames) = NFrames
  <2>1. NFrames \in Nat \ {0} /\ NFrames - 1 \in Int /\ 0 \in Int
    BY FramesAssumption
  <2>2. IsFiniteSet(Frames)
    BY <2>1, FS_Interval DEF Frames
  <2>3. Cardinality(0 .. NFrames - 1) = IF 0 > NFrames - 1 THEN 0 ELSE (NFrames - 1) - 0 + 1
    BY <2>1, FS_Interval, Zenon
  <2>4. QED
    BY <2>1, <2>2, <2>3 DEF Frames
<1>2. QED
  BY <1>1, FS_Subset, FS_CardinalityType

\* Whatever pmm_alloc_frame returns, bitmap and counter go on to agree.
LEMMA AllocSound ==
  ASSUME NEW u, NEW n, Sound(u, n), NEW f \in Frames, Allocates(f, u, n)
  PROVE  Sound(Taken(u, f), Counted(n, f)) /\ u \subseteq Taken(u, f)
<1>1. CASE f = 0
  BY <1>1 DEF Sound, Taken, Counted
<1>2. CASE f # 0
  <2>1. f \notin u
    BY <1>2 DEF Allocates
  <2>2. IsFiniteSet(u)
    BY FiniteFrames DEF Sound
  <2>3. Cardinality(u \cup {f}) = Cardinality(u) + 1
    BY <2>1, <2>2, FS_AddElement
  <2>4. QED
    BY <1>2, <2>3 DEF Sound, Taken, Counted
<1>3. QED
  BY <1>1, <1>2

\* The counter of a sound pair is in range.
LEMMA SoundRange ==
  ASSUME NEW u, NEW n, Sound(u, n)
  PROVE  u \subseteq Frames /\ n \in 0 .. NFrames
BY FiniteFrames DEF Sound

-----------------------------------------------------------------------------
(* Addresses and pages *)

\* The pages that a segment maps.
MapPages(s) == PageStart(s) .. PageEnd(s) - 1

\* An address divided by the size of a page is the page it is in.
LEMMA PageOf ==
  ASSUME NEW a \in Nat, NEW q \in Nat
  PROVE  /\ a \div PageSize \in Nat
         /\ a \div PageSize = q <=> q * PageSize <= a /\ a < q * PageSize + PageSize
BY AddressAssumption

\* A greater address is in the same page or in a later one.
LEMMA PagesOrdered ==
  ASSUME NEW a \in Nat, NEW b \in Nat, a <= b
  PROVE  a \div PageSize <= b \div PageSize
BY AddressAssumption

\* There are as many addresses as the pages have.
LEMMA AddressPages == Word \in Nat /\ \A a \in Addresses : a \div PageSize \in Pages
<1>1. NPages \in Nat \ {0} /\ PageSize \in Nat \ {0}
  BY FramesAssumption, AddressAssumption
<1>2. Word \in Nat
  BY <1>1 DEF Word
<1>3. ASSUME NEW a \in Addresses PROVE a \div PageSize \in Pages
  <2>1. a \in Nat /\ a < Word
    BY <1>2, <1>3 DEF Addresses
  <2>2. a < NPages * PageSize
    BY <2>1 DEF Word
  <2>3. a \div PageSize < NPages /\ a \div PageSize \in Nat
    BY <1>1, <2>1, <2>2
  <2>4. QED
    BY <1>1, <2>3 DEF Pages
<1>4. QED
  BY <1>2, <1>3

\* The pages of a segment's ends are pages.
LEMMA SegmentPages ==
  ASSUME NEW s \in Segment
  PROVE  PageStart(s) \in Pages /\ PageEnd(s) \in Pages
<1>1. Word \in Nat \ {0} /\ PageSize \in Nat \ {0}
  BY AddressPages, FramesAssumption, AddressAssumption DEF Word
<1>2. s.vaddr \in Addresses /\ s.memsz \in Addresses
  BY DEF Segment
<1>3. s.vaddr + s.memsz + PageSize - 1 \in Nat
  BY <1>1, <1>2 DEF Addresses
<1>4. (s.vaddr + s.memsz + PageSize - 1) % Word \in Addresses
  BY <1>1, <1>3 DEF Addresses
<1>5. QED
  BY <1>2, <1>4, AddressPages DEF PageStart, PageEnd

\* A sound header: the pages that are mapped, the pages that are written to and the
\* pages of the segment are the same.
LEMMA SoundHeader ==
  ASSUME NEW s \in Segment, WellFormed(s)
  PROVE  MapPages(s) = SegPages(s) /\ Written(s) = SegPages(s)
<1> DEFINE v == s.vaddr
           last == s.vaddr + s.memsz - 1
<1>1. /\ PageSize \in Nat \ {0} /\ Word \in Nat /\ v \in Nat /\ s.filesz \in Nat
      /\ s.memsz \in Nat \ {0} /\ s.filesz <= s.memsz
      /\ v + s.memsz + PageSize - 1 < Word /\ last \in Nat /\ v <= last
  BY AddressPages, AddressAssumption DEF Segment, Addresses, WellFormed
<1>2. \A a \in Nat : a < Word => a % Word = a
  BY <1>1
<1> DEFINE first == v \div PageSize
           final == last \div PageSize
<1>3. first \in Nat /\ final \in Nat
  BY <1>1, PageOf
<1>4. SegPages(s) = first .. final
  BY DEF SegPages
<1>5. MapPages(s) = first .. final
  <2>1. (last + PageSize) % Word = last + PageSize /\ last + PageSize = v + s.memsz + PageSize - 1
    BY <1>1, <1>2
  <2>2. final * PageSize <= last /\ last < final * PageSize + PageSize
    BY <1>1, <1>3, PageOf
  <2> HIDE DEF last, final
  <2>3. (final + 1) * PageSize = final * PageSize + PageSize
    BY <1>1, <1>3
  <2>4. (final + 1) * PageSize <= last + PageSize
        /\ last + PageSize < (final + 1) * PageSize + PageSize
    BY <1>1, <1>3, <2>2, <2>3
  <2>5. last + PageSize \in Nat /\ final + 1 \in Nat
    BY <1>1, <1>3
  <2>6. (last + PageSize) \div PageSize = final + 1
    BY <2>4, <2>5, PageOf
  <2>7. PageEnd(s) = final + 1 /\ PageStart(s) = first
    BY <2>1, <2>6 DEF PageEnd, PageStart
  <2>8. QED
    BY <1>3, <2>7 DEF MapPages
<1>6. ASSUME NEW q \in Written(s) PROVE q \in first .. final
  <2>1. PICK k \in Addresses : /\ k < s.filesz \/ k < s.memsz
                               /\ q = ((v + k) % Word) \div PageSize
    BY DEF Written
  <2>2. k \in Nat /\ v + k \in Nat /\ v <= v + k /\ v + k <= last /\ v + k < Word
    BY <1>1, <2>1 DEF Addresses
  <2>3. q = (v + k) \div PageSize
    BY <1>2, <2>1, <2>2
  <2>4. first <= q /\ q <= final /\ q \in Nat
    BY <1>1, <2>2, <2>3, PagesOrdered, PageOf
  <2>5. QED
    BY <1>3, <2>4
<1>7. ASSUME NEW q \in first .. final PROVE q \in Written(s)
  <2>1. q \in Nat /\ first <= q /\ q <= final
    BY <1>3
  <2>2. \E a \in Nat : v <= a /\ a <= last /\ a \div PageSize = q
    <3>1. CASE q = first
      BY <1>1, <3>1
    <3>2. CASE q # first
      <4>1. q * PageSize \in Nat /\ q * PageSize < q * PageSize + PageSize
        BY <1>1, <2>1
      <4>2. (q * PageSize) \div PageSize = q
        BY <2>1, <4>1, PageOf
      <4>3. v < first * PageSize + PageSize /\ final * PageSize <= last
        BY <1>1, <1>3, PageOf
      <4>4. first + 1 <= q
        BY <1>3, <2>1, <3>2
      <4> HIDE DEF first, final, last, v
      <4>5. first * PageSize + PageSize <= q * PageSize /\ q * PageSize <= final * PageSize
        BY <1>1, <1>3, <2>1, <4>4
      <4>6. v <= q * PageSize /\ q * PageSize <= last
        BY <1>1, <1>3, <4>1, <4>3, <4>5
      <4>7. QED
        BY <4>1, <4>2, <4>6
    <3>3. QED
      BY <3>1, <3>2
  <2>3. PICK a \in Nat : v <= a /\ a <= last /\ a \div PageSize = q
    BY <2>2
  <2> DEFINE k == a - v
  <2>4. k \in Addresses /\ k < s.memsz /\ v + k = a /\ a % Word = a
    BY <1>1, <1>2, <2>3 DEF Addresses
  <2>5. QED
    BY <2>3, <2>4 DEF Written
<1>8. QED
  BY <1>4, <1>5, <1>6, <1>7

-----------------------------------------------------------------------------
(* Page tables *)

\* vmm_map_page keeps the types of what it writes, and the agreement of bitmap
\* and counter.
LEMMA MapPageSound ==
  ASSUME TypeOK,
         NEW u, NEW n, Sound(u, n), NEW phys \in Pages \cup Frames, NEW virt,
         NEW next, MapPage(u, n, phys, virt, next)
  PROVE  /\ Sound(used', used_blocks') /\ u \subseteq used'
         /\ dir' \in [Dirs -> Frames \cup {NoTable}]
         /\ ptab' \in [Frames -> [0 .. Span - 1 -> Pages \cup Frames \cup {NoPage}]]
         /\ pc' \in {next, "stopped"}
<1> DEFINE d == virt \div Span
           Entry == Pages \cup Frames \cup {NoPage}
           Table == [0 .. Span - 1 -> Entry]
<1>1. PICK t \in Frames :
        /\ IF NeedsTable(d)
             THEN /\ Allocates(t, u, n)
                  /\ used' = Taken(u, t)
                  /\ used_blocks' = Counted(n, t)
             ELSE t = dir[d] /\ used' = u /\ used_blocks' = n
        /\ dir' = [dir EXCEPT ![d] = t]
        /\ IF Reached(t)
             THEN /\ ptab' = [ptab EXCEPT
                                ![t] = [(IF NeedsTable(d) THEN Blank(t) ELSE @)
                                          EXCEPT ![virt % Span] = phys]]
                  /\ pc' = next
             ELSE ptab' = ptab /\ pc' = "stopped"
  BY Zenon DEF MapPage
<1>2. Sound(used', used_blocks') /\ u \subseteq used'
  BY <1>1, AllocSound
<1>3. dir' \in [Dirs -> Frames \cup {NoTable}]
  BY <1>1 DEF TypeOK
<1>4. ptab' \in [Frames -> Table]
  <2>1. CASE Reached(t)
    <3> DEFINE old == IF NeedsTable(d) THEN Blank(t) ELSE ptab[t]
    <3>1. ptab \in [Frames -> Table]
      BY DEF TypeOK
    <3>2. EmptyTable \in Table
      BY DEF EmptyTable
    <3>3. old \in Table
      BY <3>1, <3>2 DEF Blank
    <3>4. ptab' = [ptab EXCEPT ![t] = [old EXCEPT ![virt % Span] = phys]]
      BY <1>1, <2>1
    <3>5. phys \in Entry
      OBVIOUS
    <3> HIDE DEF old, Entry
    <3>6. [old EXCEPT ![virt % Span] = phys] \in Table
      BY <3>3, <3>5
    <3>7. QED
      BY <3>1, <3>4, <3>6
  <2>2. CASE ~Reached(t)
    BY <1>1, <2>2 DEF TypeOK
  <2>3. QED
    BY <2>1, <2>2
<1>5. pc' \in {next, "stopped"}
  BY <1>1
<1>6. QED
  BY <1>2, <1>3, <1>4, <1>5

\* Entering a segment, or leaving, is well typed.
LEMMA EnterSound ==
  ASSUME NEW img \in Images, NEW k \in Nat \ {0}, Enter(img, k)
  PROVE  /\ pc' \in {"load", "idle"}
         /\ at' \in 0 .. NPages + Len(BootFb)
         /\ image' \in Images \cup {<<>>}
         /\ seg' \in Nat
         /\ pc' = "load" => /\ image' \in Images /\ seg' \in 1 .. Len(image')
                            /\ Checked(image'[seg'])
<1>1. img \in Seq(Segment) /\ Len(img) \in Nat
  BY PagesAssumption
<1>2. NPages \in Nat \ {0} /\ Len(BootFb) \in Nat
  BY FramesAssumption, PagesAssumption
<1>3. CASE k <= Len(img) /\ Checked(img[k])
  <2>1. img[k] \in Segment
    BY <1>1, <1>3
  <2>2. PageStart(img[k]) \in 0 .. NPages + Len(BootFb)
    BY <2>1, <1>2, SegmentPages DEF Pages
  <2>3. QED
    BY <1>1, <1>3, <2>2 DEF Enter
<1>4. CASE ~(k <= Len(img) /\ Checked(img[k]))
  BY <1>2, <1>4 DEF Enter
<1>5. QED
  BY <1>3, <1>4

-----------------------------------------------------------------------------
(* The invariant *)

LEMMA InvInit == Init => Inv
<1> SUFFICES ASSUME Init PROVE Inv
  OBVIOUS
<1> USE FramesAssumption
<1>1. Sound(0 .. KernelEnd - 1, KernelEnd)
  <2>1. 0 .. KernelEnd - 1 \subseteq Frames
    BY DEF Frames
  <2>2. Cardinality(0 .. KernelEnd - 1) = KernelEnd
    <3>1. KernelEnd \in Nat \ {0} /\ KernelEnd - 1 \in Int /\ 0 \in Int
      OBVIOUS
    <3>2. Cardinality(0 .. KernelEnd - 1) =
            IF 0 > KernelEnd - 1 THEN 0 ELSE (KernelEnd - 1) - 0 + 1
      BY <3>1, FS_Interval, Zenon
    <3>3. QED
      BY <3>1, <3>2
  <2>3. QED
    BY <2>1, <2>2 DEF Sound
<1>2. dir_frame \in Frames /\ Allocates(dir_frame, 0 .. KernelEnd - 1, KernelEnd)
  BY DEF Init, Reserved
<1>3. Sound(used, used_blocks)
  BY <1>1, <1>2, AllocSound DEF Init, Reserved
<1>4. used \subseteq Frames /\ used_blocks \in 0 .. NFrames
  BY <1>3, SoundRange
<1>5. ptab \in [Frames -> [0 .. Span - 1 -> Pages \cup Frames \cup {NoPage}]]
  BY DEF Init, EmptyTable
<1>6. Len(BootFb) \in Nat
  BY PagesAssumption
<1>7. TypeOK
  BY <1>2, <1>4, <1>5, <1>6 DEF Init, TypeOK
<1>8. QED
  BY <1>3, <1>7 DEF Init, Inv, CounterMatches, Sound, Held, Loading, Booting

\* Every step keeps the invariant.
LEMMA InvNext == Inv /\ [Next]_vars => Inv'
<1> SUFFICES ASSUME Inv, [Next]_vars PROVE Inv'
  OBVIOUS
<1> USE DEF Inv
<1>0. Sound(used, used_blocks)
  BY DEF Sound, TypeOK, CounterMatches
<1>n. /\ NPages \in Nat \ {0} /\ Ident \in 1 .. NPages /\ Len(BootFb) \in Nat
      /\ MaxLoads \in Nat
  BY FramesAssumption, PagesAssumption
<1>1. CASE Alloc
  <2>1. PICK f \in Frames : /\ Allocates(f, used, used_blocks)
                            /\ used' = Taken(used, f)
                            /\ used_blocks' = Counted(used_blocks, f)
                            /\ held' = Taken(held, f)
    BY <1>1 DEF Alloc
  <2>2. Sound(used', used_blocks')
    BY <1>0, <2>1, AllocSound
  <2>3. used' \subseteq Frames /\ used_blocks' \in 0 .. NFrames
    BY <2>2, SoundRange
  <2>4. Held' /\ held' \subseteq Frames
    BY <2>1, <2>3 DEF Held, Taken, TypeOK
  <2>5. TypeOK'
    BY <1>1, <2>3, <2>4 DEF Alloc, TypeOK
  <2>6. QED
    BY <1>1, <2>2, <2>4, <2>5 DEF Alloc, CounterMatches, Sound, Loading, Booting
<1>2. ASSUME NEW f \in Frames, Free(f) PROVE Inv'
  <2>1. f \in used /\ IsFiniteSet(used)
    BY <1>2, FiniteFrames DEF Free, Held, TypeOK
  <2>2. Cardinality(used \ {f}) = Cardinality(used) - 1
    BY <2>1, FS_RemoveElement
  <2>3. Sound(used', used_blocks')
    BY <1>0, <1>2, <2>2 DEF Sound, Free
  <2>4. used' \subseteq Frames /\ used_blocks' \in 0 .. NFrames
    BY <2>3, SoundRange
  <2>5. ptab' \in [Frames -> [0 .. Span - 1 -> Pages \cup Frames \cup {NoPage}]]
    <3> DEFINE Entry == Pages \cup Frames \cup {NoPage}
    <3>1. 0 \in Entry
      BY FramesAssumption DEF Frames
    <3> HIDE DEF Entry
    <3>2. [i \in 0 .. Span - 1 |-> 0] \in [0 .. Span - 1 -> Entry]
      BY <3>1
    <3> USE DEF Entry
    <3>3. QED
      BY <1>2, <3>2 DEF Free, TypeOK
  <2>6. TypeOK'
    BY <1>2, <2>4, <2>5 DEF Free, TypeOK
  <2>7. Held'
    BY <1>2 DEF Free, Held
  <2>8. QED
    BY <1>2, <2>3, <2>6, <2>7 DEF Free, CounterMatches, Sound, Loading, Booting
<1>3. CASE BootIdentity
  <2>1. at \in Pages
    BY <1>3, <1>n DEF BootIdentity, Booting, Pages, TypeOK
  <2> DEFINE next == IF at + 1 < Ident THEN "identity" ELSE "framebuffer"
  <2>2. MapPage(used, used_blocks, at, at, next)
    BY <1>3 DEF BootIdentity
  <2>3. /\ Sound(used', used_blocks') /\ used \subseteq used'
        /\ dir' \in [Dirs -> Frames \cup {NoTable}]
        /\ ptab' \in [Frames -> [0 .. Span - 1 -> Pages \cup Frames \cup {NoPage}]]
        /\ pc' \in {next, "stopped"}
    BY <1>0, <2>1, <2>2, MapPageSound
  <2>4. used' \subseteq Frames /\ used_blocks' \in 0 .. NFrames
    BY <2>3, SoundRange
  <2>5. at' \in 0 .. NPages + Len(BootFb) /\ Booting'
    BY <1>3, <1>n, <2>1, <2>3 DEF BootIdentity, Booting, Pages
  <2>6. TypeOK'
    BY <1>3, <2>3, <2>4, <2>5 DEF BootIdentity, TypeOK
  <2>7. QED
    BY <1>3, <2>3, <2>5, <2>6
       DEF BootIdentity, CounterMatches, Sound, Held, Loading
<1>4. CASE BootFramebuffer
  <2>1. CASE at <= Len(BootFb)
    <3>1. at \in 1 .. Len(BootFb)
      BY <1>4, <2>1, <1>n DEF BootFramebuffer, Booting, TypeOK
    <3>2. BootFb[at] \in Pages
      BY <3>1, PagesAssumption
    <3>3. MapPage(used, used_blocks, BootFb[at], BootFb[at], "framebuffer") /\ at' = at + 1
      BY <1>4, <2>1 DEF BootFramebuffer
    <3>4. /\ Sound(used', used_blocks') /\ used \subseteq used'
          /\ dir' \in [Dirs -> Frames \cup {NoTable}]
          /\ ptab' \in [Frames -> [0 .. Span - 1 -> Pages \cup Frames \cup {NoPage}]]
          /\ pc' \in {"framebuffer", "stopped"}
      BY <1>0, <3>2, <3>3, MapPageSound
    <3>5. used' \subseteq Frames /\ used_blocks' \in 0 .. NFrames
      BY <3>4, SoundRange
    <3>6. at' \in 0 .. NPages + Len(BootFb) /\ Booting'
      BY <1>n, <3>1, <3>3, <3>4 DEF Booting
    <3>7. TypeOK'
      BY <1>4, <3>4, <3>5, <3>6 DEF BootFramebuffer, TypeOK
    <3>8. QED
      BY <1>4, <3>4, <3>6, <3>7
         DEF BootFramebuffer, CounterMatches, Sound, Held, Loading
  <2>2. CASE ~(at <= Len(BootFb))
    BY <1>4, <2>2, <1>n
       DEF BootFramebuffer, TypeOK, CounterMatches, Held, Loading, Booting
  <2>3. QED
    BY <2>1, <2>2
<1>5. ASSUME NEW p \in DevicePages, MapDevice(p) PROVE Inv'
  <2>1. p \in Pages /\ MapPage(used, used_blocks, p, p, "idle")
    BY <1>5, PagesAssumption DEF MapDevice
  <2>2. /\ Sound(used', used_blocks') /\ used \subseteq used'
        /\ dir' \in [Dirs -> Frames \cup {NoTable}]
        /\ ptab' \in [Frames -> [0 .. Span - 1 -> Pages \cup Frames \cup {NoPage}]]
        /\ pc' \in {"idle", "stopped"}
    BY <1>0, <2>1, MapPageSound
  <2>3. used' \subseteq Frames /\ used_blocks' \in 0 .. NFrames
    BY <2>2, SoundRange
  <2>4. TypeOK'
    BY <1>5, <2>2, <2>3 DEF MapDevice, TypeOK
  <2>5. QED
    BY <1>5, <2>2, <2>4
       DEF MapDevice, CounterMatches, Sound, Held, Loading, Booting
<1>6. ASSUME NEW p \in Pages, Unmap(p) PROVE Inv'
  <2>1. ptab' \in [Frames -> [0 .. Span - 1 -> Pages \cup Frames \cup {NoPage}]]
    <3> DEFINE Entry == Pages \cup Frames \cup {NoPage}
               t == dir[p \div Span]
    <3>1. ptab \in [Frames -> [0 .. Span - 1 -> Entry]] /\ NoPage \in Entry
      BY DEF TypeOK
    <3>2. ptab' = [ptab EXCEPT ![t] = [@ EXCEPT ![p % Span] = NoPage]] \/ ptab' = ptab
      BY <1>6 DEF Unmap
    <3> HIDE DEF Entry, t
    <3>3. CASE t \in Frames /\ ptab' # ptab
      <4>1. [ptab[t] EXCEPT ![p % Span] = NoPage] \in [0 .. Span - 1 -> Entry]
        BY <3>1, <3>3
      <4>2. ptab' \in [Frames -> [0 .. Span - 1 -> Entry]]
        BY <3>1, <3>2, <3>3, <4>1
      <4>3. QED
        BY <4>2 DEF Entry
    <3>4. CASE t \notin Frames \/ ptab' = ptab
      <4>1. ptab' = ptab
        BY <3>1, <3>2, <3>4
      <4>2. QED
        BY <4>1, <3>1 DEF Entry
    <3>5. QED
      BY <3>3, <3>4
  <2>2. pc' \in {"idle", "stopped"}
    BY <1>6 DEF Unmap
  <2>3. TypeOK'
    BY <1>6, <2>1, <2>2 DEF Unmap, TypeOK
  <2>4. QED
    BY <1>6, <2>2, <2>3 DEF Unmap, CounterMatches, Held, Loading, Booting
<1>7. ASSUME NEW img \in Images, Load(img) PROVE Inv'
  <2>1. /\ pc' \in {"load", "idle"}
        /\ at' \in 0 .. NPages + Len(BootFb)
        /\ image' \in Images \cup {<<>>}
        /\ seg' \in Nat
        /\ pc' = "load" => /\ image' \in Images /\ seg' \in 1 .. Len(image')
                           /\ Checked(image'[seg'])
    BY <1>7, EnterSound DEF Load
  <2>2. loads' \in 1 .. MaxLoads
    BY <1>7, <1>n DEF Load, TypeOK
  <2>3. TypeOK'
    BY <1>7, <2>1, <2>2 DEF Load, TypeOK
  <2>4. QED
    BY <1>7, <2>1, <2>2, <2>3 DEF Load, CounterMatches, Held, Loading, Booting
<1>8. CASE LoadPage
  <2>1. image \in Images /\ seg \in 1 .. Len(image) /\ pc = "load" /\ Checked(image[seg])
    BY <1>8 DEF LoadPage, Loading
  <2>2. image[seg] \in Segment
    BY <2>1, PagesAssumption
  <2>3. at \in Pages /\ at + 1 <= NPages /\ at < PageEnd(image[seg])
    BY <1>8, <1>n, <2>2, SegmentPages DEF LoadPage, Pages, TypeOK
  <2>4. PICK f \in Frames :
          /\ Allocates(f, used, used_blocks)
          /\ IF f = 0
               THEN /\ pc' = "idle" /\ at' = 0 /\ seg' = 0 /\ image' = <<>>
                    /\ UNCHANGED <<used, used_blocks, dir, ptab, content, covered>>
               ELSE /\ MapPage(Taken(used, f), Counted(used_blocks, f), f, at, "load")
                    /\ at' = at + 1
                    /\ content' = [content EXCEPT ![f] = {}]
                    /\ covered' = IF pc' = "load" THEN covered \cup {at} ELSE covered
                    /\ UNCHANGED <<seg, image>>
    BY <1>8 DEF LoadPage
  <2>5. UNCHANGED <<dir_frame, loads, held>>
    BY <1>8 DEF LoadPage
  <2>6. CASE f = 0
    <3>1. /\ pc' = "idle" /\ at' = 0 /\ seg' = 0 /\ image' = <<>>
          /\ UNCHANGED <<used, used_blocks, dir, ptab, content, covered>>
      BY <2>4, <2>6
    <3>2. at' \in 0 .. NPages + Len(BootFb)
      BY <1>n, <3>1
    <3>3. TypeOK'
      BY <2>5, <3>1, <3>2 DEF TypeOK
    <3>4. QED
      BY <2>5, <3>1, <3>3 DEF CounterMatches, Held, Loading, Booting
  <2>7. CASE f # 0
    <3>1. Sound(Taken(used, f), Counted(used_blocks, f)) /\ used \subseteq Taken(used, f)
      BY <1>0, <2>4, AllocSound
    <3>2. MapPage(Taken(used, f), Counted(used_blocks, f), f, at, "load")
      BY <2>4, <2>7
    <3>3. /\ Sound(used', used_blocks') /\ Taken(used, f) \subseteq used'
          /\ dir' \in [Dirs -> Frames \cup {NoTable}]
          /\ ptab' \in [Frames -> [0 .. Span - 1 -> Pages \cup Frames \cup {NoPage}]]
          /\ pc' \in {"load", "stopped"}
      BY <3>1, <3>2, MapPageSound
    <3>4. used' \subseteq Frames /\ used_blocks' \in 0 .. NFrames
      BY <3>3, SoundRange
    <3>5. at' \in 0 .. NPages + Len(BootFb)
      BY <1>n, <2>3, <2>4, <2>7 DEF Pages
    <3>6. content' \in [Frames -> SUBSET Data] /\ covered' \subseteq Pages
      BY <2>3, <2>4, <2>7 DEF TypeOK
    <3>7. TypeOK'
      BY <2>4, <2>5, <2>7, <3>3, <3>4, <3>5, <3>6 DEF TypeOK
    <3>8. QED
      BY <2>1, <2>4, <2>5, <2>7, <3>1, <3>3, <3>7
         DEF CounterMatches, Sound, Held, Loading, Booting
  <2>8. QED
    BY <2>6, <2>7
<1>9. CASE CopySegment
  <2>1. image \in Images /\ seg \in 1 .. Len(image) /\ loads \in 1 .. MaxLoads
    BY <1>9, <1>n DEF CopySegment, Loading, TypeOK
  <2>2. /\ pc = "load"
        /\ UNCHANGED <<used, used_blocks, dir, dir_frame, ptab, loads, held, covered>>
    BY <1>9 DEF CopySegment
  <2>3. CASE pc' = "stopped" /\ UNCHANGED <<content, at, image, seg>>
    BY <2>2, <2>3 DEF TypeOK, CounterMatches, Held, Loading, Booting
  <2>4. CASE ~(pc' = "stopped" /\ UNCHANGED <<content, at, image, seg>>)
    <3>1. Enter(image, seg + 1)
      BY <1>9, <2>4 DEF CopySegment
    <3>2. /\ pc' \in {"load", "idle"}
          /\ at' \in 0 .. NPages + Len(BootFb)
          /\ image' \in Images \cup {<<>>}
          /\ seg' \in Nat
          /\ pc' = "load" => /\ image' \in Images /\ seg' \in 1 .. Len(image')
                             /\ Checked(image'[seg'])
      <4>1. seg + 1 \in Nat \ {0}
        BY <2>1, PagesAssumption
      <4>2. QED
        BY <2>1, <3>1, <4>1, EnterSound
    <3> DEFINE bytes == IF InFile(image[seg]) THEN {<<loads, seg>>} ELSE {}
    <3>3. bytes \in SUBSET Data
      BY <2>1 DEF TypeOK, Data
    <3>4. content' = [f \in Frames |-> IF f \in Led(Written(image[seg])) THEN bytes ELSE content[f]]
      BY <1>9, <2>4 DEF CopySegment
    <3> HIDE DEF bytes
    <3>5. content' \in [Frames -> SUBSET Data]
      BY <3>3, <3>4 DEF TypeOK
    <3>6. TypeOK'
      BY <2>2, <3>2, <3>5 DEF TypeOK
    <3>7. QED
      BY <2>1, <2>2, <3>2, <3>6 DEF CounterMatches, Held, Loading, Booting
  <2>5. QED
    BY <2>3, <2>4
<1>11. ASSUME NEW p \in Heap, HeapWrite(p) PROVE Inv'
  <2>1. /\ pc \in {"idle", "load"} /\ pc' \in {pc, "stopped"}
        /\ UNCHANGED <<used, used_blocks, dir, dir_frame, ptab, at, image, seg, loads,
                       held, covered>>
    BY <1>11 DEF HeapWrite
  <2>2. content' \in [Frames -> SUBSET Data]
    <3>1. HeapData \in Data
      BY DEF Data
    <3>2. \/ content' = content
          \/ content' = [f \in Frames |-> IF f = Phys(p) THEN content[f] \cup {HeapData}
                                          ELSE content[f]]
      BY <1>11 DEF HeapWrite
    <3>3. QED
      BY <3>1, <3>2 DEF TypeOK
  <2>3. TypeOK'
    BY <2>1, <2>2 DEF TypeOK
  <2>4. QED
    BY <2>1, <2>3 DEF CounterMatches, Held, Loading, Booting
<1>10. CASE UNCHANGED vars
  BY <1>10 DEF vars, TypeOK, CounterMatches, Held, Loading, Booting
<1>12. QED
  BY <1>1, <1>2, <1>3, <1>4, <1>5, <1>6, <1>7, <1>8, <1>9, <1>10, <1>11 DEF Next

\* The invariant of the whole memory: frames, tables and loads keep their types
\* and the counter agrees with the bitmap.
THEOREM Invariance == Spec => []Inv
<1>1. Init => Inv
  BY InvInit
<1>2. Inv /\ [Next]_vars => Inv'
  BY InvNext
<1>3. QED
  BY <1>1, <1>2, PTL DEF Spec

\* The types of the bitmap, the tables and the loader's position.
THEOREM TypeCorrect == Spec => []TypeOK
<1>1. Inv => TypeOK
  BY DEF Inv
<1>2. QED
  BY <1>1, Invariance, PTL

\* pmm_used_blocks is the number of bits set, whatever is allocated, freed,
\* mapped and loaded, in memory of any size.
THEOREM CounterMatchesHolds == Spec => []CounterMatches
<1>1. Inv => CounterMatches
  BY DEF Inv
<1>2. QED
  BY <1>1, Invariance, PTL

-----------------------------------------------------------------------------
(* Frames and translations *)

\* The frames of the directory and of the tables have that use only.
TablesApart ==
  /\ 0 \in used /\ dir_frame \in used \ {0}
  /\ \A f \in held : f \notin {0, dir_frame}
  /\ \A d \in Dirs : dir[d] \in Frames \ {0} =>
       /\ dir[d] \in used \ held /\ dir[d] # dir_frame
       /\ \A e \in Dirs : dir[e] = dir[d] => e = d

\* The frame has no use but as memory of a program.
Private(f) == f \in used \ held /\ f \notin {0, dir_frame} /\ \A d \in Dirs : dir[d] # f

MemoryPrivate == \A p \in covered : \A f \in Frames : Phys(p) = f => Private(f)

MemoryOnce ==
  ~SharedTable =>
    \A p, q \in covered : Phys(p) \in Frames /\ Phys(p) = Phys(q) => p = q

\* Before the boot is over nobody else has memory.
AtBoot == pc \in {"identity", "framebuffer"} => held = {} /\ covered = {}

\* The pages that are mapped to themselves so far, and the others.
Mapped == IF pc = "identity" THEN at ELSE Ident
Devices == DevicePages \cup {BootFb[i] : i \in DOMAIN BootFb}
AsAsked(p) ==
  \/ p < Mapped /\ Phys(p) = p
  \/ p \in Devices /\ Phys(p) = p
  \/ p >= Mapped /\ Phys(p) = NoPage
  \/ SharedTable /\ dir[p \div Span] = 0

\* The page leads to the bytes of segment k.
Filled(p, k) == p \in covered /\ Holds(loads, k, p)

\* The headers of the program are as they should be.
SoundHeaders == \A k \in DOMAIN image : WellFormed(image[k])

\* What elf_load has done so far.
LoadSoFar ==
  pc = "load" /\ ~SharedTable /\ SoundHeaders =>
    /\ \A p \in MapPages(image[seg]) : p < at => p \in covered /\ Phys(p) \in Frames
    /\ \A k \in 1 .. seg - 1 : \A p \in MapPages(image[k]) :
         \/ \E j \in k + 1 .. seg - 1 : p \in MapPages(image[j])
         \/ p \in MapPages(image[seg]) /\ p < at
         \/ Filled(p, k)

Behind == pc = "load" => at >= PageStart(image[seg])

FInv ==
  pc # "stopped" =>
    /\ TablesApart
    /\ MemoryPrivate /\ MemoryOnce
    /\ AtBoot
    /\ \A p \in Pages \ covered : AsAsked(p)
    /\ Behind /\ LoadSoFar

-----------------------------------------------------------------------------
(* Pages and page tables *)

\* A page has an entry in one table, and no other page has it.
LEMMA EntryOf ==
  ASSUME NEW p \in Pages
  PROVE  /\ p \div Span \in Dirs /\ p % Span \in 0 .. Span - 1
         /\ \A q \in Pages : p \div Span = q \div Span /\ p % Span = q % Span => p = q
<1>1. p \div Span \in Dirs
  BY FramesAssumption DEF Pages, Dirs
<1>2. p % Span \in 0 .. Span - 1
  BY FramesAssumption DEF Pages
<1>3. ASSUME NEW q \in Pages, p \div Span = q \div Span, p % Span = q % Span
      PROVE  p = q
  BY <1>3, FramesAssumption DEF Pages
<1>4. QED
  BY <1>1, <1>2, <1>3

\* vmm_map_page takes the table that is there, or a new one, or frame 0.
LEMMA MapPageTable ==
  ASSUME NEW u, NEW n, NEW phys, NEW virt, NEW next,
         MapPage(u, n, phys, virt, next), pc' # "stopped"
  PROVE  \E t \in Frames :
           /\ dir' = [dir EXCEPT ![virt \div Span] = t]
           /\ \/ dir[virt \div Span] = t /\ dir[virt \div Span] # NoTable /\ used' = u
              \/ dir[virt \div Span] = NoTable /\ t # 0 /\ t \notin u /\ used' = u \cup {t}
              \/ dir[virt \div Span] = NoTable /\ t = 0 /\ used' = u
           /\ ptab' = [ptab EXCEPT ![t] =
                         [(IF dir[virt \div Span] = NoTable THEN EmptyTable ELSE ptab[t])
                            EXCEPT ![virt % Span] = phys]]
           /\ pc' = next
<1> DEFINE d == virt \div Span
<1>1. PICK t \in Frames :
        /\ IF NeedsTable(d)
             THEN /\ Allocates(t, u, n)
                  /\ used' = Taken(u, t)
                  /\ used_blocks' = Counted(n, t)
             ELSE t = dir[d] /\ used' = u /\ used_blocks' = n
        /\ dir' = [dir EXCEPT ![d] = t]
        /\ IF Reached(t)
             THEN /\ ptab' = [ptab EXCEPT
                                ![t] = [(IF NeedsTable(d) THEN Blank(t) ELSE @)
                                          EXCEPT ![virt % Span] = phys]]
                  /\ pc' = next
             ELSE ptab' = ptab /\ pc' = "stopped"
  BY Zenon DEF MapPage
<1>2. Reached(t)
  BY <1>1
<1>3. ptab' = [ptab EXCEPT ![t] = [(IF dir[d] = NoTable THEN EmptyTable ELSE ptab[t])
                                     EXCEPT ![virt % Span] = phys]]
      /\ pc' = next
  BY <1>1, <1>2 DEF NeedsTable, Blank
<1>4. \/ dir[d] = t /\ dir[d] # NoTable /\ used' = u
      \/ dir[d] = NoTable /\ t # 0 /\ t \notin u /\ used' = u \cup {t}
      \/ dir[d] = NoTable /\ t = 0 /\ used' = u
  BY <1>1 DEF NeedsTable, Allocates, Taken
<1>5. QED
  BY <1>1, <1>3, <1>4

\* vmm_map_page changes what the page leads to; what another page leads to it
\* changes only if both have the table at frame 0.
LEMMA MapPagePhys ==
  ASSUME TypeOK, TablesApart,
         NEW u, used \subseteq u, NEW n, NEW phys, NEW virt \in Pages, NEW next,
         MapPage(u, n, phys, virt, next), pc' # "stopped"
  PROVE  /\ Phys(virt)' = phys
         /\ \A p \in Pages \ {virt} :
              /\ Phys(p)' \in {Phys(p), NoPage, phys}
              /\ Phys(p)' = Phys(p) \/ (SharedTable' /\ dir'[p \div Span] = 0)
         /\ SharedTable => SharedTable'
         /\ \A d \in Dirs : dir[d] = 0 => dir'[d] = 0
<1> DEFINE d == virt \div Span
           i == virt % Span
<1>1. PICK t \in Frames :
           /\ dir' = [dir EXCEPT ![d] = t]
           /\ \/ dir[d] = t /\ dir[d] # NoTable /\ used' = u
              \/ dir[d] = NoTable /\ t # 0 /\ t \notin u /\ used' = u \cup {t}
              \/ dir[d] = NoTable /\ t = 0 /\ used' = u
           /\ ptab' = [ptab EXCEPT ![t] =
                         [(IF dir[d] = NoTable THEN EmptyTable ELSE ptab[t]) EXCEPT ![i] = phys]]
  BY MapPageTable
<1>2. d \in Dirs /\ i \in 0 .. Span - 1
  BY EntryOf
<1> DEFINE old == IF dir[d] = NoTable THEN EmptyTable ELSE ptab[t]
<1>3. /\ DOMAIN dir = Dirs /\ DOMAIN ptab = Frames /\ DOMAIN old = 0 .. Span - 1
      /\ \A e \in Dirs : dir[e] \in Frames \cup {NoTable}
  BY <1>1 DEF TypeOK, EmptyTable
<1>4. /\ ptab'[t] = [old EXCEPT ![i] = phys]
      /\ \A f \in Frames \ {t} : ptab'[f] = ptab[f]
      /\ dir'[d] = t /\ \A e \in Dirs \ {d} : dir'[e] = dir[e]
  BY <1>1, <1>2, <1>3
<1>5. t # NoTable
  BY <1>1, SentinelAssumption
<1>6. Phys(virt)' = phys
  <2>1. Phys(virt)' = ptab'[t][i]
    BY <1>4, <1>5 DEF Phys
  <2> HIDE DEF old, i
  <2>2. QED
    BY <1>2, <1>3, <1>4, <2>1
<1>7. \A e \in Dirs : dir[e] = 0 => dir'[e] = 0
  <2>1. 0 # NoTable
    BY SentinelAssumption, FramesAssumption DEF Frames
  <2>2. QED
    BY <1>1, <1>2, <1>4, <2>1
<1>8. SharedTable => SharedTable'
  BY <1>7 DEF SharedTable
<1>9. ASSUME NEW p \in Pages \ {virt}
      PROVE  /\ Phys(p)' \in {Phys(p), NoPage, phys}
             /\ Phys(p)' = Phys(p) \/ (SharedTable' /\ dir'[p \div Span] = 0)
  <2> DEFINE e == p \div Span
             j == p % Span
  <2>1. e \in Dirs /\ j \in 0 .. Span - 1 /\ (e = d => j # i)
    BY EntryOf
  <2>2. Phys(p) = IF dir[e] = NoTable THEN NoPage ELSE ptab[dir[e]][j]
    BY DEF Phys
  <2>3. Phys(p)' = IF dir'[e] = NoTable THEN NoPage ELSE ptab'[dir'[e]][j]
    BY DEF Phys
  <2>4. \A k \in 0 .. Span - 1 : EmptyTable[k] = NoPage
    BY DEF EmptyTable
  <2>5. CASE e = d
    <3>1. Phys(p)' = old[j]
      <4> HIDE DEF old, i, d, e, j
      <4>1. ptab'[t][j] = old[j]
        BY <1>2, <1>3, <1>4, <2>1, <2>5
      <4>2. QED
        BY <1>4, <1>5, <2>3, <2>5, <4>1
    <3>2. old[j] = Phys(p)
      <4>1. CASE dir[d] = NoTable
        BY <4>1, <2>1, <2>2, <2>4, <2>5
      <4>2. CASE dir[d] # NoTable
        BY <1>1, <4>2, <2>2, <2>5
      <4>3. QED
        BY <4>1, <4>2
    <3>3. QED
      BY <3>1, <3>2
  <2>6. CASE e # d /\ dir[e] = t
    <3>1. t = 0
      <4>1. ASSUME t # 0 PROVE FALSE
        <5>1. dir[e] \in used /\ (dir[d] = dir[e] => d = e)
          BY <1>2, <2>1, <2>6, <4>1 DEF TablesApart
        <5>2. QED
          BY <1>1, <2>6, <4>1, <5>1
      <4>2. QED
        BY <4>1
    <3>2. SharedTable' /\ dir'[e] = 0
      BY <1>2, <1>4, <2>1, <2>6, <3>1 DEF SharedTable
    <3>3. Phys(p)' = [old EXCEPT ![i] = phys][j]
      BY <1>4, <1>5, <2>1, <2>3, <2>6
    <3>4. Phys(p)' = old[j] \/ Phys(p)' = phys
      <4> HIDE DEF old, i, j
      <4>1. QED
        BY <1>2, <1>3, <2>1, <3>3
    <3>5. old[j] \in {NoPage, Phys(p)}
      BY <1>5, <2>1, <2>2, <2>4, <2>6
    <3>6. QED
      BY <3>2, <3>4, <3>5
  <2>7. CASE e # d /\ dir[e] # t
    <3>1. dir'[e] = dir[e]
      BY <1>4, <2>1, <2>7
    <3>2. dir[e] # NoTable => ptab'[dir[e]] = ptab[dir[e]]
      BY <1>3, <1>4, <2>1, <2>7
    <3>3. QED
      BY <2>2, <2>3, <3>1, <3>2
  <2>8. QED
    BY <2>5, <2>6, <2>7
<1>10. QED
  BY <1>6, <1>7, <1>8, <1>9

\* The table that vmm_map_page takes has no other use; nor does a frame in use
\* lose its use by that.
LEMMA TablesApartMap ==
  ASSUME TypeOK, Held, TablesApart,
         NEW u, used \subseteq u, NEW n, NEW phys, NEW virt \in Pages, NEW next,
         MapPage(u, n, phys, virt, next), pc' # "stopped", UNCHANGED <<dir_frame, held>>
  PROVE  /\ TablesApart' /\ u \subseteq used'
         /\ \A f \in u \ held : /\ f \notin {0, dir_frame} /\ \A d \in Dirs : dir[d] # f
                                => Private(f)'
<1> DEFINE d == virt \div Span
<1>1. PICK t \in Frames :
           /\ dir' = [dir EXCEPT ![d] = t]
           /\ \/ dir[d] = t /\ dir[d] # NoTable /\ used' = u
              \/ dir[d] = NoTable /\ t # 0 /\ t \notin u /\ used' = u \cup {t}
              \/ dir[d] = NoTable /\ t = 0 /\ used' = u
  BY MapPageTable
<1>2. d \in Dirs
  BY EntryOf
<1> HIDE DEF d
<1>3. dir'[d] = t /\ \A e \in Dirs \ {d} : dir'[e] = dir[e]
  BY <1>1, <1>2 DEF TypeOK
<1>4. u \subseteq used' /\ used \subseteq used'
  BY <1>1
<1>5. TablesApart'
  <2>1. 0 \in used' /\ dir_frame' \in used' \ {0} /\ \A f \in held' : f \notin {0, dir_frame'}
    BY <1>4 DEF TablesApart
  <2>2. ASSUME NEW e \in Dirs, dir'[e] \in Frames \ {0}
        PROVE  /\ dir'[e] \in used' \ held' /\ dir'[e] # dir_frame'
               /\ \A c \in Dirs : dir'[c] = dir'[e] => c = e
    <3>1. CASE dir[d] = t
      <4>1. \A c \in Dirs : dir'[c] = dir[c]
        BY <1>2, <1>3, <3>1
      <4>2. QED
        BY <1>4, <2>2, <4>1 DEF TablesApart
    <3>2. CASE dir[d] = NoTable /\ t # 0 /\ t \notin u /\ used' = u \cup {t}
      <4>1. t \notin used /\ t \notin held /\ t # dir_frame
        BY <3>2 DEF TablesApart, Held
      <4>2. \A c \in Dirs \ {d} : dir'[c] # t
        BY <1>1, <1>3, <3>2, <4>1 DEF TablesApart
      <4>3. CASE e = d
        BY <1>3, <3>2, <4>1, <4>2, <4>3
      <4>4. CASE e # d
        <5>1. dir'[e] = dir[e] /\ dir[e] \in Frames \ {0} /\ dir[e] # t
          BY <1>3, <2>2, <4>2, <4>4
        <5>2. /\ dir[e] \in used \ held /\ dir[e] # dir_frame
              /\ \A c \in Dirs : dir[c] = dir[e] => c = e
          BY <5>1 DEF TablesApart
        <5>3. QED
          BY <1>3, <1>4, <5>1, <5>2
      <4>5. QED
        BY <4>3, <4>4
    <3>3. CASE t = 0
      <4>1. e # d /\ dir'[e] = dir[e]
        BY <1>3, <2>2, <3>3
      <4>2. /\ dir[e] \in used \ held /\ dir[e] # dir_frame
            /\ \A c \in Dirs : dir[c] = dir[e] => c = e
        BY <2>2, <4>1 DEF TablesApart
      <4>3. QED
        BY <1>3, <1>4, <2>2, <3>3, <4>1, <4>2
    <3>4. QED
      BY <1>1, <3>1, <3>2, <3>3
  <2>3. QED
    BY <2>1, <2>2 DEF TablesApart
<1>6. ASSUME NEW f \in u \ held, f \notin {0, dir_frame}, \A e \in Dirs : dir[e] # f
      PROVE  Private(f)'
  <2>1. t # f
    BY <1>1, <1>2, <1>6
  <2>2. \A e \in Dirs : dir'[e] # f
    BY <1>3, <1>6, <2>1
  <2>3. QED
    BY <1>4, <1>6, <2>2 DEF Private
<1>7. QED
  BY <1>4, <1>5, <1>6

\* A call of vmm_map_page for a page of a device, or during the boot: no program
\* gets a frame by it.
LEMMA DeviceMapped ==
  ASSUME Inv, FInv, pc # "stopped", pc' # "stopped",
         NEW virt \in Pages, NEW next, virt \notin Frames \/ covered = {},
         MapPage(used, used_blocks, virt, virt, next),
         UNCHANGED <<dir_frame, held, covered>>
  PROVE  /\ TablesApart' /\ MemoryPrivate' /\ MemoryOnce'
         /\ Phys(virt)' = virt
         /\ \A p \in Pages \ {virt} :
              Phys(p)' = Phys(p) \/ (SharedTable' /\ dir'[p \div Span] = 0)
         /\ SharedTable => SharedTable'
         /\ \A d \in Dirs : dir[d] = 0 => dir'[d] = 0
<1>1. TypeOK /\ Held /\ TablesApart /\ MemoryPrivate /\ MemoryOnce
  BY DEF Inv, FInv
<1>2. /\ Phys(virt)' = virt
      /\ \A p \in Pages \ {virt} :
           /\ Phys(p)' \in {Phys(p), NoPage, virt}
           /\ Phys(p)' = Phys(p) \/ (SharedTable' /\ dir'[p \div Span] = 0)
      /\ SharedTable => SharedTable'
      /\ \A d \in Dirs : dir[d] = 0 => dir'[d] = 0
  BY <1>1, MapPagePhys
<1>3. /\ TablesApart'
      /\ \A f \in used \ held : /\ f \notin {0, dir_frame} /\ \A d \in Dirs : dir[d] # f
                                => Private(f)'
  BY <1>1, TablesApartMap
<1>4. ASSUME NEW p \in covered, Phys(p)' \in Frames
      PROVE  Phys(p)' = Phys(p)
  <2>1. p \in Pages /\ virt \notin Frames
    BY <1>1, <1>4 DEF TypeOK
  <2>2. NoPage \notin Frames
    BY SentinelAssumption
  <2>3. QED
    BY <1>2, <1>4, <2>1, <2>2
<1>5. MemoryPrivate'
  <2> SUFFICES ASSUME NEW p \in covered, NEW f \in Frames, Phys(p)' = f
               PROVE  Private(f)'
    BY DEF MemoryPrivate
  <2>1. Private(f)
    BY <1>1, <1>4 DEF MemoryPrivate
  <2>2. QED
    BY <1>3, <2>1 DEF Private
<1>6. MemoryOnce'
  <2>1. ASSUME ~SharedTable', NEW p \in covered, NEW q \in covered,
               Phys(p)' \in Frames, Phys(p)' = Phys(q)'
        PROVE  p = q
    <3>1. Phys(p)' = Phys(p) /\ Phys(q)' = Phys(q)
      BY <1>4, <2>1
    <3>2. QED
      BY <1>1, <1>2, <2>1, <3>1 DEF MemoryOnce
  <2>2. QED
    BY <2>1 DEF MemoryOnce
<1>7. QED
  BY <1>2, <1>3, <1>5, <1>6

\* A page goes on to lead where it should.
LEMMA AskedKept ==
  ASSUME NEW p \in Pages, AsAsked(p), Mapped' = Mapped,
         Phys(p)' = Phys(p) \/ (SharedTable' /\ dir'[p \div Span] = 0),
         SharedTable => SharedTable', \A d \in Dirs : dir[d] = 0 => dir'[d] = 0
  PROVE  AsAsked(p)'
<1>1. p \div Span \in Dirs
  BY EntryOf
<1>2. CASE Phys(p)' = Phys(p)
  BY <1>1, <1>2 DEF AsAsked
<1>3. CASE SharedTable' /\ dir'[p \div Span] = 0
  BY <1>3 DEF AsAsked
<1>4. QED
  BY <1>2, <1>3

\* Steps that leave bitmap and tables alone.
LEMMA Quiet ==
  ASSUME FInv, pc # "stopped", UNCHANGED <<used, dir, dir_frame, ptab, held, covered>>
  PROVE  /\ TablesApart' /\ MemoryPrivate' /\ MemoryOnce'
         /\ \A p : Phys(p)' = Phys(p)
         /\ SharedTable' <=> SharedTable
<1>1. \A p : Phys(p)' = Phys(p)
  BY DEF Phys
<1>2. SharedTable' <=> SharedTable
  BY DEF SharedTable
<1>3. TablesApart'
  BY DEF FInv, TablesApart
<1>4. \A f : Private(f)' <=> Private(f)
  BY DEF Private
<1>5. MemoryPrivate' /\ MemoryOnce'
  BY <1>1, <1>2, <1>4 DEF FInv, MemoryPrivate, MemoryOnce
<1>6. QED
  BY <1>1, <1>2, <1>3, <1>5

-----------------------------------------------------------------------------
(* The actions *)

\* The boot begins with a frame for the directory, if there is one.
LEMMA FramesInit ==
  ASSUME KernelEnd \in Scanned, Init PROVE FInv
<1>1. KernelEnd \in Nat \ {0} /\ KernelEnd # NFrames /\ KernelEnd \notin Reserved
  <2>1. Scanned \subseteq Frames
    BY FramesAssumption DEF Scanned, Frames
  <2>2. KernelEnd \in Nat \ {0}
    BY FramesAssumption
  <2>3. QED
    BY <2>1, <2>2, FramesAssumption DEF Frames, Reserved
<1>2. dir_frame \in Scanned \ Reserved
  BY <1>1 DEF Init, Allocates
<1>3. 0 \in Reserved
  BY <1>1 DEF Reserved
<1>4. \A d \in Dirs : dir[d] = NoTable
  BY DEF Init
<1>5. TablesApart
  <2>1. 0 \in used /\ dir_frame \in used \ {0}
    BY <1>2, <1>3 DEF Init, Taken
  <2>2. QED
    BY <1>4, <2>1, SentinelAssumption DEF Init, TablesApart
<1>6. ASSUME NEW p \in Pages PROVE AsAsked(p)
  <2>1. Phys(p) = NoPage
    BY <1>4, EntryOf DEF Phys
  <2>2. p >= Mapped
    BY DEF Init, Mapped, Pages
  <2>3. QED
    BY <2>1, <2>2 DEF AsAsked
<1>7. QED
  BY <1>5, <1>6
     DEF Init, FInv, MemoryPrivate, MemoryOnce, AtBoot, Behind, LoadSoFar

\* Others take and give back frames.
LEMMA AllocFrames ==
  ASSUME Inv, FInv, pc # "stopped", Alloc PROVE FInv'
<1>1. TypeOK /\ TablesApart /\ MemoryPrivate /\ MemoryOnce
  BY DEF Inv, FInv
<1>2. pc = "idle" /\ pc' = "idle" /\ UNCHANGED <<dir, dir_frame, ptab, at, covered>>
  BY DEF Alloc
<1>3. PICK f \in Frames : /\ Allocates(f, used, used_blocks)
                          /\ used' = Taken(used, f) /\ held' = Taken(held, f)
  BY DEF Alloc
<1>4. /\ \A p : Phys(p)' = Phys(p)
      /\ SharedTable' <=> SharedTable
  BY <1>2 DEF Phys, SharedTable
<1>5. TablesApart' /\ \A g : Private(g) => Private(g)'
  <2>1. CASE f = 0
    BY <1>1, <1>2, <1>3, <2>1 DEF Taken, TablesApart, Private
  <2>2. CASE f # 0
    <3>1. f \notin used
      BY <1>3, <2>2 DEF Allocates
    <3>2. QED
      BY <1>1, <1>2, <1>3, <2>2, <3>1 DEF Taken, TablesApart, Private
  <2>3. QED
    BY <2>1, <2>2
<1>6. MemoryPrivate' /\ MemoryOnce'
  BY <1>1, <1>2, <1>4, <1>5 DEF MemoryPrivate, MemoryOnce
<1>7. ASSUME NEW p \in Pages \ covered PROVE AsAsked(p)'
  BY <1>2, <1>4, AskedKept DEF FInv, Mapped
<1>8. QED
  BY <1>2, <1>5, <1>6, <1>7 DEF FInv, AtBoot, Behind, LoadSoFar

\* A frame given back is no table.
LEMMA FreeFrames ==
  ASSUME Inv, FInv, pc # "stopped", NEW f \in Frames, Free(f) PROVE FInv'
<1>1. TypeOK /\ TablesApart /\ MemoryPrivate /\ MemoryOnce
  BY DEF Inv, FInv
<1>2. /\ pc = "idle" /\ pc' = "idle" /\ UNCHANGED <<dir, dir_frame, at, covered>>
      /\ f \in held /\ held' = held \ {f} /\ used' = used \ {f}
  BY DEF Free
<1>3. \A d \in Dirs : dir[d] # NoTable => dir[d] # f /\ ptab'[dir[d]] = ptab[dir[d]]
  <2> SUFFICES ASSUME NEW d \in Dirs, dir[d] # NoTable
               PROVE  dir[d] # f /\ ptab'[dir[d]] = ptab[dir[d]]
    OBVIOUS
  <2>1. dir[d] \in Frames
    BY <1>1 DEF TypeOK
  <2>2. dir[d] # f
    BY <1>1, <1>2, <2>1 DEF TablesApart
  <2>3. QED
    BY <1>1, <2>1, <2>2 DEF Free, TypeOK
<1>4. /\ \A p \in Pages : Phys(p)' = Phys(p)
      /\ SharedTable' <=> SharedTable
  BY <1>2, <1>3, EntryOf DEF Phys, SharedTable
<1>5. TablesApart' /\ \A g : Private(g) => Private(g)'
  BY <1>1, <1>2 DEF TablesApart, Private
<1>6. covered \subseteq Pages
  BY <1>1 DEF TypeOK
<1>7. MemoryPrivate' /\ MemoryOnce'
  BY <1>1, <1>2, <1>4, <1>5, <1>6 DEF MemoryPrivate, MemoryOnce
<1>8. ASSUME NEW p \in Pages \ covered PROVE AsAsked(p)'
  BY <1>2, <1>4, AskedKept DEF FInv, Mapped
<1>9. QED
  BY <1>2, <1>5, <1>7, <1>8 DEF FInv, AtBoot, Behind, LoadSoFar

\* The boot maps the kernel's pages to themselves ...
LEMMA IdentityFrames ==
  ASSUME Inv, FInv, pc # "stopped", pc' # "stopped", BootIdentity PROVE FInv'
<1> DEFINE next == IF at + 1 < Ident THEN "identity" ELSE "framebuffer"
<1>1. /\ pc = "identity" /\ MapPage(used, used_blocks, at, at, next)
      /\ UNCHANGED <<dir_frame, held, covered>> /\ covered = {} /\ held = {}
  BY DEF BootIdentity, FInv, AtBoot
<1>2. at \in Pages /\ at \in Nat /\ at < Ident /\ Ident \in Nat
  BY <1>1, FramesAssumption DEF Inv, TypeOK, Booting, Pages
<1>3. pc' = next
  BY <1>1, MapPageTable
<1>4. Mapped = at /\ Mapped' = at + 1
  BY <1>1, <1>2, <1>3 DEF BootIdentity, Mapped
<1>5. PICK page \in Pages : page = at
  BY <1>2
<1>6. MapPage(used, used_blocks, page, page, next)
  BY <1>1, <1>5
<1>7. /\ TablesApart' /\ MemoryPrivate' /\ MemoryOnce'
      /\ Phys(page)' = page
      /\ \A p \in Pages \ {page} :
           Phys(p)' = Phys(p) \/ (SharedTable' /\ dir'[p \div Span] = 0)
      /\ SharedTable => SharedTable'
      /\ \A d \in Dirs : dir[d] = 0 => dir'[d] = 0
  BY <1>1, <1>6, DeviceMapped
<1>8. ASSUME NEW p \in Pages PROVE AsAsked(p)'
  <2>1. p \in Nat /\ p \div Span \in Dirs
    BY EntryOf DEF Pages
  <2>2. CASE p = page
    BY <1>2, <1>4, <1>5, <1>7, <2>2 DEF AsAsked
  <2>3. CASE p # page
    <3>1. AsAsked(p)
      BY <1>1 DEF FInv
    <3>2. Phys(p)' = Phys(p) \/ (SharedTable' /\ dir'[p \div Span] = 0)
      BY <1>7, <2>3
    <3>3. QED
      BY <1>2, <1>4, <1>5, <1>7, <2>1, <2>3, <3>1, <3>2 DEF AsAsked
  <2>4. QED
    BY <2>2, <2>3
<1>9. QED
  BY <1>1, <1>3, <1>7, <1>8 DEF FInv, AtBoot, Behind, LoadSoFar

\* ... and the frame buffer's.
LEMMA FramebufferFrames ==
  ASSUME Inv, FInv, pc # "stopped", pc' # "stopped", BootFramebuffer PROVE FInv'
<1>1. /\ pc = "framebuffer" /\ UNCHANGED <<dir_frame, held, covered>>
      /\ covered = {} /\ held = {}
  BY DEF BootFramebuffer, FInv, AtBoot
<1>2. CASE at <= Len(BootFb)
  <2>1. at \in DOMAIN BootFb
    BY <1>1, <1>2, PagesAssumption DEF Inv, TypeOK, Booting
  <2>2. PICK page \in Pages \ Frames : page = BootFb[at]
    BY <2>1, PagesAssumption
  <2>3. page \in Devices
    BY <2>1, <2>2 DEF Devices
  <2>4. MapPage(used, used_blocks, page, page, "framebuffer")
    BY <1>2, <2>2 DEF BootFramebuffer
  <2>5. pc' = "framebuffer"
    BY <2>4, MapPageTable
  <2>6. /\ TablesApart' /\ MemoryPrivate' /\ MemoryOnce'
        /\ Phys(page)' = page
        /\ \A p \in Pages \ {page} :
             Phys(p)' = Phys(p) \/ (SharedTable' /\ dir'[p \div Span] = 0)
        /\ SharedTable => SharedTable'
        /\ \A d \in Dirs : dir[d] = 0 => dir'[d] = 0
    BY <1>1, <2>4, DeviceMapped
  <2>7. ASSUME NEW p \in Pages PROVE AsAsked(p)'
    <3>1. CASE p = page
      BY <2>3, <2>6, <3>1 DEF AsAsked, Devices
    <3>2. CASE p # page
      <4>1. Mapped' = Mapped /\ AsAsked(p)
        BY <1>1, <2>5 DEF Mapped, FInv
      <4>2. QED
        BY <2>6, <3>2, <4>1, AskedKept
    <3>3. QED
      BY <3>1, <3>2
  <2>8. QED
    BY <1>1, <2>5, <2>6, <2>7 DEF FInv, AtBoot, Behind, LoadSoFar
<1>3. CASE ~(at <= Len(BootFb))
  <2>1. pc' = "idle" /\ UNCHANGED <<used, dir, ptab>>
    BY <1>3 DEF BootFramebuffer
  <2>2. /\ TablesApart' /\ MemoryPrivate' /\ MemoryOnce'
        /\ \A p : Phys(p)' = Phys(p)
        /\ SharedTable' <=> SharedTable
    BY <1>1, <2>1, Quiet
  <2>3. ASSUME NEW p \in Pages PROVE AsAsked(p)'
    <3>1. Mapped' = Mapped /\ AsAsked(p)
      BY <1>1, <2>1 DEF Mapped, FInv
    <3>2. QED
      BY <2>1, <2>2, <3>1, AskedKept
  <2>4. QED
    BY <1>1, <2>1, <2>2, <2>3 DEF FInv, AtBoot, Behind, LoadSoFar
<1>4. QED
  BY <1>2, <1>3

\* A page of a device is mapped.
LEMMA DeviceFrames ==
  ASSUME Inv, FInv, pc # "stopped", pc' # "stopped", NEW page \in DevicePages, MapDevice(page)
  PROVE  FInv'
<1>1. /\ page \in Pages \ Frames /\ page \in Devices
      /\ pc = "idle" /\ MapPage(used, used_blocks, page, page, "idle")
      /\ UNCHANGED <<dir_frame, at, held, covered>>
  BY PagesAssumption DEF MapDevice, Devices
<1>2. pc' = "idle"
  BY <1>1, MapPageTable
<1>3. /\ TablesApart' /\ MemoryPrivate' /\ MemoryOnce'
      /\ Phys(page)' = page
      /\ \A p \in Pages \ {page} :
           Phys(p)' = Phys(p) \/ (SharedTable' /\ dir'[p \div Span] = 0)
      /\ SharedTable => SharedTable'
      /\ \A d \in Dirs : dir[d] = 0 => dir'[d] = 0
  BY <1>1, DeviceMapped
<1>4. ASSUME NEW p \in Pages \ covered PROVE AsAsked(p)'
  <2>1. CASE p = page
    BY <1>1, <1>3, <2>1 DEF AsAsked, Devices
  <2>2. CASE p # page
    <3>1. Mapped' = Mapped /\ AsAsked(p)
      BY <1>1, <1>2 DEF Mapped, FInv
    <3>2. QED
      BY <1>3, <2>2, <3>1, AskedKept
  <2>3. QED
    BY <2>1, <2>2
<1>5. QED
  BY <1>1, <1>2, <1>3, <1>4 DEF FInv, AtBoot, Behind, LoadSoFar

\* A page is unmapped: no other page notices but through a shared table.
LEMMA UnmapFrames ==
  ASSUME Inv, FInv, pc # "stopped", pc' # "stopped", NEW page \in Pages, Unmap(page)
  PROVE  FInv'
<1> DEFINE t == dir[page \div Span]
<1>1. TypeOK /\ TablesApart /\ MemoryPrivate /\ MemoryOnce
  BY DEF Inv, FInv
<1>2. /\ pc = "idle" /\ pc' = "idle" /\ page \in covered /\ t # NoTable
      /\ UNCHANGED <<used, dir, dir_frame, at, held, covered>>
      /\ ptab' = [ptab EXCEPT ![t][page % Span] = NoPage]
  BY DEF Unmap
<1>3. SharedTable' <=> SharedTable
  BY <1>2 DEF SharedTable
<1>4. ASSUME NEW p \in Pages
      PROVE  /\ Phys(p)' \in {Phys(p), NoPage}
             /\ p # page => Phys(p)' = Phys(p) \/ (SharedTable' /\ dir'[p \div Span] = 0)
  <2> DEFINE e == p \div Span
             j == p % Span
             i == page % Span
  <2>1. /\ e \in Dirs /\ page \div Span \in Dirs
        /\ j \in 0 .. Span - 1 /\ i \in 0 .. Span - 1
        /\ e = page \div Span /\ j = i => p = page
    BY EntryOf
  <2>2. Phys(p) = IF dir[e] = NoTable THEN NoPage ELSE ptab[dir[e]][j]
    BY DEF Phys
  <2>3. Phys(p)' = IF dir[e] = NoTable THEN NoPage ELSE ptab'[dir[e]][j]
    BY <1>2 DEF Phys
  <2>4. t \in Frames /\ dir[e] \in Frames \cup {NoTable}
    BY <1>1, <1>2, <2>1 DEF TypeOK
  <2>5. \A f \in Frames : /\ f # t \/ j # i => ptab'[f][j] = ptab[f][j]
                          /\ ptab'[f][j] \in {ptab[f][j], NoPage}
    <3> HIDE DEF i, j, t
    <3>1. ptab \in [Frames -> [0 .. Span - 1 -> Pages \cup Frames \cup {NoPage}]]
      BY <1>1 DEF TypeOK
    <3>2. ptab' = [ptab EXCEPT ![t] = [ptab[t] EXCEPT ![i] = NoPage]]
      BY <1>2 DEF i
    <3>3. QED
      BY <2>1, <2>4, <3>1, <3>2
  <2>6. Phys(p)' \in {Phys(p), NoPage}
    BY <2>2, <2>3, <2>4, <2>5
  <2>7. ASSUME p # page, Phys(p)' # Phys(p)
        PROVE  SharedTable' /\ dir'[e] = 0
    <3>1. dir[e] = t /\ j = i /\ e # page \div Span
      BY <2>1, <2>2, <2>3, <2>4, <2>5, <2>7
    <3>2. t = 0
      BY <1>1, <2>1, <2>4, <3>1 DEF TablesApart
    <3>3. QED
      BY <1>2, <1>3, <2>1, <3>1, <3>2 DEF SharedTable
  <2>8. QED
    BY <2>6, <2>7
<1>5. NoPage \notin Frames /\ covered \subseteq Pages
  BY <1>1, SentinelAssumption DEF TypeOK
<1>6. TablesApart' /\ \A f : Private(f)' <=> Private(f)
  BY <1>1, <1>2 DEF TablesApart, Private
<1>7. MemoryPrivate' /\ MemoryOnce'
  <2>1. ASSUME NEW p \in covered, Phys(p)' \in Frames PROVE Phys(p)' = Phys(p)
    BY <1>4, <1>5, <2>1
  <2>2. MemoryPrivate'
    BY <1>1, <1>2, <1>6, <2>1 DEF MemoryPrivate
  <2>3. ASSUME ~SharedTable', NEW p \in covered, NEW q \in covered,
               Phys(p)' \in Frames, Phys(p)' = Phys(q)'
        PROVE  p = q
    BY <1>1, <1>3, <2>1, <2>3 DEF MemoryOnce
  <2>4. QED
    BY <1>2, <2>2, <2>3 DEF MemoryOnce
<1>8. ASSUME NEW p \in Pages \ covered PROVE AsAsked(p)'
  <2>1. Mapped' = Mapped /\ AsAsked(p) /\ p # page
    BY <1>2 DEF Mapped, FInv
  <2>2. Phys(p)' = Phys(p) \/ (SharedTable' /\ dir'[p \div Span] = 0)
    BY <1>4, <2>1
  <2>3. QED
    BY <1>2, <1>3, <2>1, <2>2, AskedKept
<1>9. QED
  BY <1>2, <1>6, <1>7, <1>8 DEF FInv, AtBoot, Behind, LoadSoFar

\* A load begins.
LEMMA LoadFrames ==
  ASSUME Inv, FInv, pc # "stopped", NEW img \in Images, Load(img) PROVE FInv'
<1>1. /\ pc = "idle" /\ Enter(img, 1)
      /\ UNCHANGED <<used, dir, dir_frame, ptab, held, covered>>
  BY DEF Load
<1>2. /\ pc' \in {"load", "idle"}
      /\ pc' = "load" => image' = img /\ seg' = 1 /\ at' = PageStart(img[1]) /\ 1 <= Len(img)
  BY <1>1 DEF Enter
<1>3. /\ TablesApart' /\ MemoryPrivate' /\ MemoryOnce'
      /\ \A p : Phys(p)' = Phys(p)
      /\ SharedTable' <=> SharedTable
  BY <1>1, Quiet
<1>4. ASSUME NEW p \in Pages \ covered PROVE AsAsked(p)'
  <2>1. Mapped' = Mapped /\ AsAsked(p)
    BY <1>1, <1>2 DEF Mapped, FInv
  <2>2. QED
    BY <1>1, <1>3, <2>1, AskedKept
<1>5. Behind' /\ LoadSoFar'
  <2>1. CASE pc' = "load"
    <3>1. img[1] \in Segment
      BY <1>2, <2>1, PagesAssumption
    <3>2. /\ PageStart(img[1]) \in Pages /\ PageEnd(img[1]) \in Pages
          /\ at' = PageStart(img[1]) /\ image'[seg'] = img[1] /\ seg' = 1
      BY <1>2, <2>1, <3>1, SegmentPages
    <3>3. \A p \in MapPages(img[1]) : ~(p < at')
      BY <3>2 DEF MapPages, Pages
    <3>4. Behind'
      BY <3>2 DEF Behind, Pages
    <3>5. LoadSoFar'
      BY <3>2, <3>3 DEF LoadSoFar
    <3>6. QED
      BY <3>4, <3>5
  <2>2. CASE pc' # "load"
    BY <2>2 DEF Behind, LoadSoFar
  <2>3. QED
    BY <2>1, <2>2
<1>6. QED
  BY <1>1, <1>2, <1>3, <1>4, <1>5 DEF FInv, AtBoot

\* A page goes on to hold what it holds if its frame is left alone.
LEMMA HoldsKept ==
  ASSUME NEW l, NEW k, NEW p, Holds(l, k, p),
         Phys(p)' = Phys(p), content'[Phys(p)] = content[Phys(p)]
  PROVE  Holds(l, k, p)'
BY DEF Holds

\* A page of a program gets a frame that had no use.
LEMMA LoadPageFrames ==
  ASSUME Inv, FInv, pc # "stopped", pc' # "stopped", LoadPage PROVE FInv'
<1>1. TypeOK /\ Held /\ TablesApart /\ MemoryPrivate /\ MemoryOnce
  BY DEF Inv, FInv
<1>2. /\ pc = "load" /\ UNCHANGED <<dir_frame, loads, held>>
      /\ image \in Images /\ seg \in 1 .. Len(image) /\ image[seg] \in Segment
  BY PagesAssumption DEF LoadPage, Inv, Loading
<1>3. at \in Pages /\ at \in MapPages(image[seg]) /\ at >= PageStart(image[seg])
  <2>1. at >= PageStart(image[seg])
    BY <1>2 DEF FInv, Behind
  <2>2. at < PageEnd(image[seg])
    BY DEF LoadPage
  <2>3. at \in Int
    BY <1>1 DEF TypeOK
  <2>4. PageStart(image[seg]) \in 0 .. NPages - 1 /\ PageEnd(image[seg]) \in 0 .. NPages - 1
    BY <1>2, SegmentPages DEF Pages
  <2>5. NPages \in Nat
    BY FramesAssumption
  <2>6. QED
    BY <2>1, <2>2, <2>3, <2>4, <2>5 DEF MapPages, Pages
<1>4. PICK f \in Frames :
        /\ Allocates(f, used, used_blocks)
        /\ IF f = 0
             THEN /\ pc' = "idle"
                  /\ UNCHANGED <<used, dir, ptab, content, covered>>
             ELSE /\ MapPage(Taken(used, f), Counted(used_blocks, f), f, at, "load")
                  /\ at' = at + 1
                  /\ content' = [content EXCEPT ![f] = {}]
                  /\ covered' = IF pc' = "load" THEN covered \cup {at} ELSE covered
                  /\ UNCHANGED <<seg, image>>
  BY DEF LoadPage
<1>5. CASE f = 0
  <2>1. pc' = "idle" /\ UNCHANGED <<used, dir, dir_frame, ptab, held, covered>>
    BY <1>2, <1>4, <1>5
  <2>2. /\ TablesApart' /\ MemoryPrivate' /\ MemoryOnce'
        /\ \A p : Phys(p)' = Phys(p)
        /\ SharedTable' <=> SharedTable
    BY <2>1, Quiet
  <2>3. ASSUME NEW p \in Pages \ covered PROVE AsAsked(p)'
    <3>1. Mapped' = Mapped /\ AsAsked(p)
      BY <1>2, <2>1 DEF Mapped, FInv
    <3>2. QED
      BY <2>1, <2>2, <3>1, AskedKept
  <2>4. QED
    BY <2>1, <2>2, <2>3 DEF FInv, AtBoot, Behind, LoadSoFar
<1>6. CASE f # 0
  <2> DEFINE u == used \cup {f}
  <2>1. f \notin used
    BY <1>4, <1>6 DEF Allocates
  <2>2. PICK page \in Pages : page = at
    BY <1>3
  <2>3. /\ MapPage(u, Counted(used_blocks, f), f, page, "load") /\ used \subseteq u
        /\ at' = at + 1 /\ content' = [content EXCEPT ![f] = {}]
        /\ UNCHANGED <<seg, image>>
    BY <1>4, <1>6, <2>2 DEF Taken
  <2>4. pc' = "load"
    BY <2>3, MapPageTable
  <2>5. covered' = covered \cup {page}
    BY <1>4, <1>6, <2>2, <2>4
  <2>6. /\ Phys(page)' = f
        /\ \A p \in Pages \ {page} :
             /\ Phys(p)' \in {Phys(p), NoPage, f}
             /\ Phys(p)' = Phys(p) \/ (SharedTable' /\ dir'[p \div Span] = 0)
        /\ SharedTable => SharedTable'
        /\ \A d \in Dirs : dir[d] = 0 => dir'[d] = 0
    BY <1>1, <2>3, MapPagePhys
  <2>7. /\ TablesApart'
        /\ \A g \in u \ held : /\ g \notin {0, dir_frame} /\ \A d \in Dirs : dir[d] # g
                               => Private(g)'
    BY <1>1, <1>2, <2>3, TablesApartMap
  <2>8. covered \subseteq Pages /\ NoPage \notin Frames
    BY <1>1, SentinelAssumption DEF TypeOK
  <2>9. Private(f)'
    <3>1. f \notin held /\ f # dir_frame
      BY <1>1, <2>1 DEF Held, TablesApart
    <3>2. \A d \in Dirs : dir[d] # f
      BY <1>1, <1>4, <1>6, <2>1 DEF TablesApart
    <3>3. QED
      BY <1>6, <2>7, <3>1, <3>2
  <2>10. MemoryPrivate'
    <3> SUFFICES ASSUME NEW p \in covered \cup {page}, NEW g \in Frames, Phys(p)' = g, g # f
                 PROVE  Private(g)'
      BY <2>5, <2>9 DEF MemoryPrivate
    <3>1. p \in covered /\ Phys(p) = g
      BY <2>6, <2>8
    <3>2. Private(g)
      BY <1>1, <3>1 DEF MemoryPrivate
    <3>3. QED
      BY <2>7, <3>2 DEF Private
  <2>11. MemoryOnce'
    <3> SUFFICES ASSUME ~SharedTable', NEW p \in covered \cup {page},
                        NEW q \in covered \cup {page}, Phys(p)' \in Frames, Phys(p)' = Phys(q)'
                 PROVE  p = q
      BY <2>5 DEF MemoryOnce
    <3>1. \A r \in covered \ {page} : Phys(r)' = Phys(r)
      BY <2>6, <2>8
    <3>2. \A r \in covered : Phys(r) # f
      BY <1>1, <1>4, <2>1 DEF MemoryPrivate, Private
    <3>3. QED
      BY <1>1, <2>6, <3>1, <3>2 DEF MemoryOnce
  <2>12. ASSUME NEW p \in Pages \ (covered \cup {page}) PROVE AsAsked(p)'
    <3>1. Mapped' = Mapped /\ AsAsked(p)
      BY <1>2, <2>4 DEF Mapped, FInv
    <3>2. QED
      BY <2>6, <3>1, AskedKept
  <2>13. Behind'
    <3>1. PageStart(image[seg]) \in Int /\ at \in Int
      BY <1>2, <1>3, SegmentPages DEF Pages
    <3>2. QED
      BY <1>3, <2>3, <3>1 DEF Behind
  <2>14. LoadSoFar'
    <3> SUFFICES ASSUME ~SharedTable', SoundHeaders' PROVE LoadSoFar'
      BY DEF LoadSoFar
    <3>1. LoadSoFar /\ ~SharedTable /\ SoundHeaders
      BY <2>3, <2>6 DEF FInv, SoundHeaders
    <3>2. \A p \in Pages \ {page} : Phys(p)' = Phys(p)
      BY <2>6
    <3>3. at \in Int /\ at' = at + 1 /\ \A p \in MapPages(image[seg]) : p \in Int
      BY <1>3, <2>3 DEF Pages, MapPages
    <3>4. ASSUME NEW p \in MapPages(image[seg]), p < at' PROVE p \in covered' /\ Phys(p)' \in Frames
      <4>1. p < at \/ p = at
        BY <3>3, <3>4
      <4>2. CASE p = at
        BY <2>2, <2>5, <2>6, <4>2
      <4>3. CASE p < at
        <5>1. p \in covered /\ Phys(p) \in Frames /\ p # page
          BY <1>2, <2>2, <3>1, <3>3, <4>3 DEF LoadSoFar
        <5>2. QED
          BY <2>5, <2>8, <3>2, <5>1
      <4>4. QED
        BY <4>1, <4>2, <4>3
    <3>5. ASSUME NEW k \in 1 .. seg - 1, NEW p \in MapPages(image[k])
          PROVE  \/ \E j \in k + 1 .. seg - 1 : p \in MapPages(image[j])
                 \/ p \in MapPages(image[seg]) /\ p < at'
                 \/ Filled(p, k)'
      <4>1. CASE p = page
        BY <1>3, <2>2, <3>3, <4>1
      <4>2. CASE p # page /\ p \in MapPages(image[seg]) /\ p < at
        <5>1. p < at'
          BY <3>3, <4>2
        <5>2. QED
          BY <4>2, <5>1
      <4>3. CASE p # page /\ Filled(p, k)
        <5>1. p \in covered /\ Phys(p) \in Frames
          BY <4>3 DEF Filled, Holds
        <5>2. Phys(p)' = Phys(p)
          BY <2>8, <3>2, <4>3, <5>1
        <5>3. Phys(p) # f
          BY <1>1, <1>4, <2>1, <5>1 DEF MemoryPrivate, Private
        <5>4. content'[Phys(p)] = content[Phys(p)]
          BY <1>1, <2>3, <5>1, <5>3 DEF TypeOK
        <5>5. QED
          BY <1>2, <2>5, <4>3, <5>1, <5>2, <5>4, HoldsKept DEF Filled
      <4>4. QED
        BY <1>2, <3>1, <4>1, <4>2, <4>3 DEF LoadSoFar
    <3>6. QED
      BY <2>3, <3>4, <3>5 DEF LoadSoFar
  <2>15. AtBoot'
    BY <2>4 DEF AtBoot
  <2>16. QED
    BY <2>5, <2>7, <2>10, <2>11, <2>12, <2>13, <2>14, <2>15 DEF FInv
<1>7. QED
  BY <1>5, <1>6

\* The bytes of a segment are where its pages lead.
LEMMA CopyFrames ==
  ASSUME Inv, FInv, pc # "stopped", pc' # "stopped", CopySegment
  PROVE  /\ FInv'
         /\ ~SharedTable /\ SoundHeaders =>
              \A k \in 1 .. seg : \A p \in MapPages(image[k]) :
                (\E j \in k + 1 .. seg : p \in MapPages(image[j])) \/ Filled(p, k)'
<1>1. TypeOK /\ MemoryPrivate /\ MemoryOnce
  BY DEF Inv, FInv
<1>2. /\ pc = "load" /\ UNCHANGED <<used, dir, dir_frame, ptab, loads, held, covered>>
      /\ image \in Images /\ seg \in 1 .. Len(image) /\ image[seg] \in Segment
      /\ Checked(image[seg]) /\ image \in Seq(Segment)
  BY PagesAssumption DEF CopySegment, Inv, Loading
<1> DEFINE bytes == IF InFile(image[seg]) THEN {<<loads, seg>>} ELSE {}
<1>3. /\ Enter(image, seg + 1) /\ at >= PageEnd(image[seg])
      /\ content' = [g \in Frames |-> IF g \in Led(Written(image[seg])) THEN bytes ELSE content[g]]
  BY DEF CopySegment
<1>4. /\ TablesApart' /\ MemoryPrivate' /\ MemoryOnce'
      /\ \A p : Phys(p)' = Phys(p)
      /\ SharedTable' <=> SharedTable
  BY <1>2, Quiet
<1>5. /\ pc' \in {"load", "idle"}
      /\ pc' = "load" => /\ image' = image /\ seg' = seg + 1 /\ seg + 1 <= Len(image)
                         /\ at' = PageStart(image[seg + 1])
  BY <1>3 DEF Enter
<1>6. ASSUME NEW p \in Pages \ covered PROVE AsAsked(p)'
  <2>1. Mapped' = Mapped /\ AsAsked(p)
    BY <1>2, <1>5 DEF Mapped, FInv
  <2>2. QED
    BY <1>2, <1>4, <2>1, AskedKept
<1>7. \A p \in MapPages(image[seg]) : p < at
  <2>1. PageStart(image[seg]) \in Int /\ PageEnd(image[seg]) \in Int /\ at \in Int
    BY <1>1, <1>2, SegmentPages DEF Pages, TypeOK
  <2>2. QED
    BY <1>3, <2>1 DEF MapPages
<1>8. ASSUME ~SharedTable, SoundHeaders, NEW k \in 1 .. seg, NEW p \in MapPages(image[k])
      PROVE  (\E j \in k + 1 .. seg : p \in MapPages(image[j])) \/ Filled(p, k)'
  <2>1. LoadSoFar
    BY DEF FInv
  <2>2. WellFormed(image[seg]) /\ Written(image[seg]) = MapPages(image[seg])
    <3>1. WellFormed(image[seg])
      BY <1>2, <1>8 DEF SoundHeaders
    <3>2. QED
      BY <1>2, <3>1, SoundHeader
  <2>3. \A q \in Written(image[seg]) : q \in covered /\ Phys(q) \in Frames
    BY <1>2, <1>7, <1>8, <2>1, <2>2 DEF LoadSoFar
  <2>4. CASE k = seg
    <3>1. p \in covered /\ Phys(p) \in Frames /\ Phys(p) \in Led(Written(image[seg]))
      BY <1>8, <2>2, <2>3, <2>4 DEF Led
    <3>2. bytes = {<<loads, k>>}
      <4>1. InFile(image[seg])
        <5>1. image[seg].offset + image[seg].filesz \in Nat /\ Word \in Nat
          <6>1. image[seg].offset \in Addresses /\ image[seg].filesz \in Addresses
            BY <1>2 DEF Segment
          <6>2. QED
            BY <6>1, AddressPages DEF Addresses
        <5>2. (image[seg].offset + image[seg].filesz) % Word = image[seg].offset + image[seg].filesz
          BY <2>2, <5>1 DEF WellFormed
        <5>3. QED
          BY <1>2, <5>2 DEF Checked, InFile
      <4>2. QED
        BY <2>4, <4>1
    <3> HIDE DEF bytes
    <3>3. content'[Phys(p)] = {<<loads, k>>}
      BY <1>3, <3>1, <3>2
    <3>4. QED
      BY <1>2, <1>4, <3>1, <3>3 DEF Filled, Holds
  <2>5. CASE k # seg
    <3>1. k \in 1 .. seg - 1
      BY <1>2, <2>5
    <3>2. \/ \E j \in k + 1 .. seg - 1 : p \in MapPages(image[j])
          \/ p \in MapPages(image[seg])
          \/ Filled(p, k)
      BY <1>2, <1>8, <2>1, <3>1 DEF LoadSoFar
    <3>3. k + 1 .. seg - 1 \subseteq k + 1 .. seg /\ seg \in k + 1 .. seg
      BY <1>2, <3>1
    <3>4. CASE p \notin MapPages(image[seg]) /\ Filled(p, k)
      <4>1. p \in covered /\ Phys(p) \in Frames
        BY <3>4 DEF Filled, Holds
      <4>2. Phys(p) \notin Led(Written(image[seg]))
        <5>1. ASSUME NEW q \in Written(image[seg]), Phys(q) = Phys(p) PROVE FALSE
          <6>1. q \in covered /\ Phys(q) \in Frames
            BY <2>3, <5>1
          <6>2. q = p
            BY <1>1, <1>8, <4>1, <5>1, <6>1 DEF MemoryOnce
          <6>3. QED
            BY <2>2, <3>4, <5>1, <6>2
        <5>2. QED
          BY <5>1 DEF Led
      <4> HIDE DEF bytes
      <4>3. content'[Phys(p)] = content[Phys(p)]
        BY <1>3, <4>1, <4>2
      <4>4. QED
        BY <1>2, <1>4, <3>4, <4>1, <4>3, HoldsKept DEF Filled
    <3>5. QED
      BY <3>2, <3>3, <3>4
  <2>6. QED
    BY <2>4, <2>5
<1>9. Behind' /\ LoadSoFar'
  <2>1. CASE pc' = "load"
    <3>1. image'[seg'] = image[seg + 1] /\ seg + 1 \in 1 .. Len(image)
      BY <1>2, <1>5, <2>1
    <3>2. image[seg + 1] \in Segment
      BY <1>2, <3>1
    <3>3. /\ PageStart(image[seg + 1]) \in Pages /\ PageEnd(image[seg + 1]) \in Pages
          /\ at' = PageStart(image[seg + 1])
      BY <1>5, <2>1, <3>2, SegmentPages
    <3>4. Behind'
      BY <3>1, <3>3 DEF Behind, Pages
    <3>5. \A p \in MapPages(image[seg + 1]) : ~(p < at')
      BY <3>3 DEF MapPages, Pages
    <3>6. seg' - 1 = seg
      BY <1>2, <1>5, <2>1
    <3>7. image' = image /\ (SoundHeaders' <=> SoundHeaders)
      BY <1>5, <2>1 DEF SoundHeaders
    <3>8. LoadSoFar'
      BY <1>4, <1>8, <3>1, <3>5, <3>6, <3>7 DEF LoadSoFar
    <3>9. QED
      BY <3>4, <3>8
  <2>2. CASE pc' # "load"
    BY <2>2 DEF Behind, LoadSoFar
  <2>3. QED
    BY <2>1, <2>2
<1>10. AtBoot'
  BY <1>5 DEF AtBoot
<1>11. QED
  BY <1>2, <1>4, <1>6, <1>8, <1>9, <1>10 DEF FInv

\* A write to the heap goes to the heap's own frame, or to a page of a program that
\* lies in the heap.
LEMMA HeapWriteFrames ==
  ASSUME Inv, FInv, pc # "stopped", pc' # "stopped", NEW h \in Heap, HeapWrite(h)
  PROVE  FInv'
<1>1. TypeOK /\ MemoryPrivate /\ MemoryOnce
  BY DEF Inv, FInv
<1>2. /\ pc \in {"idle", "load"} /\ pc' = pc
      /\ UNCHANGED <<used, dir, dir_frame, ptab, at, image, seg, loads, held, covered>>
      /\ content' = [g \in Frames |-> IF g = Phys(h) THEN content[g] \cup {HeapData}
                                      ELSE content[g]]
  BY DEF HeapWrite
<1>3. /\ TablesApart' /\ MemoryPrivate' /\ MemoryOnce'
      /\ \A p : Phys(p)' = Phys(p)
      /\ SharedTable' <=> SharedTable
  BY <1>2, Quiet
<1>4. ASSUME NEW p \in Pages \ covered PROVE AsAsked(p)'
  <2>1. Mapped' = Mapped /\ AsAsked(p)
    BY <1>2 DEF Mapped, FInv
  <2>2. QED
    BY <1>2, <1>3, <2>1, AskedKept
<1>5. ASSUME ~SharedTable, NEW p, NEW k, Filled(p, k) PROVE Filled(p, k)'
  <2>1. p \in covered /\ Phys(p) \in Frames
    BY <1>5 DEF Filled, Holds
  <2>2. CASE Phys(p) # Phys(h)
    <3>1. content'[Phys(p)] = content[Phys(p)]
      BY <1>2, <2>1, <2>2
    <3>2. QED
      BY <1>2, <1>3, <1>5, <2>1, <3>1, HoldsKept DEF Filled
  <2>3. CASE Phys(p) = Phys(h)
    <3>1. p \in Heap \/ Phys(p) \in Heap
      <4>1. CASE h \in covered
        BY <1>1, <1>5, <2>1, <2>3, <4>1 DEF MemoryOnce
      <4>2. CASE h \notin covered
        <5>1. h \in Pages /\ h < Ident /\ Ident \in Nat /\ h \in Nat
          BY HeapAssumption, FramesAssumption DEF Pages
        <5>2. AsAsked(h) /\ Mapped = Ident
          BY <1>2, <4>2, <5>1 DEF FInv, Mapped
        <5>3. Phys(h) = h
          BY <1>5, <5>1, <5>2 DEF AsAsked
        <5>4. QED
          BY <2>3, <5>3
      <4>3. QED
        BY <4>1, <4>2
    <3>2. content'[Phys(p)] = content[Phys(p)] \cup {HeapData}
      BY <1>2, <2>1, <2>3
    <3>3. content[Phys(p)] \in {{<<loads, k>>}, {<<loads, k>>, HeapData}}
      BY <1>5 DEF Filled, Holds
    <3>4. content'[Phys(p)] = {<<loads, k>>, HeapData}
      BY <3>2, <3>3
    <3>5. QED
      BY <1>2, <1>3, <2>1, <3>1, <3>4 DEF Filled, Holds
  <2>4. QED
    BY <2>2, <2>3
<1>6. Behind' /\ AtBoot'
  BY <1>2 DEF FInv, Behind, AtBoot
<1>7. LoadSoFar'
  <2>1. LoadSoFar /\ (SoundHeaders' <=> SoundHeaders)
    BY <1>2 DEF FInv, SoundHeaders
  <2>2. QED
    BY <1>2, <1>3, <1>5, <2>1 DEF LoadSoFar
<1>8. QED
  BY <1>2, <1>3, <1>4, <1>6, <1>7 DEF FInv

-----------------------------------------------------------------------------
(* The theorems *)

\* Every step keeps the invariant.
LEMMA FramesNext ==
  ASSUME Inv, FInv, [Next]_vars PROVE FInv'
<1>1. CASE pc' = "stopped"
  BY <1>1 DEF FInv
<1>2. CASE UNCHANGED vars
  <2>1. UNCHANGED <<used, dir, dir_frame, ptab, content, pc, at, image, seg, loads, held, covered>>
    BY <1>2 DEF vars
  <2>2. \A p : Phys(p)' = Phys(p)
    BY <2>1 DEF Phys
  <2>3. SharedTable' <=> SharedTable
    BY <2>1 DEF SharedTable
  <2>4. CASE pc # "stopped"
    <3>1. TablesApart' /\ MemoryPrivate' /\ MemoryOnce'
      BY <2>1, <2>4, Quiet
    <3>2. \A p \in Pages \ covered : AsAsked(p)'
      BY <2>1, <2>2, <2>3, <2>4 DEF FInv, AsAsked, Mapped
    <3>3. Behind' /\ AtBoot'
      BY <2>1, <2>4 DEF FInv, Behind, AtBoot
    <3>4. \A p, k : Filled(p, k)' <=> Filled(p, k)
      BY <2>1, <2>2 DEF Filled, Holds
    <3>5. LoadSoFar'
      BY <2>1, <2>2, <2>3, <2>4, <3>4 DEF FInv, LoadSoFar, SoundHeaders
    <3>6. QED
      BY <2>1, <3>1, <3>2, <3>3, <3>5 DEF FInv
  <2>5. CASE pc = "stopped"
    BY <2>1, <2>5 DEF FInv
  <2>6. QED
    BY <2>4, <2>5
<1>3. CASE pc' # "stopped" /\ Next
  <2>1. pc # "stopped"
    BY <1>3 DEF Next, Alloc, Free, BootIdentity, BootFramebuffer, MapDevice, Unmap,
                HeapWrite, Load, LoadPage, CopySegment
  <2>2. CASE Alloc
    BY <2>1, <2>2, AllocFrames
  <2>3. ASSUME NEW f \in Frames, Free(f) PROVE FInv'
    BY <2>1, <2>3, FreeFrames
  <2>4. CASE BootIdentity
    BY <1>3, <2>1, <2>4, IdentityFrames
  <2>5. CASE BootFramebuffer
    BY <1>3, <2>1, <2>5, FramebufferFrames
  <2>6. ASSUME NEW p \in DevicePages, MapDevice(p) PROVE FInv'
    BY <1>3, <2>1, <2>6, DeviceFrames
  <2>7. ASSUME NEW p \in Pages, Unmap(p) PROVE FInv'
    BY <1>3, <2>1, <2>7, UnmapFrames
  <2>8. ASSUME NEW img \in Images, Load(img) PROVE FInv'
    BY <2>1, <2>8, LoadFrames
  <2>9. CASE LoadPage
    BY <1>3, <2>1, <2>9, LoadPageFrames
  <2>10. CASE CopySegment
    BY <1>3, <2>1, <2>10, CopyFrames
  <2>11. ASSUME NEW p \in Heap, HeapWrite(p) PROVE FInv'
    BY <1>3, <2>1, <2>11, HeapWriteFrames
  <2>12. QED
    BY <1>3, <2>2, <2>3, <2>4, <2>5, <2>6, <2>7, <2>8, <2>9, <2>10, <2>11 DEF Next
<1>4. QED
  BY <1>1, <1>2, <1>3

\* The two invariants of the memory, if the boot leaves a frame for the directory.
THEOREM FramesInvariance ==
  ASSUME KernelEnd \in Scanned PROVE Spec => [](Inv /\ FInv)
<1>1. Init => Inv /\ FInv
  BY InvInit, FramesInit
<1>2. Inv /\ FInv /\ [Next]_vars => Inv' /\ FInv'
  BY InvNext, FramesNext
<1>3. QED
  BY <1>1, <1>2, PTL DEF Spec

\* A frame that pmm_alloc_frame has handed out belongs to one of those who asked,
\* whatever is allocated, freed, mapped and loaded, also when frames run out: the
\* directory, one table, one page of a program or another caller.
THEOREM FramesApartHolds ==
  ASSUME KernelEnd \in Scanned PROVE Spec => []FramesApart
<1>1. Inv /\ FInv => FramesApart
  <2> SUFFICES ASSUME Inv, FInv, Booted PROVE FramesApart
    BY DEF FramesApart
  <2>1. TypeOK /\ Held /\ TablesApart /\ MemoryPrivate /\ MemoryOnce
    BY DEF Inv, FInv, Booted
  <2> DEFINE memory == Led(Loaded)
  <2>2. \A f \in memory : Private(f)
    BY <2>1 DEF MemoryPrivate, Led, Loaded
  <2>3. \A t \in Tables : /\ t \in used \ held /\ t # dir_frame /\ t # 0
                          /\ \E d \in Dirs : dir[d] = t
    BY <2>1 DEF Tables, TablesApart, TypeOK
  <2>4. \A d, e \in Dirs : dir[d] = dir[e] /\ d # e => dir[d] \in {0, NoTable}
    BY <2>1 DEF TablesApart, TypeOK
  <2>5. dir_frame \notin Tables \cup held \cup memory
    BY <2>1, <2>2, <2>3 DEF TablesApart, Private
  <2>6. Tables \cap (held \cup memory) = {} /\ held \cap memory = {}
    BY <2>2, <2>3 DEF Private
  <2>7. {dir_frame} \cup Tables \cup held \cup memory \subseteq used \ {0}
    BY <2>1, <2>2, <2>3 DEF TablesApart, Private, Held
  <2>8. ~SharedTable => \A p, q \in Loaded : Phys(p) = Phys(q) => p = q
    BY <2>1 DEF MemoryOnce, Loaded
  <2>9. QED
    BY <2>4, <2>5, <2>6, <2>7, <2>8 DEF FramesApart
<1>2. QED
  BY <1>1, FramesInvariance, PTL

\* A page that no load has mapped leads where the boot or the driver of the frame
\* buffer has mapped it, or nowhere, unless its table is a shared one.
THEOREM TranslationsAsAskedHolds ==
  ASSUME KernelEnd \in Scanned PROVE Spec => []TranslationsAsAsked
<1>1. Inv /\ FInv => TranslationsAsAsked
  <2> SUFFICES ASSUME Inv, FInv, Booted, NEW p \in Pages \ covered
               PROVE  \/ p < Ident /\ Phys(p) = p
                      \/ p \in Devices /\ Phys(p) = p
                      \/ p >= Ident /\ Phys(p) = NoPage
                      \/ SharedTable /\ dir[p \div Span] = 0
    BY DEF TranslationsAsAsked, Devices
  <2>1. AsAsked(p) /\ Mapped = Ident
    BY DEF FInv, Booted, Mapped
  <2>2. QED
    BY <2>1 DEF AsAsked
<1>2. QED
  BY <1>1, FramesInvariance, PTL

\* elf_load returns success, for a program with sound headers, only when each of its
\* pages leads to the bytes of the last segment that has a part in it.
THEOREM LoadCompleteHolds ==
  ASSUME KernelEnd \in Scanned PROVE Spec => LoadComplete
<1> DEFINE Complete ==
             LoadEnds /\ ~SharedTable /\ SoundHeaders =>
               \A k \in DOMAIN image :
                 \A p \in SegPages(image[k]) \ UNION {SegPages(image[j]) : j \in k + 1 .. Len(image)} :
                   Holds(loads, k, p)'
<1>1. Inv /\ FInv /\ [Next]_vars => [Complete]_vars
  <2> SUFFICES ASSUME Inv, FInv, Next, LoadEnds, ~SharedTable, SoundHeaders
               PROVE  \A k \in DOMAIN image :
                        \A p \in SegPages(image[k]) \ UNION {SegPages(image[j]) : j \in k + 1 .. Len(image)} :
                          Holds(loads, k, p)'
    OBVIOUS
  <2>1. pc = "load" /\ pc' = "idle" /\ at >= PageEnd(image[seg]) /\ seg = Len(image)
    BY DEF LoadEnds
  <2>2. image \in Seq(Segment) /\ seg \in 1 .. Len(image) /\ DOMAIN image = 1 .. Len(image)
    BY <2>1, PagesAssumption DEF Inv, Loading
  <2>3. CopySegment
    <3>1. ~LoadPage
      <4>1. image[seg] \in Segment /\ at \in Int
        BY <2>2 DEF Inv, TypeOK
      <4>2. PageEnd(image[seg]) \in Int
        BY <4>1, SegmentPages DEF Pages
      <4>3. QED
        BY <2>1, <4>1, <4>2 DEF LoadPage
    <3>2. QED
      BY <2>1, <3>1 DEF Next, Alloc, Free, BootIdentity, BootFramebuffer, MapDevice, Unmap,
                        HeapWrite, Load
  <2>4. \A k \in 1 .. seg : \A p \in MapPages(image[k]) :
          (\E j \in k + 1 .. seg : p \in MapPages(image[j])) \/ Filled(p, k)'
    BY <2>1, <2>3, CopyFrames
  <2>5. \A k \in 1 .. seg : MapPages(image[k]) = SegPages(image[k])
    <3> SUFFICES ASSUME NEW k \in 1 .. seg PROVE MapPages(image[k]) = SegPages(image[k])
      OBVIOUS
    <3>1. k \in DOMAIN image /\ image[k] \in Segment
      BY <2>2
    <3>2. QED
      BY <3>1, SoundHeader DEF SoundHeaders
  <2>6. loads' = loads
    BY <2>3 DEF CopySegment
  <2>7. QED
    <3> SUFFICES ASSUME NEW k \in 1 .. seg, NEW p \in SegPages(image[k]),
                        p \notin UNION {SegPages(image[j]) : j \in k + 1 .. seg}
                 PROVE  Holds(loads, k, p)'
      BY <2>1, <2>2
    <3>1. \A j \in k + 1 .. seg : p \notin MapPages(image[j])
      BY <2>2, <2>5
    <3>2. Filled(p, k)'
      BY <2>4, <2>5, <3>1
    <3>3. QED
      BY <3>2 DEF Filled
<1>2. QED
  BY <1>1, FramesInvariance, PTL DEF Spec, LoadComplete, SoundHeaders

=============================================================================
