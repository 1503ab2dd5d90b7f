------------------------------- MODULE Memory -------------------------------
(***************************************************************************)
(* Physical frames and virtual pages: the bitmap of kernel/pmm.c, the page *)
(* tables of kernel/vmm.c that live in its frames, the boot that sets both *)
(* up (init_memory, vmm_init) and the ELF loader, which takes a frame for  *)
(* each page of a program.  vmm_init and elf_load go page by page, one     *)
(* step each.  The kernel's heap lies at a fixed place in this memory and  *)
(* is written at any time, by an interrupt handler in mid-load, too.       *)
(*                                                                         *)
(* Frames and pages are numbers, an address divided by PAGE_SIZE.  Once    *)
(* paging is on, a page table is reached through the page whose number is  *)
(* the table's frame.  Abstracted: flags, the bytes of a frame (who wrote  *)
(* to it), translations that linger in the TLB, what the kernel does once  *)
(* the data in its heap are overwritten, the place of a program's file,    *)
(* which stays as it is.                                                   *)
(***************************************************************************)
EXTENDS Naturals, FiniteSets, Sequences

CONSTANTS
  NFrames,       \* pmm_max_blocks
  WordBits,      \* bits of a word of the bitmap
  KernelEnd,     \* the first frame behind the kernel and the bitmap
  NPages,        \* pages of the address space
  Span,          \* PAGES_PER_TABLE
  Ident,         \* pages that vmm_init maps to themselves, 16 MiB of them
  BootFb,        \* pages of the frame buffer that vmm_init maps, a sequence
  DevicePages,   \* pages that fb_init_from_multiboot maps
  Heap,          \* pages from HEAP_START on, HEAP_INITIAL_SIZE of them
  PageSize,      \* PAGE_SIZE
  Images,        \* programs, each a sequence of segments
  FileSize,      \* the size of a program's file, the same for all
  NoTable, NoPage,
  MaxLoads       \* bound: calls of elf_load

Frames == 0 .. NFrames - 1
Pages == 0 .. NPages - 1
Dirs == 0 .. (NPages - 1) \div Span

\* Addresses are of 32 bits: the pages are all there are.
Word == NPages * PageSize
Addresses == 0 .. Word - 1

\* A program header of type PT_LOAD that asks for memory; the loop skips the others.
Segment == [offset : Addresses, filesz : Addresses, vaddr : Addresses,
            memsz : Addresses \ {0}]

ASSUME FramesAssumption ==
  /\ {NFrames, WordBits, KernelEnd, NPages, Span, Ident, MaxLoads} \subseteq Nat \ {0}
  /\ KernelEnd <= NFrames /\ Ident <= NPages
ASSUME AddressAssumption == PageSize \in Nat \ {0} /\ FileSize \in Addresses
ASSUME HeapAssumption == Heap \subseteq KernelEnd .. Ident - 1
ASSUME PagesAssumption ==
  /\ BootFb \in Seq(Pages \ Frames) /\ DevicePages \subseteq Pages \ Frames
  /\ Images \subseteq Seq(Segment)
ASSUME SentinelAssumption == NoTable \notin Frames /\ NoPage \notin Pages \cup Frames

VARIABLES
  used,          \* pmm_bitmap: the frames whose bit is set
  used_blocks,   \* pmm_used_blocks
  dir,           \* current_directory: the frame of the table, per entry
  dir_frame,     \* the frame of the directory itself
  ptab,          \* the frames, read as page tables
  content,       \* the frames, read as program memory: who has written there
  pc,            \* what is going on
  at,            \* the page (of BootFb: the position) it comes to next
  image, seg,    \* elf_load: the program, and the segment it is at
  loads,         \* bound: calls of elf_load so far
  held,          \* ghost: frames that other callers of pmm_alloc_frame hold
  covered        \* ghost: pages that some load has mapped

vars == <<used, used_blocks, dir, dir_frame, ptab, content, pc, at, image, seg,
          loads, held, covered>>

\* A segment's bytes, by the call of elf_load and the segment, and the heap's.
HeapData == <<0, 0>>
Data == ((1 .. MaxLoads) \X Nat) \cup {HeapData}

EmptyTable == [i \in 0 .. Span - 1 |-> NoPage]

TypeOK ==
  /\ used \subseteq Frames
  /\ used_blocks \in 0 .. NFrames
  /\ dir \in [Dirs -> Frames \cup {NoTable}]
  /\ dir_frame \in Frames
  /\ ptab \in [Frames -> [0 .. Span - 1 -> Pages \cup Frames \cup {NoPage}]]
  /\ content \in [Frames -> SUBSET Data]
  /\ pc \in {"identity", "framebuffer", "idle", "load", "stopped"}
  /\ at \in 0 .. NPages + Len(BootFb)
  /\ image \in Images \cup {<<>>}
  /\ seg \in Nat
  /\ loads \in 0 .. MaxLoads
  /\ held \subseteq Frames
  /\ covered \subseteq Pages

-----------------------------------------------------------------------------
(* pmm.c *)

\* The frames bitmap_first_free looks at: those of the whole words.
Scanned == 0 .. WordBits * (NFrames \div WordBits) - 1

\* pmm_alloc_frame returns f, 0 for failure, with the bitmap u and the counter n.
Allocates(f, u, n) ==
  IF n = NFrames \/ Scanned \subseteq u THEN f = 0
  ELSE f \in Scanned \ u /\ \A g \in Scanned \ u : f <= g

\* Mutant: the bit of the last frame handed out is not set.
TakenNot(u, f) == u

Taken(u, f) == IF f = 0 THEN u ELSE u \cup {f}

\* Mutant: an allocation that fails is counted, too.
CountedAlways(n, f) == n + 1

\* Mutant: allocations are not counted.
CountedNever(n, f) == n

Counted(n, f) == IF f = 0 THEN n ELSE n + 1

\* pmm_init and pmm_init_region: everything is in use but what lies behind the
\* kernel.
Reserved == 0 .. KernelEnd - 1

\* init_memory and the first line of vmm_init, which takes a frame for the
\* directory.
Init ==
  /\ dir_frame \in {f \in Frames : Allocates(f, Reserved, KernelEnd)}
  /\ used = Taken(Reserved, dir_frame)
  /\ used_blocks = Counted(KernelEnd, dir_frame)
  /\ dir = [d \in Dirs |-> NoTable]
  /\ ptab = [f \in Frames |-> EmptyTable]
  /\ content = [f \in Frames |-> {}]
  /\ pc = "identity" /\ at = 0
  /\ image = <<>> /\ seg = 0 /\ loads = 0
  /\ held = {} /\ covered = {}

\* Other callers of pmm_alloc_frame and pmm_free_frame; they free what they
\* hold, once, and leave something in it that a page table must not be: here
\* words that lead to frame 0.
Alloc ==
  /\ pc = "idle"
  /\ \E f \in Frames :
       /\ Allocates(f, used, used_blocks)
       /\ used' = Taken(used, f)
       /\ used_blocks' = Counted(used_blocks, f)
       /\ held' = Taken(held, f)
  /\ UNCHANGED <<dir, dir_frame, ptab, content, pc, at, image, seg, loads, covered>>

Free(f) ==
  /\ pc = "idle"
  /\ f \in held
  /\ used' = used \ {f}
  /\ used_blocks' = used_blocks - 1
  /\ held' = held \ {f}
  /\ ptab' = [ptab EXCEPT ![f] = [i \in 0 .. Span - 1 |-> 0]]
  /\ UNCHANGED <<dir, dir_frame, content, pc, at, image, seg, loads, covered>>

-----------------------------------------------------------------------------
(* vmm.c *)

\* vmm_get_physical.
Phys(p) == IF dir[p \div Span] = NoTable THEN NoPage ELSE ptab[dir[p \div Span]][p % Span]

\* Paging is on but for the boot.
Reached(t) == pc \in {"identity", "framebuffer"} \/ Phys(t) = t

\* Mutant: a table that has just been made is not cleared.
BlankNot(t) == ptab[t]

Blank(t) == EmptyTable

\* Mutant: a table is taken even where there is one.
NeedsTableAlways(d) == TRUE

NeedsTable(d) == dir[d] = NoTable

\* vmm_map_page, with the bitmap u and the counter n as its caller left them.
\* Nobody looks at the failure of pmm_alloc_frame: the table is then at frame 0.
\* A table that is not mapped to itself is not reached: its page faults, or
\* another frame is written, and the model ends.
MapPage(u, n, phys, virt, next) ==
  LET d == virt \div Span IN
  \E t \in Frames :
    /\ IF NeedsTable(d)
         THEN /\ Allocates(t, u, n)
              /\ used' = Taken(u, t)
              /\ used_blocks' = Counted(n, t)
         ELSE t = dir[d] /\ used' = u /\ used_blocks' = n
    /\ dir' = [dir EXCEPT ![d] = t]
    /\ IF Reached(t)
         THEN /\ ptab' = [ptab EXCEPT
                            ![t] = [(IF NeedsTable(d) THEN Blank(t) ELSE @)
                                      EXCEPT ![virt % Span] = phys]]
              /\ pc' = next
         ELSE ptab' = ptab /\ pc' = "stopped"

\* vmm_init's first loop ...
BootIdentity ==
  /\ pc = "identity"
  /\ MapPage(used, used_blocks, at, at,
             IF at + 1 < Ident THEN "identity" ELSE "framebuffer")
  /\ at' = IF at + 1 < Ident THEN at + 1 ELSE 1
  /\ UNCHANGED <<dir_frame, content, image, seg, loads, held, covered>>

\* ... its second, and the end of the boot.
BootFramebuffer ==
  /\ pc = "framebuffer"
  /\ IF at <= Len(BootFb)
       THEN /\ MapPage(used, used_blocks, BootFb[at], BootFb[at], "framebuffer")
            /\ at' = at + 1
       ELSE /\ pc' = "idle" /\ at' = 0
            /\ UNCHANGED <<used, used_blocks, dir, ptab>>
  /\ UNCHANGED <<dir_frame, content, image, seg, loads, held, covered>>

\* fb_init_from_multiboot maps one page of the frame buffer.
MapDevice(p) ==
  /\ pc = "idle"
  /\ MapPage(used, used_blocks, p, p, "idle")
  /\ UNCHANGED <<dir_frame, content, at, image, seg, loads, held, covered>>

\* vmm_unmap_page, for a page of a program; its frame is not given back.
Unmap(p) ==
  /\ pc = "idle"
  /\ p \in covered
  /\ dir[p \div Span] # NoTable
  /\ IF Reached(dir[p \div Span])
       THEN ptab' = [ptab EXCEPT ![dir[p \div Span]][p % Span] = NoPage] /\ pc' = pc
       ELSE ptab' = ptab /\ pc' = "stopped"
  /\ UNCHANGED <<used, used_blocks, dir, dir_frame, content, at, image, seg, loads,
                 held, covered>>

-----------------------------------------------------------------------------
(* Writing to memory *)

\* The frames that are page tables.
Tables == {dir[d] : d \in Dirs} \ {0, NoTable}

\* To write to these pages faults, which halts the machine, or destroys the
\* kernel, the bitmap or the page tables: the model ends.
Fatal(pages) ==
  \E p \in pages : Phys(p) = NoPage \/ Phys(p) \in Reserved \cup {dir_frame} \cup Tables

Led(pages) == {Phys(p) : p \in pages}

\* The kernel writes to its heap: the main flow, or IRQ12 in the middle of it.
HeapWrite(p) ==
  /\ pc \in {"idle", "load"}
  /\ IF Fatal({p})
       THEN pc' = "stopped" /\ content' = content
       ELSE /\ pc' = pc
            /\ content' = [f \in Frames |-> IF f = Phys(p) THEN content[f] \cup {HeapData}
                                            ELSE content[f]]
  /\ UNCHANGED <<used, used_blocks, dir, dir_frame, ptab, at, image, seg, loads, held, covered>>

-----------------------------------------------------------------------------
(* elf.c *)

\* vaddr_start and vaddr_end, as pages.
PageStart(s) == s.vaddr \div PageSize
PageEnd(s) == ((s.vaddr + s.memsz + PageSize - 1) % Word) \div PageSize

\* The test on the bounds of the file.
Checked(s) == (s.offset + s.filesz) % Word <= FileSize

\* What the test is for.
InFile(s) == s.offset + s.filesz <= FileSize

\* Mutant: what lies behind the bytes of the file is not zeroed.
WrittenNoBss(s) ==
  {((s.vaddr + k) % Word) \div PageSize : k \in {j \in Addresses : j < s.filesz}}

\* The pages that memcpy and memset write to: p_filesz bytes, then up to p_memsz.
Written(s) ==
  {((s.vaddr + k) % Word) \div PageSize :
     k \in {j \in Addresses : j < s.filesz \/ j < s.memsz}}

\* elf_load enters segment k of the program img, or leaves, with an error if the
\* segment fails the test.
Enter(img, k) ==
  LET more == k <= Len(img) /\ Checked(img[k]) IN
  /\ pc' = IF more THEN "load" ELSE "idle"
  /\ seg' = IF more THEN k ELSE 0
  /\ image' = IF more THEN img ELSE <<>>
  /\ at' = IF more THEN PageStart(img[k]) ELSE 0

Load(img) ==
  /\ pc = "idle"
  /\ loads < MaxLoads
  /\ Enter(img, 1)
  /\ loads' = loads + 1
  /\ UNCHANGED <<used, used_blocks, dir, dir_frame, ptab, content, held, covered>>

\* A page of the segment gets a frame; without one the load gives up, and what
\* it has mapped stays.
LoadPage ==
  /\ pc = "load"
  /\ at < PageEnd(image[seg])
  /\ \E f \in Frames :
       /\ Allocates(f, used, used_blocks)
       /\ IF f = 0
            THEN /\ pc' = "idle" /\ at' = 0 /\ seg' = 0 /\ image' = <<>>
                 /\ UNCHANGED <<used, used_blocks, dir, ptab, content, covered>>
            ELSE /\ MapPage(Taken(used, f), Counted(used_blocks, f), f, at, "load")
                 /\ at' = at + 1
                 /\ content' = [content EXCEPT ![f] = {}]
                 /\ covered' = IF pc' = "load" THEN covered \cup {at} ELSE covered
                 /\ UNCHANGED <<seg, image>>
  /\ UNCHANGED <<dir_frame, loads, held>>

\* The bytes of the segment are copied to where its pages lead, and the rest is
\* zeroed; what lies outside the file is something else, or a fault.
CopySegment ==
  /\ pc = "load"
  /\ at >= PageEnd(image[seg])
  /\ \/ /\ ~Fatal(Written(image[seg]))
        /\ content' =
             LET bytes == IF InFile(image[seg]) THEN {<<loads, seg>>} ELSE {}
             IN  [f \in Frames |-> IF f \in Led(Written(image[seg])) THEN bytes ELSE content[f]]
        /\ Enter(image, seg + 1)
     \/ /\ Fatal(Written(image[seg])) \/ ~InFile(image[seg])
        /\ pc' = "stopped"
        /\ UNCHANGED <<content, at, image, seg>>
  /\ UNCHANGED <<used, used_blocks, dir, dir_frame, ptab, loads, held, covered>>

Next ==
  \/ Alloc
  \/ \E f \in Frames : Free(f)
  \/ BootIdentity
  \/ BootFramebuffer
  \/ \E p \in DevicePages : MapDevice(p)
  \/ \E p \in Pages : Unmap(p)
  \/ \E p \in Heap : HeapWrite(p)
  \/ \E img \in Images : Load(img)
  \/ LoadPage
  \/ CopySegment

Spec == Init /\ [][Next]_vars

-----------------------------------------------------------------------------
(* Properties *)

\* pmm_used_blocks counts the frames whose bit is set: the test at the head of
\* pmm_alloc_frame and the scan behind it see the same memory, whatever callers
\* do, failures included.
CounterMatches == used_blocks = Cardinality(used)

Booted == pc \notin {"identity", "framebuffer", "stopped"}

\* Two entries of the directory share the table at frame 0: pmm_alloc_frame
\* failed twice.
SharedTable == \E d, e \in Dirs : d # e /\ dir[d] = 0 /\ dir[e] = 0

\* The frames of programs.
Loaded == {p \in covered : Phys(p) \in Frames}

\* pmm_alloc_frame gives a frame to one of those who ask for it: it is the
\* directory, one page table, the memory of one page of a program, or what another
\* caller does with it, unless the table at frame 0 is shared.  The heap has never
\* asked (HeapApart).
FramesApart ==
  Booted =>
    LET memory == Led(Loaded) IN
    /\ \A d, e \in Dirs : dir[d] = dir[e] /\ d # e => dir[d] \in {0, NoTable}
    /\ dir_frame \notin Tables \cup held \cup memory
    /\ Tables \cap (held \cup memory) = {} /\ held \cap memory = {}
    /\ {dir_frame} \cup Tables \cup held \cup memory \subseteq used \ {0}
    /\ ~SharedTable => \A p, q \in Loaded : Phys(p) = Phys(q) => p = q

\* Whatever is mapped, unmapped and loaded, and with tables made of frames that
\* had another use before: the kernel's pages lead to themselves unless a load
\* was addressed to them, a page of a device leads to the device or nowhere, and
\* a page nobody mapped leads nowhere, unless its table is a shared one.
TranslationsAsAsked ==
  Booted =>
    \A p \in Pages \ covered :
      \/ p < Ident /\ Phys(p) = p
      \/ p \in DevicePages \cup {BootFb[i] : i \in DOMAIN BootFb} /\ Phys(p) = p
      \/ p >= Ident /\ Phys(p) = NoPage
      \/ SharedTable /\ dir[p \div Span] = 0

\* elf_load returns 0 ...
LoadEnds == pc = "load" /\ pc' = "idle" /\ at >= PageEnd(image[seg]) /\ seg = Len(image)

\* A program header as the ELF format wants it: it describes a part of the file,
\* no longer than the memory it asks for, and its sums do not wrap.
WellFormed(s) ==
  /\ s.offset + s.filesz < Word
  /\ s.filesz <= s.memsz
  /\ s.vaddr + s.memsz + PageSize - 1 < Word

\* The pages of such a segment.
SegPages(s) == s.vaddr \div PageSize .. (s.vaddr + s.memsz - 1) \div PageSize

\* The frame of page p holds what load l has copied from segment k, and nobody but
\* the heap has written there since, and that only to its own page or frame.
Holds(l, k, p) ==
  /\ Phys(p) \in Frames
  /\ \/ content[Phys(p)] = {<<l, k>>}
     \/ content[Phys(p)] = {<<l, k>>, HeapData} /\ (p \in Heap \/ Phys(p) \in Heap)

\* ... for a program with sound headers only when every page of every segment leads
\* to a frame that holds the segment's bytes, whatever other programs were loaded
\* before it.  Pages that a later segment shares are left out: they got a new frame,
\* without the bytes of the earlier one; and so is a directory with a shared table,
\* where the second entry has wiped out the pages of the first.
LoadComplete ==
  [][LoadEnds /\ ~SharedTable /\ (\A k \in DOMAIN image : WellFormed(image[k])) =>
       \A k \in DOMAIN image :
         \A p \in SegPages(image[k]) \ UNION {SegPages(image[j]) : j \in k + 1 .. Len(image)} :
           Holds(loads, k, p)']_vars

\* What heap.h:6-8 says and the code does not keep: the heap is at a safe fixed
\* address, past kernel, bitmap and page tables.  No frame of it is also a page table
\* or the memory of a program.
HeapApart == Booted => Heap \cap ({dir_frame} \cup Tables \cup Led(Loaded)) = {}
=============================================================================
