---------------------------- MODULE DoriFSProofs ----------------------------
(***************************************************************************)
(* Theorems about DoriFS, for every number of inodes and blocks, every     *)
(* shape of an inode and a block, and every place of a crash.              *)
(*                                                                         *)
(* An operation works on a context: first that every function of the code  *)
(* keeps the types of one; then that every disk image in its log is sound, *)
(* where the disk an operation would leave if it wrote its local inode now *)
(* is what the images are compared with; that the counts in memory go with *)
(* the bitmap and the inode table; and that no block and no inode is lost  *)
(* on the way.                                                             *)
(***************************************************************************)
EXTENDS DoriFS, NatLemmas, SequenceTheorems, FiniteSetTheorems

-----------------------------------------------------------------------------
(* Types *)

Ram == [bitmap : SUBSET Blocks, sb : Counts]

Contexts ==
  [disk : Disk, ram : Ram, inode : Inode, at : Nat, log : Seq(Disk),
   lost : SUBSET {"blocks", "inodes"}]

\* What the assumptions say of the constants, in one place.
LEMMA Constants ==
  /\ NInodes \in Nat /\ NInodes >= 2 /\ Root \in Inodes /\ Inodes \subseteq Nat /\ 0 \notin Inodes
  /\ NBlocks \in Nat /\ NBlocks >= 1 /\ Blocks \subseteq Nat /\ 0 \notin Blocks
  /\ NDirect \in Nat /\ NDirect >= 1 /\ NIndirect \in Nat /\ NIndirect >= 1
  /\ EntriesPerBlock \in Nat /\ EntriesPerBlock >= 1
  /\ Word \in Nat /\ Word > NInodes /\ Word > NBlocks
  /\ TruncateSizes \subseteq Nat /\ MaxFileSize \in Nat /\ MaxEntries \in Nat /\ MaxRestarts \in Nat
  /\ Block0 = Blocks \cup {0}
<1>1. NInodes \in Nat /\ NInodes >= 2 /\ Root \in Inodes /\ Inodes \subseteq Nat /\ 0 \notin Inodes
  BY InodesAssumption DEF Root, Inodes
<1>2. NBlocks \in Nat \ {0} /\ NDirect \in Nat \ {0} /\ NIndirect \in Nat \ {0}
  BY BlocksAssumption
<1>3. Blocks \subseteq Nat /\ 0 \notin Blocks /\ Block0 = Blocks \cup {0}
  BY <1>2 DEF Blocks, Block0
<1>4. /\ EntriesPerBlock \in Nat /\ EntriesPerBlock >= 1
      /\ Word \in Nat /\ Word > NInodes /\ Word > NBlocks
      /\ TruncateSizes \subseteq Nat /\ MaxFileSize \in Nat /\ MaxEntries \in Nat /\ MaxRestarts \in Nat
  BY EntriesAssumption, WordAssumption, BoundsAssumption
<1>5. QED
  BY <1>1, <1>2, <1>3, <1>4

\* What is zeroed, and the entry of a deleted name.
LEMMA ZeroTypes == NoEntry \in DirEntry /\ ZeroInode \in Inode /\ ZeroBlock \in Content
<1>1. NoEntry \in DirEntry
  BY Constants DEF NoEntry, DirEntry, Types
<1>2. ZeroInode \in Inode
  BY Constants DEF ZeroInode, Inode, Types
<1>3. ZeroBlock \in Content
  BY <1>1, Constants DEF ZeroBlock, Content
<1>4. QED
  BY <1>1, <1>2, <1>3

\* The counts wrap.
LEMMA CountTypes ==
  \A n \in 0 .. Word - 1 : Plus(n, 1) \in 0 .. Word - 1 /\ Minus(n, 1) \in 0 .. Word - 1
BY Constants DEF Plus, Minus

\* A file block is on the disk or nowhere.
LEMMA GetBlockType ==
  ASSUME NEW d \in Disk, NEW inode \in Inode, NEW fb \in Nat
  PROVE  GetBlock(d, inode, fb) \in Block0
<1>1. CASE fb < NDirect
  BY <1>1, Constants DEF GetBlock, Inode
<1>2. CASE ~(fb < NDirect) /\ (fb - NDirect >= NIndirect \/ inode.indirect = 0)
  BY <1>2, Constants DEF GetBlock
<1>3. CASE ~(fb < NDirect) /\ ~(fb - NDirect >= NIndirect \/ inode.indirect = 0)
  <2>1. inode.indirect \in Blocks
    BY <1>3, Constants DEF Inode
  <2>2. d.blocks[inode.indirect] \in Content
    BY <2>1 DEF Disk
  <2>3. fb - NDirect + 1 \in 1 .. NIndirect
    BY <1>3, Constants
  <2>4. d.blocks[inode.indirect].ptrs[fb - NDirect + 1] \in Block0
    BY <2>2, <2>3 DEF Content
  <2>5. QED
    BY <1>3, <2>4 DEF GetBlock
<1>4. QED
  BY <1>1, <1>2, <1>3

\* dorifs_alloc_block chooses a free block, if there is one.
LEMMA NextBlockFree ==
  ASSUME NEW c \in Contexts
  PROVE  /\ NextBlock(c) \in Block0
         /\ NextBlock(c) # 0 => NextBlock(c) \in Blocks \ c.ram.bitmap
<1> DEFINE free == Blocks \ c.ram.bitmap
<1>1. CASE free = {}
  BY <1>1, Constants DEF NextBlock
<1>2. CASE free # {}
  <2>1. free \subseteq Nat
    BY Constants
  <2> HIDE DEF free
  <2>2. Min(free) \in free
    BY <1>2, <2>1, MinLeast
  <2> USE DEF free
  <2>3. NextBlock(c) = Min(free)
    BY <1>2 DEF NextBlock
  <2>4. QED
    BY <2>2, <2>3, Constants
<1>3. QED
  BY <1>1, <1>2

\* One more image.
LEMMA PutFacts ==
  ASSUME NEW c \in Contexts, NEW d \in Disk
  PROVE  /\ Put(c, d) \in Contexts
         /\ Put(c, d).disk = d /\ Put(c, d).log = Append(c.log, d)
         /\ Put(c, d).ram = c.ram /\ Put(c, d).inode = c.inode
         /\ Put(c, d).at = c.at /\ Put(c, d).lost = c.lost
<1>1. Append(c.log, d) \in Seq(Disk)
  BY DEF Contexts
<1>2. QED
  BY <1>1 DEF Put, Contexts

\* A block of the inode table is written.
LEMMA WriteInodeFacts ==
  ASSUME NEW c \in Contexts, NEW ino \in Inodes, NEW inode \in Inode
  PROVE  LET d == [c.disk EXCEPT !.inodes[ino] = inode] IN
         d \in Disk /\ WriteInode(c, ino, inode) = Put(c, d)
                    /\ WriteInode(c, ino, inode) \in Contexts
<1> DEFINE d == [c.disk EXCEPT !.inodes[ino] = inode]
<1>1. d \in Disk
  BY DEF Contexts, Disk
<1>2. WriteInode(c, ino, inode) = Put(c, d)
  BY DEF WriteInode
<1>3. QED
  BY <1>1, <1>2, PutFacts

\* A data block is written.
LEMMA WriteBlockFacts ==
  ASSUME NEW c \in Contexts, NEW b \in Blocks, NEW content \in Content
  PROVE  LET d == [c.disk EXCEPT !.blocks[b] = content] IN
         d \in Disk /\ WriteBlock(c, b, content) = Put(c, d)
                    /\ WriteBlock(c, b, content) \in Contexts
<1> DEFINE d == [c.disk EXCEPT !.blocks[b] = content]
<1>1. d \in Disk
  BY DEF Contexts, Disk
<1>2. WriteBlock(c, b, content) = Put(c, d)
  BY DEF WriteBlock
<1>3. QED
  BY <1>1, <1>2, PutFacts

\* The bitmap is written.
LEMMA WriteBitmapFacts ==
  ASSUME NEW c \in Contexts
  PROVE  LET d == [c.disk EXCEPT !.bitmap = c.ram.bitmap] IN
         d \in Disk /\ WriteBitmap(c) = Put(c, d) /\ WriteBitmap(c) \in Contexts
<1> DEFINE d == [c.disk EXCEPT !.bitmap = c.ram.bitmap]
<1>1. d \in Disk
  BY DEF Contexts, Disk, Ram
<1>2. WriteBitmap(c) = Put(c, d)
  BY DEF WriteBitmap
<1>3. QED
  BY <1>1, <1>2, PutFacts

\* a is c after one more block write, which leaves d; ram is another matter.
Leaves(c, a, d) ==
  /\ a \in Contexts /\ d \in Disk
  /\ a.disk = d /\ a.log = Append(c.log, d)
  /\ a.inode = c.inode /\ a.at = c.at /\ a.lost = c.lost

\* The three block writes leave one image each.
LEMMA WritesLeave ==
  ASSUME NEW c \in Contexts
  PROVE  /\ \A ino \in Inodes, inode \in Inode :
              LET w == WriteInode(c, ino, inode) IN
              Leaves(c, w, [c.disk EXCEPT !.inodes[ino] = inode]) /\ w.ram = c.ram
         /\ \A b \in Blocks, content \in Content :
              LET w == WriteBlock(c, b, content) IN
              Leaves(c, w, [c.disk EXCEPT !.blocks[b] = content]) /\ w.ram = c.ram
         /\ LET w == WriteBitmap(c) IN
            Leaves(c, w, [c.disk EXCEPT !.bitmap = c.ram.bitmap]) /\ w.ram = c.ram
<1>0. ASSUME NEW d \in Disk
      PROVE  Leaves(c, Put(c, d), d) /\ Put(c, d).ram = c.ram
  BY PutFacts DEF Leaves
<1>1. ASSUME NEW ino \in Inodes, NEW inode \in Inode
      PROVE  LET w == WriteInode(c, ino, inode) IN
             Leaves(c, w, [c.disk EXCEPT !.inodes[ino] = inode]) /\ w.ram = c.ram
  <2> DEFINE d == [c.disk EXCEPT !.inodes[ino] = inode]
  <2>1. d \in Disk /\ WriteInode(c, ino, inode) = Put(c, d)
    BY WriteInodeFacts
  <2> HIDE DEF d
  <2>2. Leaves(c, WriteInode(c, ino, inode), d) /\ WriteInode(c, ino, inode).ram = c.ram
    BY <1>0, <2>1
  <2>3. QED
    BY <2>2 DEF d
<1>2. ASSUME NEW b \in Blocks, NEW content \in Content
      PROVE  LET w == WriteBlock(c, b, content) IN
             Leaves(c, w, [c.disk EXCEPT !.blocks[b] = content]) /\ w.ram = c.ram
  <2> DEFINE d == [c.disk EXCEPT !.blocks[b] = content]
  <2>1. d \in Disk /\ WriteBlock(c, b, content) = Put(c, d)
    BY WriteBlockFacts
  <2> HIDE DEF d
  <2>2. Leaves(c, WriteBlock(c, b, content), d) /\ WriteBlock(c, b, content).ram = c.ram
    BY <1>0, <2>1
  <2>3. QED
    BY <2>2 DEF d
<1>3. LET w == WriteBitmap(c) IN
      Leaves(c, w, [c.disk EXCEPT !.bitmap = c.ram.bitmap]) /\ w.ram = c.ram
  <2> DEFINE d == [c.disk EXCEPT !.bitmap = c.ram.bitmap]
  <2>1. d \in Disk /\ WriteBitmap(c) = Put(c, d)
    BY WriteBitmapFacts
  <2> HIDE DEF d
  <2>2. Leaves(c, WriteBitmap(c), d) /\ WriteBitmap(c).ram = c.ram
    BY <1>0, <2>1
  <2>3. QED
    BY <2>2 DEF d
<1>4. QED
  BY <1>1, <1>2, <1>3

\* dorifs_alloc_block, when it finds a block.
LEMMA AllocBlockFacts ==
  ASSUME NEW c \in Contexts, NextBlock(c) # 0
  PROVE  LET a == AllocBlock(c)
             b == NextBlock(c)
         IN  /\ Leaves(c, a, [c.disk EXCEPT !.bitmap = c.ram.bitmap \cup {b}])
             /\ a.ram.bitmap = c.ram.bitmap \cup {b}
             /\ a.ram.sb.free_blocks = Minus(c.ram.sb.free_blocks, 1)
             /\ a.ram.sb.free_inodes = c.ram.sb.free_inodes
<1> DEFINE b == NextBlock(c)
           c1 == [c EXCEPT !.ram.bitmap = @ \cup {b}, !.ram.sb.free_blocks = Minus(@, 1)]
<1>1. b \in Blocks
  BY NextBlockFree
<1>2. Minus(c.ram.sb.free_blocks, 1) \in 0 .. Word - 1
  BY CountTypes DEF Contexts, Ram, Counts
<1>3. /\ c1 \in Contexts /\ c1.disk = c.disk /\ c1.log = c.log /\ c1.inode = c.inode
      /\ c1.at = c.at /\ c1.lost = c.lost /\ c1.ram.bitmap = c.ram.bitmap \cup {b}
      /\ c1.ram.sb.free_blocks = Minus(c.ram.sb.free_blocks, 1)
      /\ c1.ram.sb.free_inodes = c.ram.sb.free_inodes
  BY <1>1, <1>2 DEF Contexts, Ram, Counts
<1>4. AllocBlock(c) = WriteBitmap(c1)
  BY DEF AllocBlock
<1> HIDE DEF c1, b
<1>5. LET w == WriteBitmap(c1) IN
      Leaves(c1, w, [c1.disk EXCEPT !.bitmap = c1.ram.bitmap]) /\ w.ram = c1.ram
  BY <1>3, WritesLeave
<1>6. QED
  BY <1>3, <1>4, <1>5 DEF Leaves, b

\* dorifs_free_block.
LEMMA FreeBlockFacts ==
  ASSUME NEW c \in Contexts, NEW b
  PROVE  LET a == FreeBlock(c, b)
         IN  /\ Leaves(c, a, [c.disk EXCEPT !.bitmap = c.ram.bitmap \ {b}])
             /\ a.ram.bitmap = c.ram.bitmap \ {b}
             /\ a.ram.sb.free_blocks = Plus(c.ram.sb.free_blocks, 1)
             /\ a.ram.sb.free_inodes = c.ram.sb.free_inodes
<1> DEFINE c1 == [c EXCEPT !.ram.bitmap = @ \ {b}, !.ram.sb.free_blocks = Plus(@, 1)]
<1>2. Plus(c.ram.sb.free_blocks, 1) \in 0 .. Word - 1
  BY CountTypes DEF Contexts, Ram, Counts
<1>3. /\ c1 \in Contexts /\ c1.disk = c.disk /\ c1.log = c.log /\ c1.inode = c.inode
      /\ c1.at = c.at /\ c1.lost = c.lost /\ c1.ram.bitmap = c.ram.bitmap \ {b}
      /\ c1.ram.sb.free_blocks = Plus(c.ram.sb.free_blocks, 1)
      /\ c1.ram.sb.free_inodes = c.ram.sb.free_inodes
  BY <1>2 DEF Contexts, Ram, Counts
<1>4. FreeBlock(c, b) = WriteBitmap(c1)
  BY DEF FreeBlock
<1> HIDE DEF c1
<1>5. LET w == WriteBitmap(c1) IN
      Leaves(c1, w, [c1.disk EXCEPT !.bitmap = c1.ram.bitmap]) /\ w.ram = c1.ram
  BY <1>3, WritesLeave
<1>6. QED
  BY <1>3, <1>4, <1>5 DEF Leaves

\* dorifs_free_inode.
LEMMA FreeInodeFacts ==
  ASSUME NEW c \in Contexts, NEW ino \in Inodes
  PROVE  LET a == FreeInode(c, ino)
         IN  /\ Leaves(c, a, [c.disk EXCEPT !.inodes[ino] = ZeroInode])
             /\ a.ram.bitmap = c.ram.bitmap
             /\ a.ram.sb.free_blocks = c.ram.sb.free_blocks
             /\ a.ram.sb.free_inodes = Plus(c.ram.sb.free_inodes, 1)
<1> DEFINE w == WriteInode(c, ino, ZeroInode)
<1>1. Leaves(c, w, [c.disk EXCEPT !.inodes[ino] = ZeroInode]) /\ w.ram = c.ram
  BY WritesLeave, ZeroTypes
<1>2. Plus(c.ram.sb.free_inodes, 1) \in 0 .. Word - 1
  BY CountTypes DEF Contexts, Ram, Counts
<1>3. FreeInode(c, ino) = [w EXCEPT !.ram.sb.free_inodes = Plus(w.ram.sb.free_inodes, 1)]
  BY DEF FreeInode
<1>4. w \in Contexts
  BY <1>1 DEF Leaves
<1> DEFINE n == Plus(c.ram.sb.free_inodes, 1)
           f == [w EXCEPT !.ram.sb.free_inodes = n]
<1>5. FreeInode(c, ino) = f
  BY <1>1, <1>3
<1> HIDE DEF w, n
<1>6. n \in 0 .. Word - 1
  BY <1>2 DEF n
<1>7. /\ f \in Contexts /\ f.disk = w.disk /\ f.log = w.log /\ f.inode = w.inode
      /\ f.at = w.at /\ f.lost = w.lost /\ f.ram.bitmap = w.ram.bitmap
      /\ f.ram.sb.free_blocks = w.ram.sb.free_blocks /\ f.ram.sb.free_inodes = n
  BY <1>4, <1>6 DEF Contexts, Ram, Counts
<1> HIDE DEF f
<1>8. QED
  BY <1>1, <1>5, <1>7 DEF Leaves, n

\* dorifs_set_block may need an indirect block first ...
LEMMA WithIndirectFacts ==
  ASSUME NEW c \in Contexts
  PROVE  LET w == WithIndirect(c)
             b == NextBlock(c)
             a == AllocBlock(c)
         IN  /\ c.inode.indirect # 0 \/ b = 0 => w = c
             /\ c.inode.indirect = 0 /\ b # 0 =>
                  /\ w \in Contexts
                  /\ w.disk = [a.disk EXCEPT !.blocks[b] = ZeroBlock]
                  /\ w.log = Append(a.log, w.disk)
                  /\ w.inode = [c.inode EXCEPT !.indirect = b]
                  /\ w.ram = a.ram /\ w.at = c.at /\ w.lost = c.lost
<1> DEFINE b == NextBlock(c)
           a == AllocBlock(c)
           a1 == [a EXCEPT !.inode.indirect = b]
<1>1. CASE c.inode.indirect # 0 \/ b = 0
  BY <1>1 DEF WithIndirect
<1>2. CASE c.inode.indirect = 0 /\ b # 0
  <2>1. b \in Blocks
    BY <1>2, NextBlockFree
  <2>2. a \in Contexts /\ a.inode = c.inode /\ a.at = c.at /\ a.lost = c.lost
    BY <1>2, AllocBlockFacts DEF Leaves
  <2>3. WithIndirect(c) = WriteBlock(a1, b, ZeroBlock)
    BY <1>2 DEF WithIndirect
  <2> HIDE DEF a, b
  <2>4. [c.inode EXCEPT !.indirect = b] \in Inode
    BY <2>1, Constants DEF Contexts, Inode
  <2>5. /\ a1 \in Contexts /\ a1.disk = a.disk /\ a1.log = a.log /\ a1.ram = a.ram
        /\ a1.inode = [c.inode EXCEPT !.indirect = b] /\ a1.at = c.at /\ a1.lost = c.lost
    BY <2>2, <2>4 DEF Contexts
  <2> HIDE DEF a1
  <2>6. LET w == WriteBlock(a1, b, ZeroBlock) IN
        Leaves(a1, w, [a1.disk EXCEPT !.blocks[b] = ZeroBlock]) /\ w.ram = a1.ram
    BY <2>1, <2>5, WritesLeave, ZeroTypes
  <2>7. QED
    BY <1>2, <2>3, <2>5, <2>6 DEF Leaves, a, b
<1>3. QED
  BY <1>1, <1>2

\* ... and then the place of file block fb is in the inode or in the indirect
\* block, or there is none and the block is lost.
LEMMA SetBlockFacts ==
  ASSUME NEW c \in Contexts, NEW fb \in Nat, NEW b \in Block0
  PROVE  LET s == SetBlock(c, fb, b)
             w == WithIndirect(c)
             x == w.inode.indirect
         IN  /\ s \in Contexts /\ w \in Contexts
             /\ fb < NDirect => s = [c EXCEPT !.inode.direct[fb + 1] = b]
             /\ ~(fb < NDirect) /\ fb - NDirect >= NIndirect =>
                  s = [c EXCEPT !.lost = @ \cup {"blocks"}]
             /\ ~(fb < NDirect) /\ ~(fb - NDirect >= NIndirect) /\ x = 0 =>
                  s = [w EXCEPT !.lost = @ \cup {"blocks"}]
             /\ ~(fb < NDirect) /\ ~(fb - NDirect >= NIndirect) /\ x # 0 =>
                  /\ x \in Blocks
                  /\ Leaves(w, s, [w.disk EXCEPT !.blocks[x] =
                                     [w.disk.blocks[x] EXCEPT !.ptrs[fb - NDirect + 1] = b]])
                  /\ s.ram = w.ram
<1> DEFINE s == SetBlock(c, fb, b)
           w == WithIndirect(c)
           x == w.inode.indirect
<1>1. w \in Contexts
  <2>1. c.inode.indirect # 0 \/ NextBlock(c) = 0 \/ (c.inode.indirect = 0 /\ NextBlock(c) # 0)
    OBVIOUS
  <2>2. QED
    BY <2>1, WithIndirectFacts
<1>2. CASE fb < NDirect
  <2>1. s = [c EXCEPT !.inode.direct[fb + 1] = b]
    BY <1>2 DEF SetBlock
  <2>2. c.inode \in Inode /\ c.inode.direct \in [1 .. NDirect -> Block0]
    BY DEF Contexts, Inode
  <2>3. [c.inode EXCEPT !.direct[fb + 1] = b] \in Inode
    BY <2>2 DEF Inode
  <2>4. s = [c EXCEPT !.inode = [c.inode EXCEPT !.direct[fb + 1] = b]]
    BY <2>1
  <2> HIDE DEF s, w
  <2>5. s \in Contexts
    BY <2>3, <2>4 DEF Contexts
  <2>6. QED
    BY <1>1, <1>2, <2>1, <2>5 DEF s, w
<1>3. CASE ~(fb < NDirect) /\ fb - NDirect >= NIndirect
  <2>1. s = [c EXCEPT !.lost = @ \cup {"blocks"}]
    BY <1>3 DEF SetBlock
  <2> HIDE DEF s, w
  <2>2. s \in Contexts
    BY <2>1 DEF Contexts
  <2>3. QED
    BY <1>1, <1>3, <2>1, <2>2 DEF s, w
<1>4. CASE ~(fb < NDirect) /\ ~(fb - NDirect >= NIndirect) /\ x = 0
  <2>1. s = [w EXCEPT !.lost = @ \cup {"blocks"}]
    BY <1>4 DEF SetBlock
  <2> HIDE DEF s, w
  <2>2. s \in Contexts
    BY <1>1, <2>1 DEF Contexts
  <2>3. QED
    BY <1>1, <1>4, <2>1, <2>2 DEF s, w
<1>5. CASE ~(fb < NDirect) /\ ~(fb - NDirect >= NIndirect) /\ x # 0
  <2> DEFINE content == [w.disk.blocks[x] EXCEPT !.ptrs[fb - NDirect + 1] = b]
  <2>1. s = WriteBlock(w, x, content)
    BY <1>5 DEF SetBlock
  <2> HIDE DEF s, w
  <2>2. x \in Blocks
    BY <1>1, <1>5, Constants DEF Contexts, Inode
  <2>3. w.disk.blocks[x] \in Content
    BY <1>1, <2>2 DEF Contexts, Disk
  <2>4. content \in Content
    BY <2>3, Constants DEF Content
  <2> HIDE DEF content
  <2>5. Leaves(w, s, [w.disk EXCEPT !.blocks[x] = content]) /\ s.ram = w.ram
    BY <1>1, <2>1, <2>2, <2>4, WritesLeave
  <2>6. QED
    BY <1>1, <1>5, <2>2, <2>5 DEF s, w, content, Leaves
<1>6. QED
  BY <1>2, <1>3, <1>4, <1>5

\* A file grows: the pointer, and the count of blocks.
LEMMA GrowFacts ==
  ASSUME NEW c \in Contexts, NEW fb \in Nat, NEW b \in Block0
  PROVE  LET g == Grow(c, fb, b)
             s == SetBlock(c, fb, b)
         IN  /\ g \in Contexts /\ s \in Contexts
             /\ g = [s EXCEPT !.inode.block_count = Plus(s.inode.block_count, 1)]
             /\ Plus(s.inode.block_count, 1) \in 0 .. Word - 1
             /\ g.disk = s.disk /\ g.ram = s.ram /\ g.log = s.log /\ g.at = s.at
             /\ g.lost = s.lost
             /\ g.inode = [s.inode EXCEPT !.block_count = Plus(s.inode.block_count, 1)]
<1> DEFINE s == SetBlock(c, fb, b)
           n == Plus(s.inode.block_count, 1)
<1>1. s \in Contexts
  BY SetBlockFacts
<1>2. Grow(c, fb, b) = [s EXCEPT !.inode.block_count = n]
  BY DEF Grow
<1> HIDE DEF s
<1>3. n \in 0 .. Word - 1
  BY <1>1, CountTypes DEF Contexts, Inode
<1> HIDE DEF n
<1>4. [s.inode EXCEPT !.block_count = n] \in Inode
  BY <1>1, <1>3 DEF Contexts, Inode
<1>5. [s EXCEPT !.inode.block_count = n] = [s EXCEPT !.inode = [s.inode EXCEPT !.block_count = n]]
  OBVIOUS
<1>6. QED
  BY <1>1, <1>2, <1>3, <1>4, <1>5 DEF s, n, Contexts

-----------------------------------------------------------------------------
(* What the superblock counts                                               *)

BlocksCounted(c) == c.ram.sb.free_blocks = Cardinality(Blocks \ c.ram.bitmap)
InodesCounted(c) == c.ram.sb.free_inodes = Cardinality(FreeInodes(c.disk))
Counted(c) == BlocksCounted(c) /\ InodesCounted(c)

\* From c to a the count of free blocks has gone with the bitmap.
BlocksKept(c, a) ==
  /\ BlocksCounted(c) => BlocksCounted(a)
  /\ a.ram.sb.free_inodes = c.ram.sb.free_inodes

\* One up or down, where nothing wraps.
LEMMA CountSteps ==
  ASSUME NEW n \in Nat
  PROVE  /\ n + 1 < Word => Plus(n, 1) = n + 1
         /\ n >= 1 /\ n < Word => Minus(n, 1) = n - 1
<1>1. Word \in Nat \ {0}
  BY Constants
<1>2. ASSUME NEW i \in 0 .. 2 * Word - 1 PROVE i % Word = IF i < Word THEN i ELSE i - Word
  BY <1>1
<1>3. n + 1 < Word => Plus(n, 1) = n + 1
  BY <1>1, <1>2 DEF Plus
<1>4. ASSUME n >= 1, n < Word PROVE Minus(n, 1) = n - 1
  <2> DEFINE m == n + Word - 1
  <2>1. m \in 0 .. 2 * Word - 1 /\ ~(m < Word) /\ m - Word = n - 1
    BY <1>1, <1>4
  <2> HIDE DEF m
  <2>2. m % Word = n - 1
    BY <1>2, <2>1
  <2>3. QED
    BY <2>2 DEF m, Minus
<1>5. QED
  BY <1>3, <1>4

\* Blocks and inodes are finitely many.
LEMMA FiniteParts ==
  /\ \A S \in SUBSET Blocks : IsFiniteSet(S) /\ Cardinality(S) \in 0 .. NBlocks
  /\ \A S \in SUBSET Inodes : IsFiniteSet(S) /\ Cardinality(S) \in 0 .. NInodes - 1
  /\ Cardinality(Blocks) = NBlocks /\ Cardinality(Inodes) = NInodes - 1
<1>1. NBlocks \in Int /\ 1 \in Int /\ NInodes - 1 \in Int /\ NBlocks >= 1 /\ NInodes - 1 >= 1
  BY Constants
<1>2. IsFiniteSet(Blocks) /\ IsFiniteSet(Inodes)
  BY <1>1, FS_Interval DEF Blocks, Inodes
<1>3. /\ Cardinality(1 .. NBlocks) = IF 1 > NBlocks THEN 0 ELSE NBlocks - 1 + 1
      /\ Cardinality(1 .. NInodes - 1) = IF 1 > NInodes - 1 THEN 0 ELSE (NInodes - 1) - 1 + 1
  BY <1>1, FS_Interval, Zenon
<1>4. Cardinality(Blocks) = NBlocks /\ Cardinality(Inodes) = NInodes - 1
  BY <1>1, <1>3 DEF Blocks, Inodes
<1>5. ASSUME NEW S \in SUBSET Blocks
      PROVE  IsFiniteSet(S) /\ Cardinality(S) \in 0 .. NBlocks
  BY <1>2, <1>4, FS_Subset, FS_CardinalityType
<1>6. ASSUME NEW S \in SUBSET Inodes
      PROVE  IsFiniteSet(S) /\ Cardinality(S) \in 0 .. NInodes - 1
  BY <1>2, <1>4, FS_Subset, FS_CardinalityType
<1>7. QED
  BY <1>4, <1>5, <1>6

\* A count follows a set by one element.
LEMMA CountedOut ==
  ASSUME NEW S, S \in SUBSET Blocks \/ S \in SUBSET Inodes, NEW x \in S, NEW n, n = Cardinality(S)
  PROVE  Minus(n, 1) = Cardinality(S \ {x})
<1>1. IsFiniteSet(S) /\ n \in Nat /\ n < Word
  BY FiniteParts, Constants
<1>2. IsFiniteSet(S \ {x}) /\ Cardinality(S \ {x}) = n - 1 /\ Cardinality(S \ {x}) \in Nat
  BY <1>1, FS_RemoveElement, FS_CardinalityType
<1>3. QED
  BY <1>1, <1>2, CountSteps

\* The same when it joins.
LEMMA CountedIn ==
  ASSUME NEW S, NEW x, NEW T, T = S \cup {x}, x \notin S,
         T \in SUBSET Blocks \/ T \in SUBSET Inodes, NEW n, n = Cardinality(S)
  PROVE  Plus(n, 1) = Cardinality(T)
<1>1. IsFiniteSet(T) /\ Cardinality(T) \in Nat /\ Cardinality(T) < Word
  BY FiniteParts, Constants
<1>2. IsFiniteSet(S) /\ n \in Nat
  BY <1>1, FS_Subset, FS_CardinalityType
<1>3. Cardinality(T) = n + 1
  BY <1>2, FS_AddElement
<1>4. QED
  BY <1>1, <1>2, <1>3, CountSteps

\* dorifs_alloc_block counts what it takes ...
LEMMA AllocCounts ==
  ASSUME NEW c \in Contexts, NextBlock(c) # 0
  PROVE  BlocksKept(c, AllocBlock(c))
<1> DEFINE b == NextBlock(c)
           a == AllocBlock(c)
           S == Blocks \ c.ram.bitmap
<1>1. b \in S
  BY NextBlockFree
<1>2. /\ a.ram.bitmap = c.ram.bitmap \cup {b}
      /\ a.ram.sb.free_blocks = Minus(c.ram.sb.free_blocks, 1)
      /\ a.ram.sb.free_inodes = c.ram.sb.free_inodes
  BY AllocBlockFacts
<1> HIDE DEF a, b
<1>3. Blocks \ a.ram.bitmap = S \ {b}
  BY <1>2
<1>4. BlocksCounted(c) => Minus(c.ram.sb.free_blocks, 1) = Cardinality(S \ {b})
  BY <1>1, CountedOut DEF BlocksCounted
<1>5. QED
  BY <1>2, <1>3, <1>4 DEF BlocksKept, BlocksCounted, a

\* ... and dorifs_free_block what it gives back, if it was marked.
LEMMA FreeCounts ==
  ASSUME NEW c \in Contexts, NEW b \in c.ram.bitmap
  PROVE  BlocksKept(c, FreeBlock(c, b))
<1> DEFINE a == FreeBlock(c, b)
           S == Blocks \ c.ram.bitmap
           T == Blocks \ a.ram.bitmap
<1>1. /\ a.ram.bitmap = c.ram.bitmap \ {b}
      /\ a.ram.sb.free_blocks = Plus(c.ram.sb.free_blocks, 1)
      /\ a.ram.sb.free_inodes = c.ram.sb.free_inodes
  BY FreeBlockFacts
<1> HIDE DEF a
<1>2. T = S \cup {b} /\ b \notin S
  BY <1>1 DEF Contexts, Ram
<1>3. BlocksCounted(c) => Plus(c.ram.sb.free_blocks, 1) = Cardinality(T)
  BY <1>2, CountedIn DEF BlocksCounted
<1>4. QED
  BY <1>1, <1>3 DEF BlocksKept, BlocksCounted, a

\* Counts that are kept from c to a and on to b are kept.
LEMMA BlocksKeptTrans ==
  ASSUME NEW c, NEW a, NEW b, BlocksKept(c, a), BlocksKept(a, b)
  PROVE  BlocksKept(c, b)
BY DEF BlocksKept

\* The memory alone matters.
LEMMA SameRam ==
  ASSUME NEW c, NEW a, a.ram = c.ram
  PROVE  BlocksKept(c, a)
BY DEF BlocksKept, BlocksCounted

\* What the inode table says is free is counted after a step that has given back,
\* taken or left alone what is free.
LEMMA InodesSame ==
  ASSUME NEW c, NEW a, InodesCounted(c), a.ram.sb.free_inodes = c.ram.sb.free_inodes,
         \A i \in Inodes : a.disk.inodes[i].type = c.disk.inodes[i].type
  PROVE  InodesCounted(a)
<1>1. FreeInodes(a.disk) = FreeInodes(c.disk)
  BY DEF FreeInodes
<1>2. QED
  BY <1>1 DEF InodesCounted

\* An inode taken ...
LEMMA InodeTaken ==
  ASSUME NEW c, NEW a, InodesCounted(c), NEW ino \in Inodes, c.disk.inodes[ino].type = "FREE",
         a.ram.sb.free_inodes = Minus(c.ram.sb.free_inodes, 1), a.disk.inodes[ino].type # "FREE",
         \A i \in Inodes \ {ino} : a.disk.inodes[i].type = c.disk.inodes[i].type
  PROVE  InodesCounted(a)
<1>1. FreeInodes(a.disk) = FreeInodes(c.disk) \ {ino} /\ ino \in FreeInodes(c.disk)
      /\ FreeInodes(c.disk) \in SUBSET Inodes
  BY DEF FreeInodes
<1>2. Minus(c.ram.sb.free_inodes, 1) = Cardinality(FreeInodes(c.disk) \ {ino})
  BY <1>1, CountedOut DEF InodesCounted
<1>3. QED
  BY <1>1, <1>2 DEF InodesCounted

\* ... or given back.
LEMMA InodeGiven ==
  ASSUME NEW c, NEW a, InodesCounted(c), NEW ino \in Inodes, c.disk.inodes[ino].type # "FREE",
         a.ram.sb.free_inodes = Plus(c.ram.sb.free_inodes, 1), a.disk.inodes[ino].type = "FREE",
         \A i \in Inodes \ {ino} : a.disk.inodes[i].type = c.disk.inodes[i].type
  PROVE  InodesCounted(a)
<1>1. FreeInodes(a.disk) = FreeInodes(c.disk) \cup {ino} /\ ino \notin FreeInodes(c.disk)
      /\ FreeInodes(a.disk) \in SUBSET Inodes
  BY DEF FreeInodes
<1>2. Plus(c.ram.sb.free_inodes, 1) = Cardinality(FreeInodes(a.disk))
  BY <1>1, CountedIn DEF InodesCounted
<1>3. QED
  BY <1>1, <1>2 DEF InodesCounted

\* dorifs_free_inode, for an inode that is in use.
LEMMA FreeInodeCounts ==
  ASSUME NEW c \in Contexts, NEW ino \in Inodes, c.disk.inodes[ino].type # "FREE"
  PROVE  Counted(c) => Counted(FreeInode(c, ino))
<1> DEFINE a == FreeInode(c, ino)
<1>1. /\ a.disk = [c.disk EXCEPT !.inodes[ino] = ZeroInode]
      /\ a.ram.bitmap = c.ram.bitmap /\ a.ram.sb.free_blocks = c.ram.sb.free_blocks
      /\ a.ram.sb.free_inodes = Plus(c.ram.sb.free_inodes, 1)
  BY FreeInodeFacts DEF Leaves
<1> HIDE DEF a
<1>2. /\ a.disk.inodes[ino].type = "FREE"
      /\ \A i \in Inodes \ {ino} : a.disk.inodes[i] = c.disk.inodes[i]
  BY <1>1 DEF Contexts, Disk, ZeroInode
<1>3. InodesCounted(c) => InodesCounted(a)
  <2>1. \A i \in Inodes \ {ino} : a.disk.inodes[i].type = c.disk.inodes[i].type
    BY <1>2
  <2>2. a.disk.inodes[ino].type = "FREE" /\ a.ram.sb.free_inodes = Plus(c.ram.sb.free_inodes, 1)
    BY <1>1, <1>2
  <2>3. QED
    BY <2>1, <2>2, InodeGiven
<1>4. BlocksCounted(c) => BlocksCounted(a)
  BY <1>1 DEF BlocksCounted
<1>5. QED
  BY <1>3, <1>4 DEF Counted, a

-----------------------------------------------------------------------------
(* What refers to a block: a place is an inode and a file block of it, or its *)
(* indirect block                                                           *)

Table == NDirect + NIndirect
Places == Inodes \X (0 .. Table)
RefMap(d) == [p \in Places |-> RefBlock(d, p[1], p[2])]

\* Every block that is referred to is marked, but for those of v, and no two
\* places refer to the same one.
OwnedIn(R, bitmap, v) ==
  /\ \A p \in Places : R[p] # 0 /\ p[1] # v => R[p] \in bitmap
  /\ \A p, q \in Places : R[p] # 0 /\ R[p] = R[q] => p = q

Within(R, S) == \A p \in Places : R[p] = 0 \/ R[p] = S[p]
Unused(R, b) == \A p \in Places : R[p] # b
RefSet(R, p, b) == [R EXCEPT ![p] = b]

\* A place is in the inode or in its indirect block.
LEMMA OwnedBlockCases ==
  ASSUME NEW d \in Disk, NEW inode \in Inode, NEW f \in 0 .. Table
  PROVE  /\ OwnedBlock(d, inode, f) \in Block0
         /\ f < NDirect => OwnedBlock(d, inode, f) = inode.direct[f + 1]
         /\ f = Table => OwnedBlock(d, inode, f) = inode.indirect
         /\ ~(f < NDirect) /\ f < Table =>
              /\ f - NDirect + 1 \in 1 .. NIndirect
              /\ inode.indirect = 0 => OwnedBlock(d, inode, f) = 0
              /\ inode.indirect # 0 =>
                   /\ inode.indirect \in Blocks
                   /\ OwnedBlock(d, inode, f) = d.blocks[inode.indirect].ptrs[f - NDirect + 1]
<1> USE Constants
<1>1. inode.indirect \in Block0
  BY DEF Inode
<1>2. f \in Nat
  BY DEF Table
<1>3. CASE f = Table
  <2>1. ~(f < NDirect)
    BY <1>3 DEF Table
  <2>2. QED
    BY <1>1, <1>3, <2>1 DEF Table, OwnedBlock
<1>4. CASE f < Table
  <2>1. OwnedBlock(d, inode, f) = GetBlock(d, inode, f)
    BY <1>4 DEF Table, OwnedBlock
  <2>2. GetBlock(d, inode, f) \in Block0
    BY <1>2, GetBlockType
  <2>3. CASE f < NDirect
    BY <1>4, <2>1, <2>2, <2>3 DEF GetBlock
  <2>4. CASE ~(f < NDirect)
    <3>1. ~(f - NDirect >= NIndirect) /\ f - NDirect + 1 \in 1 .. NIndirect
      BY <1>2, <1>4, <2>4 DEF Table
    <3>2. QED
      BY <1>1, <1>4, <2>1, <2>2, <2>4, <3>1 DEF GetBlock
  <2>5. QED
    BY <2>3, <2>4
<1>5. QED
  BY <1>3, <1>4 DEF Table

\* What dorifs_get_block finds is such a place, or nothing.
LEMMA GetBlockPlace ==
  ASSUME NEW d \in Disk, NEW inode \in Inode, NEW f \in Nat
  PROVE  /\ f < Table => f \in 0 .. Table /\ GetBlock(d, inode, f) = OwnedBlock(d, inode, f)
         /\ ~(f < Table) => GetBlock(d, inode, f) = 0
<1>1. CASE f < Table
  BY <1>1, Constants DEF Table, OwnedBlock
<1>2. CASE ~(f < Table)
  BY <1>2, Constants DEF Table, GetBlock
<1>3. QED
  BY <1>1, <1>2

\* What a place refers to, as the code finds it from the inode.
LEMMA RefMapFacts ==
  ASSUME NEW d \in Disk
  PROVE  /\ RefMap(d) \in [Places -> Block0]
         /\ \A i \in Inodes, f \in 0 .. Table :
              <<i, f>> \in Places /\ RefMap(d)[<<i, f>>] = OwnedBlock(d, d.inodes[i], f)
<1>1. ASSUME NEW i \in Inodes, NEW f \in 0 .. Table
      PROVE  /\ <<i, f>> \in Places /\ RefMap(d)[<<i, f>>] = OwnedBlock(d, d.inodes[i], f)
             /\ RefMap(d)[<<i, f>>] \in Block0
  <2>1. <<i, f>> \in Places
    BY DEF Places
  <2>2. RefBlock(d, i, f) = OwnedBlock(d, d.inodes[i], f)
    BY DEF RefBlock, OwnedBlock
  <2>3. d.inodes[i] \in Inode
    BY DEF Disk
  <2>4. QED
    BY <2>1, <2>2, <2>3, OwnedBlockCases DEF RefMap
<1>2. ASSUME NEW p \in Places
      PROVE  RefMap(d)[p] \in Block0
  <2>1. PICK i \in Inodes, f \in 0 .. Table : p = <<i, f>>
    BY DEF Places
  <2>2. QED
    BY <1>1, <2>1
<1>3. QED
  BY <1>1, <1>2 DEF RefMap

\* Two disks whose inode i refers to the same blocks do so at all its places.
LEMMA SameRefs ==
  ASSUME NEW d \in Disk, NEW e \in Disk,
         \A i \in Inodes, f \in 0 .. Table :
           OwnedBlock(d, d.inodes[i], f) = OwnedBlock(e, e.inodes[i], f)
  PROVE  RefMap(d) = RefMap(e)
<1>1. ASSUME NEW p \in Places
      PROVE  RefMap(d)[p] = RefMap(e)[p]
  <2>1. PICK i \in Inodes, f \in 0 .. Table : p = <<i, f>>
    BY DEF Places
  <2>2. QED
    BY <2>1, RefMapFacts
<1>2. QED
  BY <1>1, RefMapFacts

\* Fewer references leave every block with one owner at most.
LEMMA OwnedWithin ==
  ASSUME NEW R, NEW S, NEW bitmap, NEW v, OwnedIn(S, bitmap, v), Within(R, S)
  PROVE  OwnedIn(R, bitmap, v)
BY DEF OwnedIn, Within

\* More marks leave it so too.
LEMMA OwnedMore ==
  ASSUME NEW R, NEW bitmap, NEW more, NEW v, OwnedIn(R, bitmap, v), bitmap \subseteq more
  PROVE  OwnedIn(R, more, v)
BY DEF OwnedIn

\* A reference to a marked block that nobody has leaves it so.
LEMMA OwnedSet ==
  ASSUME NEW R \in [Places -> Block0], NEW bitmap, NEW p \in Places, NEW b \in bitmap,
         OwnedIn(R, bitmap, 0), Unused(R, b)
  PROVE  OwnedIn(RefSet(R, p, b), bitmap, 0)
<1> DEFINE S == RefSet(R, p, b)
<1>1. S[p] = b /\ \A q \in Places : q # p => S[q] = R[q]
  BY DEF RefSet
<1> HIDE DEF S
<1>2. \A q \in Places : S[q] # 0 /\ q[1] # 0 => S[q] \in bitmap
  BY <1>1 DEF OwnedIn
<1>3. ASSUME NEW q \in Places, NEW r \in Places, S[q] # 0, S[q] = S[r]
      PROVE  q = r
  BY <1>1, <1>3 DEF OwnedIn, Unused
<1>4. QED
  BY <1>2, <1>3 DEF OwnedIn, S

\* So does a block of the inode in hand, given back while that still refers to it.
LEMMA OwnedGivenBack ==
  ASSUME NEW R, NEW bitmap, NEW p \in Places, OwnedIn(R, bitmap, p[1]), R[p] # 0
  PROVE  OwnedIn(R, bitmap \ {R[p]}, p[1])
BY DEF OwnedIn

\* A block that is free is used nowhere.
LEMMA FreeUnused ==
  ASSUME NEW R, NEW bitmap, OwnedIn(R, bitmap, 0), NEW b, b # 0, b \notin bitmap
  PROVE  Unused(R, b)
<1>1. \A p \in Places : p[1] # 0
  BY Constants DEF Places
<1>2. QED
  BY <1>1 DEF OwnedIn, Unused

-----------------------------------------------------------------------------
(* What one block write changes of that, and of what directories list       *)

\* e lists what d lists.
NamesKept(d, e) ==
  \A i \in Inodes :
    /\ IsDir(e, i) <=> IsDir(d, i)
    /\ IsDir(d, i) =>
         Listed(e, i) = Listed(d, i) /\ \A k \in Listed(d, i) : Entry(e, i, k) = Entry(d, i, k)

\* Where the entries of a directory are.
LEMMA EntryPlaces ==
  /\ \A k \in Nat : BlockOf(k) \in Nat /\ SlotOf(k) \in 1 .. EntriesPerBlock
  /\ \A k, l \in Nat : k <= l => BlockOf(k) <= BlockOf(l)
  /\ \A k, l \in Nat : BlockOf(k) = BlockOf(l) /\ SlotOf(k) = SlotOf(l) => k = l
  /\ \A k, l \in Nat : k < l /\ l % EntriesPerBlock = 0 => BlockOf(k) < BlockOf(l)
  /\ \A k \in Nat : (k + 1) % EntriesPerBlock # 0 => BlockOf(k + 1) = BlockOf(k)
<1> DEFINE E == EntriesPerBlock
<1>0. E \in Nat /\ E >= 1
  BY Constants
<1> HIDE DEF E
<1>1. \A k \in Nat : k \div E \in Nat /\ k % E \in 0 .. E - 1
  BY <1>0
<1>2. \A k, l \in Nat : k <= l => k \div E <= l \div E
  BY <1>0
<1>3. \A k, l \in Nat : k \div E = l \div E /\ k % E = l % E => k = l
  BY <1>0
<1>4. \A k, l \in Nat : k < l /\ l % E = 0 => k \div E < l \div E
  BY <1>0
<1>5. \A k \in Nat : BlockOf(k) = k \div E /\ SlotOf(k) = (k % E) + 1
  BY DEF BlockOf, SlotOf, E
<1>6. \A k \in Nat : SlotOf(k) \in 1 .. E
  BY <1>0, <1>1, <1>5
<1>7. \A k, l \in Nat : BlockOf(k) = BlockOf(l) /\ SlotOf(k) = SlotOf(l) => k = l
  BY <1>1, <1>3, <1>5
<1>8. \A k \in Nat : (k + 1) % E # 0 => (k + 1) \div E = k \div E
  BY <1>0
<1>9. \A k \in Nat : (k + 1) % E # 0 => BlockOf(k + 1) = BlockOf(k)
  BY <1>5, <1>8
<1>10. QED
  BY <1>1, <1>2, <1>4, <1>5, <1>6, <1>7, <1>9 DEF E

\* They fill the blocks from the first one on.
LEMMA EntrySteps == BlockOf(0) = 0 /\ \A k \in Nat : BlockOf(k + 1) <= BlockOf(k) + 1
<1> DEFINE E == EntriesPerBlock
<1>1. E \in Nat /\ E >= 1
  BY Constants
<1> HIDE DEF E
<1>2. 0 \div E = 0 /\ \A k \in Nat : (k + 1) \div E <= (k \div E) + 1
  BY <1>1
<1>3. \A k \in Nat : BlockOf(k) = k \div E
  BY DEF BlockOf, E
<1>4. QED
  BY <1>2, <1>3

\* What a scan reads of its directory.
LEMMA ListedAt ==
  ASSUME NEW d \in Disk, NEW i \in Inodes
  PROVE  /\ Listed(d, i) \subseteq Nat
         /\ \A k \in Listed(d, i) : k < d.inodes[i].size
         /\ \A k \in Nat : k \in Listed(d, i) <=>
              /\ k < d.inodes[i].size
              /\ \A j \in 0 .. BlockOf(k) : GetBlock(d, d.inodes[i], j) # 0
              /\ Entry(d, i, k).inode # 0
         /\ \A k \in Listed(d, i) :
              /\ GetBlock(d, d.inodes[i], BlockOf(k)) \in Blocks
              /\ Entry(d, i, k) = d.blocks[GetBlock(d, d.inodes[i], BlockOf(k))].entries[SlotOf(k)]
              /\ Entry(d, i, k) \in DirEntry
              /\ Entry(d, i, k).inode \in Inodes
<1>0. d.inodes[i] \in Inode /\ d.inodes[i].size \in Nat
  BY DEF Disk, Inode
<1>1. Visible(d, i) \subseteq Nat /\ \A k \in Nat : k \in Visible(d, i) <=>
        k < d.inodes[i].size /\ \A j \in 0 .. BlockOf(k) : GetBlock(d, d.inodes[i], j) # 0
  BY <1>0 DEF Visible
<1>2. \A k : k \in Listed(d, i) <=> k \in Visible(d, i) /\ Entry(d, i, k).inode # 0
  BY DEF Listed
<1>3. ASSUME NEW k \in Listed(d, i)
      PROVE  /\ GetBlock(d, d.inodes[i], BlockOf(k)) \in Blocks
             /\ Entry(d, i, k) = d.blocks[GetBlock(d, d.inodes[i], BlockOf(k))].entries[SlotOf(k)]
             /\ Entry(d, i, k) \in DirEntry
             /\ Entry(d, i, k).inode \in Inodes
  <2> DEFINE b == GetBlock(d, d.inodes[i], BlockOf(k))
  <2>1. k \in Nat /\ BlockOf(k) \in 0 .. BlockOf(k) /\ BlockOf(k) \in Nat
        /\ SlotOf(k) \in 1 .. EntriesPerBlock
    BY <1>1, <1>2, EntryPlaces
  <2>2. b # 0 /\ b \in Block0
    BY <1>0, <1>1, <1>2, <2>1, GetBlockType
  <2>3. b \in Blocks
    BY <2>2, Constants
  <2>4. Entry(d, i, k) = d.blocks[b].entries[SlotOf(k)]
    BY DEF Entry
  <2> HIDE DEF b
  <2>5. d.blocks[b] \in Content
    BY <2>3 DEF Disk
  <2>6. Entry(d, i, k) \in DirEntry
    BY <2>1, <2>4, <2>5 DEF Content
  <2>7. Entry(d, i, k).inode \in Inodes
    <3>1. Entry(d, i, k).inode \in 0 .. NInodes - 1 /\ Entry(d, i, k).inode # 0
      BY <1>2, <2>6 DEF DirEntry
    <3>2. QED
      BY <3>1, Constants DEF Inodes
  <2>8. QED
    BY <2>3, <2>4, <2>6, <2>7 DEF b
<1>4. QED
  BY <1>1, <1>2, <1>3

\* A directory that keeps its size, its blocks up to the last entry, and the
\* entries in them, lists what it did.
LEMMA SameListing ==
  ASSUME NEW d \in Disk, NEW e \in Disk, NEW i \in Inodes,
         e.inodes[i].size = d.inodes[i].size,
         \A k \in Nat : k < d.inodes[i].size =>
           /\ \A f \in 0 .. Table : f # Table /\ f <= BlockOf(k) =>
                OwnedBlock(e, e.inodes[i], f) = OwnedBlock(d, d.inodes[i], f)
           /\ LET b == GetBlock(d, d.inodes[i], BlockOf(k)) IN
              b # 0 => e.blocks[b].entries[SlotOf(k)] = d.blocks[b].entries[SlotOf(k)]
  PROVE  Listed(e, i) = Listed(d, i) /\ \A k \in Listed(d, i) : Entry(e, i, k) = Entry(d, i, k)
<1>0. d.inodes[i] \in Inode /\ d.inodes[i].size \in Nat /\ e.inodes[i] \in Inode
  BY DEF Disk, Inode
<1>1. ASSUME NEW k \in Nat, k < d.inodes[i].size, NEW j \in 0 .. BlockOf(k)
      PROVE  GetBlock(e, e.inodes[i], j) = GetBlock(d, d.inodes[i], j)
  <2>1. j \in Nat /\ BlockOf(k) \in Nat
    BY EntryPlaces
  <2>2. CASE j < Table
    <3>1. j \in 0 .. Table /\ j # Table /\ j <= BlockOf(k)
      BY <2>1, <2>2, Constants DEF Table
    <3>2. OwnedBlock(e, e.inodes[i], j) = OwnedBlock(d, d.inodes[i], j)
      BY <1>1, <3>1
    <3>3. QED
      BY <1>0, <2>1, <2>2, <3>2, GetBlockPlace
  <2>3. CASE ~(j < Table)
    BY <1>0, <2>1, <2>3, GetBlockPlace
  <2>4. QED
    BY <2>2, <2>3
<1>2. ASSUME NEW k \in Nat, k < d.inodes[i].size, GetBlock(d, d.inodes[i], BlockOf(k)) # 0
      PROVE  Entry(e, i, k) = Entry(d, i, k)
  <2>1. BlockOf(k) \in 0 .. BlockOf(k)
    BY EntryPlaces
  <2>2. GetBlock(e, e.inodes[i], BlockOf(k)) = GetBlock(d, d.inodes[i], BlockOf(k))
    BY <1>1, <1>2, <2>1
  <2>3. QED
    BY <1>2, <2>2 DEF Entry
<1>3. ASSUME NEW k \in Nat
      PROVE  k \in Listed(e, i) <=> k \in Listed(d, i)
  <2>1. BlockOf(k) \in 0 .. BlockOf(k)
    BY EntryPlaces
  <2>2. CASE k < d.inodes[i].size /\ \A j \in 0 .. BlockOf(k) : GetBlock(d, d.inodes[i], j) # 0
    <3>1. Entry(e, i, k) = Entry(d, i, k)
      BY <1>2, <2>1, <2>2
    <3>2. \A j \in 0 .. BlockOf(k) : GetBlock(e, e.inodes[i], j) # 0
      BY <1>1, <2>2
    <3>3. QED
      BY <2>2, <3>1, <3>2, ListedAt
  <2>3. CASE ~(k < d.inodes[i].size)
    BY <2>3, ListedAt
  <2>4. CASE k < d.inodes[i].size /\ \E j \in 0 .. BlockOf(k) : GetBlock(d, d.inodes[i], j) = 0
    <3>1. \E j \in 0 .. BlockOf(k) : GetBlock(e, e.inodes[i], j) = 0
      BY <1>1, <2>4
    <3>2. QED
      BY <2>4, <3>1, ListedAt
  <2>5. QED
    BY <2>2, <2>3, <2>4
<1>4. Listed(e, i) = Listed(d, i)
  BY <1>3, ListedAt
<1>5. ASSUME NEW k \in Listed(d, i)
      PROVE  Entry(e, i, k) = Entry(d, i, k)
  <2>1. k \in Nat /\ k < d.inodes[i].size /\ GetBlock(d, d.inodes[i], BlockOf(k)) \in Blocks
    BY ListedAt
  <2>2. QED
    BY <1>2, <2>1, Constants
<1>6. QED
  BY <1>4, <1>5

\* e refers to the same blocks and lists the same entries as d.
Alike(d, e) == e \in Disk /\ e.inodes = d.inodes /\ RefMap(e) = RefMap(d) /\ NamesKept(d, e)

\* What is neither the inode table nor a data block does not matter to that.
LEMMA OtherImage ==
  ASSUME NEW d \in Disk, NEW e \in Disk, e.inodes = d.inodes, e.blocks = d.blocks
  PROVE  Alike(d, e)
<1>2. \A inode, f : GetBlock(e, inode, f) = GetBlock(d, inode, f)
  BY DEF GetBlock
<1>3. \A inode, f : OwnedBlock(e, inode, f) = OwnedBlock(d, inode, f)
  BY <1>2 DEF OwnedBlock
<1>4. ASSUME NEW i \in Inodes
      PROVE  /\ e.inodes[i] = d.inodes[i]
             /\ \A f \in 0 .. Table : OwnedBlock(e, e.inodes[i], f) = OwnedBlock(d, d.inodes[i], f)
  <2>1. e.inodes[i] = d.inodes[i]
    OBVIOUS
  <2>2. QED
    BY <1>3, <2>1, Zenon
<1>5. RefMap(e) = RefMap(d)
  <2>1. \A i \in Inodes, f \in 0 .. Table :
          OwnedBlock(e, e.inodes[i], f) = OwnedBlock(d, d.inodes[i], f)
    BY <1>4, Zenon
  <2>2. QED
    BY <2>1, SameRefs, Zenon
<1>6. ASSUME NEW i \in Inodes
      PROVE  Listed(e, i) = Listed(d, i) /\ \A k \in Listed(d, i) : Entry(e, i, k) = Entry(d, i, k)
  <2>1. e.inodes[i].size = d.inodes[i].size
    BY <1>4
  <2>2. \A k \in Nat : k < d.inodes[i].size =>
           /\ \A f \in 0 .. Table : f # Table /\ f <= BlockOf(k) =>
                OwnedBlock(e, e.inodes[i], f) = OwnedBlock(d, d.inodes[i], f)
           /\ LET b == GetBlock(d, d.inodes[i], BlockOf(k)) IN
              b # 0 => e.blocks[b].entries[SlotOf(k)] = d.blocks[b].entries[SlotOf(k)]
    BY <1>4, Zenon
  <2>3. QED
    BY <2>1, <2>2, SameListing, Zenon
<1>7. QED
  BY <1>4, <1>5, <1>6 DEF Alike, NamesKept, IsDir

\* The bitmap.
LEMMA BitmapImage ==
  ASSUME NEW d \in Disk, NEW bitmap \in SUBSET Blocks
  PROVE  Alike(d, [d EXCEPT !.bitmap = bitmap])
<1> DEFINE e == [d EXCEPT !.bitmap = bitmap]
<1>1. e \in Disk /\ e.inodes = d.inodes /\ e.blocks = d.blocks
  BY DEF Disk
<1> HIDE DEF e
<1>2. Alike(d, e)
  BY <1>1, OtherImage
<1>3. QED
  BY <1>2 DEF e

\* A data block that is nobody's indirect block, or whose pointers stay.
BlockImaged(d, b, content, e) ==
  /\ e \in Disk /\ e.inodes = d.inodes /\ e.bitmap = d.bitmap /\ e.sb = d.sb
  /\ e.blocks[b] = content /\ \A x \in Blocks \ {b} : e.blocks[x] = d.blocks[x]
  /\ RefMap(e) = RefMap(d)
  /\ \A i \in Inodes :
       (\A k \in Nat : k < d.inodes[i].size /\ GetBlock(d, d.inodes[i], BlockOf(k)) = b
          => content.entries[SlotOf(k)] = d.blocks[b].entries[SlotOf(k)])
       => Listed(e, i) = Listed(d, i) /\ \A k \in Listed(d, i) : Entry(e, i, k) = Entry(d, i, k)

\* What a write of a data block leaves.
LEMMA BlockImage ==
  ASSUME NEW d \in Disk, NEW b \in Blocks, NEW content \in Content,
         content.ptrs = d.blocks[b].ptrs \/ \A i \in Inodes : d.inodes[i].indirect # b
  PROVE  BlockImaged(d, b, content, [d EXCEPT !.blocks[b] = content])
<1> DEFINE e == [d EXCEPT !.blocks[b] = content]
<1>1. /\ e \in Disk /\ e.inodes = d.inodes /\ e.bitmap = d.bitmap /\ e.sb = d.sb
      /\ e.blocks[b] = content /\ \A x \in Blocks \ {b} : e.blocks[x] = d.blocks[x]
  BY DEF Disk
<1> HIDE DEF e
<1>2. ASSUME NEW i \in Inodes, NEW f \in 0 .. Table
      PROVE  OwnedBlock(d, d.inodes[i], f) = OwnedBlock(e, e.inodes[i], f)
  <2>1. d.inodes[i] \in Inode /\ e.inodes[i] = d.inodes[i]
    BY <1>1 DEF Disk
  <2> DEFINE x == d.inodes[i].indirect
  <2>2. CASE ~(f < NDirect) /\ f < Table /\ x # 0
    <3>1. x \in Blocks
      BY <2>1, <2>2, OwnedBlockCases
    <3>2. e.blocks[x].ptrs = d.blocks[x].ptrs
      BY <1>1, <3>1
    <3> HIDE DEF x
    <3>3. OwnedBlock(d, d.inodes[i], f) = d.blocks[x].ptrs[f - NDirect + 1]
      BY <2>1, <2>2, OwnedBlockCases DEF x
    <3>4. OwnedBlock(e, d.inodes[i], f) = e.blocks[x].ptrs[f - NDirect + 1]
      <4>1. e \in Disk
        BY <1>1
      <4>2. QED
        BY <2>1, <2>2, <4>1, OwnedBlockCases DEF x
    <3>5. QED
      BY <2>1, <3>2, <3>3, <3>4
  <2>3. CASE ~(~(f < NDirect) /\ f < Table /\ x # 0)
    <3>1. f < NDirect \/ f = Table \/ (~(f < NDirect) /\ f < Table /\ x = 0)
      BY <2>3, Constants DEF Table
    <3> HIDE DEF x
    <3>2. QED
      BY <1>1, <2>1, <3>1, OwnedBlockCases DEF x
  <2>4. QED
    BY <2>2, <2>3
<1>3. RefMap(e) = RefMap(d)
  BY <1>1, <1>2, SameRefs
<1>4. ASSUME NEW i \in Inodes,
             \A k \in Nat : k < d.inodes[i].size /\ GetBlock(d, d.inodes[i], BlockOf(k)) = b
                => content.entries[SlotOf(k)] = d.blocks[b].entries[SlotOf(k)]
      PROVE  Listed(e, i) = Listed(d, i) /\ \A k \in Listed(d, i) : Entry(e, i, k) = Entry(d, i, k)
  <2>1. ASSUME NEW k \in Nat, k < d.inodes[i].size
        PROVE  LET x == GetBlock(d, d.inodes[i], BlockOf(k)) IN
               x # 0 => e.blocks[x].entries[SlotOf(k)] = d.blocks[x].entries[SlotOf(k)]
    <3> DEFINE x == GetBlock(d, d.inodes[i], BlockOf(k))
    <3>1. d.inodes[i] \in Inode /\ BlockOf(k) \in Nat
      BY EntryPlaces DEF Disk
    <3>2. x \in Block0
      BY <3>1, GetBlockType
    <3>3. x # 0 => x \in Blocks
      BY <3>2, Constants
    <3>4. QED
      BY <1>1, <1>4, <2>1, <3>3
  <2>2. e.inodes[i].size = d.inodes[i].size
    BY <1>1
  <2>3. QED
    BY <1>1, <1>2, <2>1, <2>2, SameListing
<1>5. QED
  BY <1>1, <1>3, <1>4 DEF e, BlockImaged

\* A block that is not referred to.
LEMMA UnusedImage ==
  ASSUME NEW d \in Disk, NEW b \in Blocks, NEW content \in Content, Unused(RefMap(d), b)
  PROVE  Alike(d, [d EXCEPT !.blocks[b] = content])
<1> DEFINE e == [d EXCEPT !.blocks[b] = content]
<1>1. \A i \in Inodes, f \in 0 .. Table : OwnedBlock(d, d.inodes[i], f) # b
  BY RefMapFacts DEF Unused
<1>2. ASSUME NEW i \in Inodes
      PROVE  d.inodes[i].indirect # b
  <2>1. Table \in 0 .. Table /\ d.inodes[i] \in Inode
    BY Constants DEF Table, Disk
  <2>2. OwnedBlock(d, d.inodes[i], Table) = d.inodes[i].indirect
    BY <2>1, OwnedBlockCases
  <2>3. QED
    BY <1>1, <2>1, <2>2
<1>3. ASSUME NEW i \in Inodes, NEW k \in Nat
      PROVE  GetBlock(d, d.inodes[i], BlockOf(k)) # b
  <2>1. BlockOf(k) \in Nat /\ d.inodes[i] \in Inode
    BY EntryPlaces DEF Disk
  <2>2. QED
    BY <1>1, <2>1, GetBlockPlace, Constants
<1>4. BlockImaged(d, b, content, e)
  BY <1>2, BlockImage
<1>5. \A i \in Inodes :
        Listed(e, i) = Listed(d, i) /\ \A k \in Listed(d, i) : Entry(e, i, k) = Entry(d, i, k)
  BY <1>3, <1>4 DEF BlockImaged
<1>6. QED
  BY <1>4, <1>5 DEF BlockImaged, NamesKept, IsDir, Alike

\* A pointer in the indirect block of ino.
PointerImaged(d, ino, f, b, e) ==
  /\ e \in Disk /\ e.inodes = d.inodes /\ e.bitmap = d.bitmap /\ e.sb = d.sb
  /\ \A y \in Blocks : e.blocks[y].entries = d.blocks[y].entries
  /\ RefMap(e) = RefSet(RefMap(d), <<ino, f>>, b)
  /\ (IsDir(d, ino) => \A k \in Nat : k < d.inodes[ino].size => BlockOf(k) < f)
       => NamesKept(d, e)

\* What a write of one pointer in an indirect block leaves.
LEMMA PointerImage ==
  ASSUME NEW d \in Disk, NEW bitmap, NEW v, OwnedIn(RefMap(d), bitmap, v),
         NEW ino \in Inodes, NEW f \in 0 .. Table, ~(f < NDirect), f < Table,
         NEW x, x = d.inodes[ino].indirect, x # 0, NEW b \in Block0
  PROVE  PointerImaged(d, ino, f, b,
           [d EXCEPT !.blocks[x] = [d.blocks[x] EXCEPT !.ptrs[f - NDirect + 1] = b]])
<1> DEFINE n == f - NDirect + 1
           content == [d.blocks[x] EXCEPT !.ptrs[n] = b]
           e == [d EXCEPT !.blocks[x] = content]
<1>1. n \in 1 .. NIndirect /\ x \in Blocks /\ d.blocks[x] \in Content /\ n \in Int
  <2>1. d.inodes[ino] \in Inode
    BY DEF Disk
  <2>2. x \in Blocks /\ n \in 1 .. NIndirect
    BY <2>1, OwnedBlockCases
  <2>3. QED
    BY <2>2 DEF Disk
<1>2. /\ content \in Content /\ content.entries = d.blocks[x].entries
      /\ content.ptrs[n] = b /\ \A m \in 1 .. NIndirect : m # n => content.ptrs[m] = d.blocks[x].ptrs[m]
  <2> HIDE DEF n
  <2>1. QED
    BY <1>1 DEF Content
<1>3. e = [d EXCEPT !.blocks[x] = content]
  OBVIOUS
<1> HIDE DEF content, n, e
<1>4. /\ e \in Disk /\ e.inodes = d.inodes /\ e.bitmap = d.bitmap /\ e.sb = d.sb
      /\ e.blocks[x] = content /\ \A y \in Blocks \ {x} : e.blocks[y] = d.blocks[y]
  BY <1>1, <1>2, <1>3 DEF Disk
<1>5. \A y \in Blocks : e.blocks[y].entries = d.blocks[y].entries
  BY <1>2, <1>4
<1>6. ASSUME NEW i \in Inodes, NEW g \in 0 .. Table
      PROVE  OwnedBlock(e, e.inodes[i], g) =
               IF i = ino /\ g = f THEN b ELSE OwnedBlock(d, d.inodes[i], g)
  <2>1. d.inodes[i] \in Inode /\ e.inodes[i] = d.inodes[i]
    BY <1>4 DEF Disk
  <2>2. CASE ~(g < NDirect) /\ g < Table /\ d.inodes[i].indirect # 0
    <3> USE DEF n
    <3> DEFINE y == d.inodes[i].indirect
               m == g - NDirect + 1
    <3>0. e \in Disk
      BY <1>4
    <3>1. /\ m \in 1 .. NIndirect /\ y \in Blocks
          /\ OwnedBlock(d, d.inodes[i], g) = d.blocks[y].ptrs[m]
          /\ OwnedBlock(e, e.inodes[i], g) = e.blocks[y].ptrs[m]
      <4>1. m \in 1 .. NIndirect /\ y \in Blocks /\ OwnedBlock(d, d.inodes[i], g) = d.blocks[y].ptrs[m]
        BY <2>1, <2>2, OwnedBlockCases
      <4>2. OwnedBlock(e, d.inodes[i], g) = e.blocks[y].ptrs[m]
        BY <2>1, <2>2, <3>0, OwnedBlockCases
      <4>3. QED
        BY <2>1, <4>1, <4>2
    <3>2. CASE i = ino
      <4>1. y = x
        BY <3>2
      <4>2. m = n <=> g = f
        BY Constants DEF Table
      <4> HIDE DEF y, m, n
      <4>3. e.blocks[y].ptrs[m] = IF g = f THEN b ELSE d.blocks[y].ptrs[m]
        BY <1>2, <1>4, <3>1, <4>1, <4>2
      <4>4. QED
        BY <3>1, <3>2, <4>3
    <3>3. CASE i # ino
      <4>1. y # x
        <5>1. Table \in 0 .. Table
          BY Constants DEF Table
        <5>2. /\ RefMap(d)[<<i, Table>>] = y /\ RefMap(d)[<<ino, Table>>] = x
              /\ <<i, Table>> \in Places /\ <<ino, Table>> \in Places
          <6>1. d.inodes[ino] \in Inode
            BY DEF Disk
          <6>2. OwnedBlock(d, d.inodes[i], Table) = y /\ OwnedBlock(d, d.inodes[ino], Table) = x
            BY <2>1, <5>1, <6>1, OwnedBlockCases
          <6>3. QED
            BY <5>1, <6>2, RefMapFacts
        <5>3. <<i, Table>> # <<ino, Table>>
          BY <3>3
        <5> HIDE DEF y
        <5>4. QED
          BY <5>2, <5>3 DEF OwnedIn
      <4> HIDE DEF y, m
      <4>2. QED
        BY <1>4, <3>1, <3>3, <4>1
    <3>4. QED
      BY <3>2, <3>3
  <2>3. CASE ~(~(g < NDirect) /\ g < Table /\ d.inodes[i].indirect # 0)
    <3>1. g < NDirect \/ g = Table \/ (~(g < NDirect) /\ g < Table /\ d.inodes[i].indirect = 0)
      BY <2>3, Constants DEF Table
    <3>2. ~(i = ino /\ g = f)
      BY <2>3
    <3>3. OwnedBlock(e, e.inodes[i], g) = OwnedBlock(d, d.inodes[i], g)
      <4>1. e \in Disk
        BY <1>4
      <4>2. OwnedBlock(e, d.inodes[i], g) = OwnedBlock(d, d.inodes[i], g)
        BY <2>1, <3>1, <4>1, OwnedBlockCases
      <4>3. QED
        BY <2>1, <4>2
    <3>4. QED
      BY <3>2, <3>3
  <2>4. QED
    BY <2>2, <2>3
<1>7. RefMap(e) = [RefMap(d) EXCEPT ![<<ino, f>>] = b]
  <2> DEFINE R == [RefMap(d) EXCEPT ![<<ino, f>>] = b]
  <2>1. R \in [Places -> Block0] /\ RefMap(e) \in [Places -> Block0]
    BY <1>4, RefMapFacts
  <2>2. ASSUME NEW p \in Places
        PROVE  R[p] = RefMap(e)[p]
    <3>1. PICK i \in Inodes, g \in 0 .. Table : p = <<i, g>>
      BY DEF Places
    <3>2. RefMap(e)[p] = IF i = ino /\ g = f THEN b ELSE RefMap(d)[p]
      <4>1. RefMap(e)[<<i, g>>] = OwnedBlock(e, e.inodes[i], g)
        BY <1>4, RefMapFacts, Zenon
      <4>2. RefMap(d)[<<i, g>>] = OwnedBlock(d, d.inodes[i], g)
        BY RefMapFacts
      <4>3. QED
        BY <1>6, <3>1, <4>1, <4>2, Zenon
    <3>3. RefMap(d) \in [Places -> Block0]
      BY RefMapFacts
    <3>4. R[p] = IF p = <<ino, f>> THEN b ELSE RefMap(d)[p]
      BY <3>3
    <3> HIDE DEF R
    <3>5. QED
      BY <3>1, <3>2, <3>4
  <2>3. QED
    BY <2>1, <2>2
<1>8. ASSUME IsDir(d, ino) => \A k \in Nat : k < d.inodes[ino].size => BlockOf(k) < f
      PROVE  NamesKept(d, e)
  <2>1. ASSUME NEW i \in Inodes, IsDir(d, i)
        PROVE  Listed(e, i) = Listed(d, i) /\ \A k \in Listed(d, i) : Entry(e, i, k) = Entry(d, i, k)
    <3>1. e.inodes[i].size = d.inodes[i].size /\ d.inodes[i] \in Inode
      BY <1>4 DEF Disk
    <3>2. ASSUME NEW k \in Nat, k < d.inodes[i].size
          PROVE  /\ \A g \in 0 .. Table : g # Table /\ g <= BlockOf(k) =>
                      OwnedBlock(e, e.inodes[i], g) = OwnedBlock(d, d.inodes[i], g)
                 /\ LET y == GetBlock(d, d.inodes[i], BlockOf(k)) IN
                    y # 0 => e.blocks[y].entries[SlotOf(k)] = d.blocks[y].entries[SlotOf(k)]
      <4>1. BlockOf(k) \in Nat
        BY EntryPlaces
      <4>2. i = ino => BlockOf(k) < f
        BY <1>8, <2>1, <3>2
      <4>3. \A g \in 0 .. Table : g <= BlockOf(k) => ~(i = ino /\ g = f)
        BY <4>1, <4>2
      <4>4. GetBlock(d, d.inodes[i], BlockOf(k)) \in Block0
        BY <3>1, <4>1, GetBlockType
      <4>5. \A g \in 0 .. Table : g <= BlockOf(k) =>
              OwnedBlock(e, e.inodes[i], g) = OwnedBlock(d, d.inodes[i], g)
        BY <1>6, <4>3
      <4>6. \A y \in Block0 \ {0} : e.blocks[y].entries = d.blocks[y].entries
        BY <1>5, Constants
      <4>7. QED
        BY <4>4, <4>5, <4>6
    <3>3. QED
      BY <1>4, <3>1, <3>2, SameListing
  <2>2. QED
    BY <1>4, <2>1 DEF NamesKept, IsDir
<1>9. QED
  BY <1>4, <1>5, <1>7, <1>8 DEF e, content, n, PointerImaged, RefSet

\* An inode.
InodeImaged(d, ino, inode, e) ==
  /\ e \in Disk /\ e.blocks = d.blocks /\ e.bitmap = d.bitmap /\ e.sb = d.sb
  /\ e.inodes[ino] = inode /\ \A i \in Inodes \ {ino} : e.inodes[i] = d.inodes[i]
  /\ \A i \in Inodes, f \in 0 .. Table :
       RefMap(e)[<<i, f>>] = IF i = ino THEN OwnedBlock(d, inode, f) ELSE RefMap(d)[<<i, f>>]
  /\ \A i \in Inodes, f \in Nat : GetBlock(e, e.inodes[i], f) = GetBlock(d, e.inodes[i], f)
  /\ \A i \in Inodes \ {ino} :
       Listed(e, i) = Listed(d, i) /\ \A k \in Listed(d, i) : Entry(e, i, k) = Entry(d, i, k)

\* What a write of an inode leaves.
LEMMA InodeImage ==
  ASSUME NEW d \in Disk, NEW ino \in Inodes, NEW inode \in Inode
  PROVE  InodeImaged(d, ino, inode, [d EXCEPT !.inodes[ino] = inode])
<1> DEFINE e == [d EXCEPT !.inodes[ino] = inode]
<1>1. /\ e \in Disk /\ e.blocks = d.blocks /\ e.bitmap = d.bitmap /\ e.sb = d.sb
      /\ e.inodes[ino] = inode /\ \A i \in Inodes \ {ino} : e.inodes[i] = d.inodes[i]
  BY DEF Disk
<1> HIDE DEF e
<1>2. \A n, f : GetBlock(e, n, f) = GetBlock(d, n, f)
  BY <1>1 DEF GetBlock
<1>3. \A n, f : OwnedBlock(e, n, f) = OwnedBlock(d, n, f)
  BY <1>2 DEF OwnedBlock
<1>4. ASSUME NEW i \in Inodes, NEW f \in 0 .. Table
      PROVE  RefMap(e)[<<i, f>>] =
               IF i = ino THEN OwnedBlock(d, inode, f) ELSE RefMap(d)[<<i, f>>]
  <2>1. RefMap(e)[<<i, f>>] = OwnedBlock(e, e.inodes[i], f)
        /\ RefMap(d)[<<i, f>>] = OwnedBlock(d, d.inodes[i], f)
    BY <1>1, RefMapFacts
  <2>2. e.inodes[i] = IF i = ino THEN inode ELSE d.inodes[i]
    BY <1>1
  <2>3. QED
    BY <1>3, <2>1, <2>2
<1>5. ASSUME NEW i \in Inodes \ {ino}
      PROVE  Listed(e, i) = Listed(d, i) /\ \A k \in Listed(d, i) : Entry(e, i, k) = Entry(d, i, k)
  <2>1. e.inodes[i] = d.inodes[i]
    BY <1>1
  <2>2. \A f \in 0 .. Table : OwnedBlock(e, e.inodes[i], f) = OwnedBlock(d, d.inodes[i], f)
    BY <1>3, <2>1
  <2>3. QED
    BY <1>1, <2>1, <2>2, SameListing
<1>6. QED
  BY <1>1, <1>2, <1>4, <1>5 DEF e, InodeImaged

-----------------------------------------------------------------------------
(* A sound disk                                                             *)

\* A directory entry in an indirect block is hidden for good if dorifs_set_block
\* lost its block: no block comes to stand before the end of the directory.
NoHole(d, i) ==
  LET size == d.inodes[i].size
      f == BlockOf(size)
  IN  d.inodes[i].indirect # 0 /\ size % EntriesPerBlock # 0 /\ ~(f < NDirect) /\ f < Table
      => RefMap(d)[<<i, f>>] # 0

DirsOK(d) ==
  \A i \in Inodes : IsDir(d, i) => d.inodes[i].size <= MaxEntries /\ NoHole(d, i)

NamedOK(d, v) ==
  \A i \in Inodes : IsDir(d, i) =>
    \A k \in Listed(d, i) :
      LET de == Entry(d, i, k) IN
      /\ de.inode # Root /\ de.type # "FREE"
      /\ de.inode # v => de.type = d.inodes[de.inode].type

NamedOnce(d) ==
  \A i, j \in Inodes : IsDir(d, i) /\ IsDir(d, j) =>
    \A k \in Listed(d, i), l \in Listed(d, j) :
      Entry(d, i, k).inode = Entry(d, j, l).inode => i = j /\ k = l

\* What holds of the disk at every moment, v being the inode that an unlink or
\* truncate has in its hands.
Sound(d, v) ==
  /\ d \in Disk
  /\ d.inodes[Root].type = "DIR"
  /\ OwnedIn(RefMap(d), d.bitmap, v)
  /\ DirsOK(d)
  /\ NamedOK(d, v)
  /\ NamedOnce(d)

\* No inode in hand is more than one.
LEMMA SoundForAny == ASSUME NEW d, Sound(d, 0), NEW v PROVE Sound(d, v)
<1>1. \A p \in Places : p[1] # 0
  BY Constants DEF Places
<1>2. OwnedIn(RefMap(d), d.bitmap, v)
  BY <1>1 DEF Sound, OwnedIn
<1>3. \A i \in Inodes : \A k \in Listed(d, i) : Entry(d, i, k).inode # 0
  BY DEF Listed
<1>4. NamedOK(d, v)
  BY <1>3 DEF Sound, NamedOK
<1>5. QED
  BY <1>2, <1>4 DEF Sound

\* A write that keeps the inodes and what directories list, and may add references.
LEMMA SoundKept ==
  ASSUME NEW d, NEW v, Sound(d, v), NEW e \in Disk, e.inodes = d.inodes, NamesKept(d, e),
         OwnedIn(RefMap(e), e.bitmap, v), Within(RefMap(d), RefMap(e))
  PROVE  Sound(e, v)
<1>1. e.inodes[Root].type = "DIR"
  BY DEF Sound
<1>2. DirsOK(e)
  <2>1. SUFFICES ASSUME NEW i \in Inodes, IsDir(e, i)
                 PROVE  e.inodes[i].size <= MaxEntries /\ NoHole(e, i)
    BY DEF DirsOK
  <2>2. IsDir(d, i) /\ d.inodes[i].size <= MaxEntries /\ NoHole(d, i)
    BY <2>1 DEF NamesKept, Sound, DirsOK
  <2>3. e.inodes[i].size <= MaxEntries
    BY <2>2
  <2>4. NoHole(e, i)
    <3> DEFINE f == BlockOf(d.inodes[i].size)
    <3>1. SUFFICES ASSUME d.inodes[i].indirect # 0, d.inodes[i].size % EntriesPerBlock # 0,
                          ~(f < NDirect), f < Table
                   PROVE  RefMap(e)[<<i, f>>] # 0
      BY DEF NoHole
    <3>2. RefMap(d)[<<i, f>>] # 0
      BY <2>2, <3>1 DEF NoHole
    <3>3. <<i, f>> \in Places
      <4>1. d \in Disk /\ d.inodes[i].size \in Nat
        BY DEF Sound, Disk, Inode
      <4>2. f \in Nat
        BY <4>1, EntryPlaces
      <4>3. f \in 0 .. Table
        BY <3>1, <4>2, Constants DEF Table
      <4>4. QED
        BY <4>3 DEF Places
    <3> HIDE DEF f
    <3>4. QED
      BY <3>2, <3>3 DEF Within
  <2>5. QED
    BY <2>3, <2>4
<1>3. \A i \in Inodes : IsDir(e, i) =>
        /\ IsDir(d, i) /\ Listed(e, i) = Listed(d, i)
        /\ \A k \in Listed(d, i) : Entry(e, i, k) = Entry(d, i, k)
  BY DEF NamesKept
<1>4. NamedOK(e, v)
  <2>1. SUFFICES ASSUME NEW i \in Inodes, IsDir(e, i), NEW k \in Listed(e, i)
                 PROVE  LET de == Entry(e, i, k) IN
                        /\ de.inode # Root /\ de.type # "FREE"
                        /\ de.inode # v => de.type = e.inodes[de.inode].type
    BY DEF NamedOK
  <2>2. IsDir(d, i) /\ k \in Listed(d, i) /\ Entry(e, i, k) = Entry(d, i, k)
    BY <1>3, <2>1
  <2>3. QED
    BY <2>2 DEF Sound, NamedOK
<1>5. NamedOnce(e)
  <2>1. SUFFICES ASSUME NEW i \in Inodes, NEW j \in Inodes, IsDir(e, i), IsDir(e, j),
                        NEW k \in Listed(e, i), NEW l \in Listed(e, j),
                        Entry(e, i, k).inode = Entry(e, j, l).inode
                 PROVE  i = j /\ k = l
    BY DEF NamedOnce
  <2>2. /\ IsDir(d, i) /\ k \in Listed(d, i) /\ Entry(e, i, k) = Entry(d, i, k)
        /\ IsDir(d, j) /\ l \in Listed(d, j) /\ Entry(e, j, l) = Entry(d, j, l)
    BY <1>3, <2>1
  <2>3. QED
    BY <2>1, <2>2 DEF Sound, NamedOnce
<1>6. QED
  BY <1>1, <1>2, <1>4, <1>5 DEF Sound

-----------------------------------------------------------------------------
(* What paths lead to                                                       *)

\* S, and what its directories list.
Beyond(d, S) == UNION {{i} \cup Children(d, i) : i \in S}

\* reach is how Reachable gets to its result.
Reaching(d, reach) ==
  /\ reach[0] = {Root}
  /\ \A n \in 1 .. NInodes : n - 1 \in 0 .. NInodes /\ reach[n] = Beyond(d, reach[n - 1])
  /\ \A n \in 0 .. NInodes : reach[n] \subseteq Inodes
  /\ Reachable(d) = reach[NInodes]

\* It gets there from the root, and by inodes only.
LEMMA ReachRounds ==
  ASSUME NEW d \in Disk
  PROVE  (\A i \in Inodes : Children(d, i) \subseteq Inodes) /\ \E reach : Reaching(d, reach)
<1> DEFINE X == SUBSET Inodes
           top == {Root}
           More(S) == UNION {{i} \cup Children(d, i) : i \in S}
           Good(f) == f = [n \in 0 .. NInodes |->
                             IF n = 0 THEN top
                             ELSE More(f[n - 1])]
           reach == CHOOSE f : Good(f)
           next == [n \in 1 .. NInodes |-> [S \in X |-> More(S)]]
<1>0. \A i \in Inodes : Children(d, i) \subseteq Inodes
  BY ListedAt DEF Children
<1>1. top \in X /\ NInodes \in Nat
  BY Constants
<1>2. ASSUME NEW S \in X PROVE More(S) \in X
  BY <1>0
<1> HIDE DEF X, top
<1>3. next \in [1 .. NInodes -> [X -> X]]
  <2> HIDE DEF More
  <2>1. QED
    BY <1>2
<1>4. PICK f : IsRounds(f, X, top, NInodes, next)
  <2> HIDE DEF next
  <2>1. QED
    BY <1>1, <1>3, Rounds
<1>5. \A n \in 1 .. NInodes : f[n] = More(f[n - 1])
  <2>1. SUFFICES ASSUME NEW n \in 1 .. NInodes PROVE f[n] = More(f[n - 1])
    OBVIOUS
  <2> HIDE DEF More
  <2>2. n - 1 \in 0 .. NInodes
    BY <1>1
  <2>3. f[n - 1] \in X /\ f[n] = next[n][f[n - 1]]
    BY <1>4, <2>2 DEF IsRounds
  <2>4. QED
    BY <2>3
<1>6. Good(f)
  BY <1>4, <1>5 DEF IsRounds
<1>7. Good(reach)
  <2> HIDE DEF Good
  <2>1. QED
    BY <1>6, Zenon
<1>8. Reachable(d) = reach[NInodes]
  BY DEF Reachable, top
<1> HIDE DEF reach
<1>9. \A S : More(S) = Beyond(d, S)
  BY DEF Beyond
<1> HIDE DEF More
<1>10. /\ reach[0] = top
       /\ \A n \in 1 .. NInodes : n - 1 \in 0 .. NInodes /\ reach[n] = More(reach[n - 1])
  BY <1>1, <1>7
<1> DEFINE T == {n \in 0 .. NInodes : reach[n] \in X}
<1>11. 0 \in T
  BY <1>1, <1>10
<1>12. ASSUME NEW m \in 0 .. NInodes - 1, m \in T PROVE m + 1 \in T
  <2>1. reach[m + 1] = More(reach[(m + 1) - 1]) /\ (m + 1) - 1 = m /\ m + 1 \in 1 .. NInodes
    BY <1>1, <1>10
  <2>2. More(reach[m]) \in X
    BY <1>2, <1>12
  <2>3. QED
    BY <2>1, <2>2
<1> HIDE DEF T
<1>13. 0 .. NInodes \subseteq T
  BY <1>1, <1>11, <1>12, UpTo
<1>14. \A n \in 0 .. NInodes : reach[n] \subseteq Inodes
  BY <1>13 DEF T, X
<1>15. Reaching(d, reach)
  BY <1>8, <1>9, <1>10, <1>14 DEF Reaching, top
<1>16. QED
  BY <1>0, <1>15

\* All that paths lead to is an inode.
LEMMA ReachableInodes ==
  ASSUME NEW d \in Disk
  PROVE  Reachable(d) \subseteq Inodes
<1>1. PICK reach : Reaching(d, reach)
  BY ReachRounds
<1>2. QED
  BY <1>1, Constants DEF Reaching

\* No path leads out of it: each round adds an inode or is the last to matter, and
\* there are more rounds than inodes.
LEMMA ReachClosed ==
  ASSUME NEW d \in Disk
  PROVE  Root \in Reachable(d) /\ \A i \in Reachable(d) : Children(d, i) \subseteq Reachable(d)
<1>1. PICK reach : Reaching(d, reach)
  BY ReachRounds
<1> DEFINE Closed(S) == \A i \in S : Children(d, i) \subseteq S
           T == {n \in 0 .. NInodes : /\ Root \in reach[n]
                                      /\ Closed(reach[n]) \/ Cardinality(reach[n]) >= n + 1}
<1>2. NInodes \in Nat
  BY Constants
<1>3. \A n \in 0 .. NInodes : reach[n] \in SUBSET Inodes
  BY <1>1 DEF Reaching
<1>4. \A n \in 0 .. NInodes : /\ IsFiniteSet(reach[n]) /\ Cardinality(reach[n]) \in Nat
                              /\ Cardinality(reach[n]) <= NInodes - 1
  BY <1>2, <1>3, FiniteParts
<1>5. 0 \in T
  <2>1. reach[0] = {Root} /\ Cardinality({Root}) = 1
    BY <1>1, FS_Singleton DEF Reaching
  <2>2. QED
    BY <1>2, <2>1
<1>6. ASSUME NEW m \in 0 .. NInodes - 1, m \in T PROVE m + 1 \in T
  <2> DEFINE S == reach[m]
             N == reach[m + 1]
  <2>1. m \in 0 .. NInodes /\ m + 1 \in 0 .. NInodes /\ m + 1 \in 1 .. NInodes /\ (m + 1) - 1 = m
    BY <1>2
  <2>2. N = Beyond(d, S)
    BY <1>1, <2>1 DEF Reaching
  <2>3. S \subseteq N /\ \A i \in S : Children(d, i) \subseteq N
    BY <2>2 DEF Beyond
  <2>4. Root \in N
    BY <1>6, <2>3
  <2>5. CASE Closed(S)
    <3>1. N = S
      BY <2>2, <2>3, <2>5 DEF Beyond
    <3>2. QED
      BY <2>1, <2>4, <2>5, <3>1
  <2>6. CASE ~Closed(S)
    <3>1. N # S
      BY <2>3, <2>6
    <3>2. IsFiniteSet(N) /\ S \in SUBSET N
      BY <1>4, <2>1, <2>3
    <3>3. Cardinality(S) <= Cardinality(N) /\ Cardinality(S) # Cardinality(N)
      BY <3>1, <3>2, FS_Subset
    <3>4. Cardinality(S) >= m + 1 /\ Cardinality(S) \in Nat /\ Cardinality(N) \in Nat
      BY <1>4, <1>6, <2>1, <2>6
    <3>5. Cardinality(N) >= (m + 1) + 1
      BY <3>3, <3>4
    <3>6. QED
      BY <2>1, <2>4, <3>5
  <2>7. QED
    BY <2>5, <2>6
<1> HIDE DEF T
<1>7. 0 .. NInodes \subseteq T
  BY <1>2, <1>5, <1>6, UpTo
<1>8. NInodes \in 0 .. NInodes
  BY <1>2
<1>9. Root \in reach[NInodes] /\ Closed(reach[NInodes])
  BY <1>2, <1>4, <1>7, <1>8 DEF T
<1>10. QED
  BY <1>1, <1>9 DEF Reaching

\* It is the least set that has the root and what its directories list.
LEMMA ReachLeast ==
  ASSUME NEW d \in Disk, NEW X, Root \in X, \A i \in X \cap Inodes : Children(d, i) \subseteq X
  PROVE  Reachable(d) \subseteq X
<1>1. PICK reach : Reaching(d, reach)
  BY ReachRounds
<1>2. NInodes \in Nat
  BY Constants
<1> DEFINE T == {n \in 0 .. NInodes : reach[n] \subseteq X}
<1>3. 0 \in T
  BY <1>1, <1>2 DEF Reaching
<1>4. ASSUME NEW m \in 0 .. NInodes - 1, m \in T PROVE m + 1 \in T
  <2>1. m \in 0 .. NInodes /\ m + 1 \in 0 .. NInodes /\ m + 1 \in 1 .. NInodes /\ (m + 1) - 1 = m
    BY <1>2
  <2>2. reach[m + 1] = Beyond(d, reach[m]) /\ reach[m] \subseteq X \cap Inodes
    BY <1>1, <1>4, <2>1 DEF Reaching
  <2>3. Beyond(d, reach[m]) \subseteq X
    BY <2>2 DEF Beyond
  <2>4. QED
    BY <2>1, <2>2, <2>3
<1> HIDE DEF T
<1>5. 0 .. NInodes \subseteq T
  BY <1>2, <1>3, <1>4, UpTo
<1>6. reach[NInodes] \subseteq X
  BY <1>2, <1>5 DEF T
<1>7. QED
  BY <1>1, <1>6 DEF Reaching

\* e leads where d led, if it lists what d listed but for v, beyond which nothing was.
LEMMA ReachMore ==
  ASSUME NEW d \in Disk, NEW e \in Disk, NEW v,
         \A i \in Inodes : Children(d, i) \ {v} \subseteq Children(e, i),
         v \in Inodes => Children(d, v) = {}
  PROVE  Reachable(d) \ {v} \subseteq Reachable(e)
<1> DEFINE X == Reachable(e) \cup ({v} \cap Inodes)
<1>1. Root \in Reachable(e) /\ \A i \in Reachable(e) : Children(e, i) \subseteq Reachable(e)
  BY ReachClosed
<1>2. \A i \in Inodes : Children(d, i) \subseteq Inodes
  BY ReachRounds
<1>3. ASSUME NEW i \in X \cap Inodes PROVE Children(d, i) \subseteq X
  <2>1. CASE i \in Reachable(e)
    BY <1>1, <1>2, <2>1
  <2>2. CASE i = v
    BY <2>2
  <2>3. QED
    BY <2>1, <2>2
<1> HIDE DEF X
<1>4. Root \in X
  BY <1>1 DEF X
<1>5. Reachable(d) \subseteq X
  BY <1>3, <1>4, ReachLeast
<1>6. QED
  BY <1>5 DEF X

\* A directory has all the blocks its size says.
Full(d) ==
  \A i \in Inodes, k \in Nat : IsDir(d, i) /\ k < d.inodes[i].size =>
    BlockOf(k) < Table /\ \A j \in 0 .. BlockOf(k) : RefMap(d)[<<i, j>>] # 0

\* So every entry in it is seen.
LEMMA FullListed ==
  ASSUME NEW d \in Disk, Full(d), NEW i \in Inodes, IsDir(d, i), NEW k \in Nat, k < d.inodes[i].size
  PROVE  /\ \A j \in 0 .. BlockOf(k) :
              /\ j < Table /\ <<i, j>> \in Places
              /\ RefMap(d)[<<i, j>>] # 0 /\ GetBlock(d, d.inodes[i], j) = RefMap(d)[<<i, j>>]
         /\ k \in Listed(d, i) <=> Entry(d, i, k).inode # 0
<1>1. BlockOf(k) \in Nat /\ BlockOf(k) < Table /\ Table \in Nat
  <2>1. Table \in Nat
    BY Constants DEF Table
  <2>2. BlockOf(k) \in Nat
    BY EntryPlaces
  <2>3. QED
    BY <2>1, <2>2 DEF Full
<1>2. d.inodes[i] \in Inode
  BY DEF Disk
<1>3. ASSUME NEW j \in 0 .. BlockOf(k)
      PROVE  /\ j < Table /\ <<i, j>> \in Places
             /\ RefMap(d)[<<i, j>>] # 0 /\ GetBlock(d, d.inodes[i], j) = RefMap(d)[<<i, j>>]
  <2>1. j \in Nat /\ j < Table /\ j \in 0 .. Table
    BY <1>1
  <2>2. RefMap(d)[<<i, j>>] # 0
    BY DEF Full
  <2>3. <<i, j>> \in Places /\ RefMap(d)[<<i, j>>] = OwnedBlock(d, d.inodes[i], j)
    BY <2>1, RefMapFacts
  <2>4. GetBlock(d, d.inodes[i], j) = OwnedBlock(d, d.inodes[i], j)
    BY <1>2, <2>1, GetBlockPlace
  <2>5. QED
    BY <2>1, <2>2, <2>3, <2>4
<1>4. \A j \in 0 .. BlockOf(k) : GetBlock(d, d.inodes[i], j) # 0
  BY <1>3
<1>5. QED
  BY <1>3, <1>4, ListedAt

\* No path is cut: all inodes in use but v are reached, and all entries are seen.
Whole(d, v) == Live(d) \ {v} \subseteq Reachable(d) /\ Full(d)

\* An operation that loses no inode leaks none.
OrphanFree(c, a) == Whole(c.disk, 0) /\ "inodes" \notin a.lost => Whole(a.disk, 0)

\* So it stays where nothing else is in use, and nothing is listed no more.
LEMMA WholeLike ==
  ASSUME NEW d \in Disk, NEW e \in Disk, NEW v, Whole(d, v),
         \A i \in Inodes : e.inodes[i].type = d.inodes[i].type /\ Children(d, i) \subseteq Children(e, i),
         \A i \in Inodes : IsDir(d, i) =>
           /\ e.inodes[i].size = d.inodes[i].size
           /\ \A f \in 0 .. Table : RefMap(d)[<<i, f>>] # 0 => RefMap(e)[<<i, f>>] # 0
  PROVE  Whole(e, v)
<1>1. 0 \notin Inodes
  BY Constants
<1>2. Reachable(d) \ {0} \subseteq Reachable(e)
  BY <1>1, ReachMore
<1>3. Live(e) = Live(d) /\ Live(e) \subseteq Inodes
  BY DEF Live
<1>4. Live(e) \ {v} \subseteq Reachable(e)
  BY <1>1, <1>2, <1>3 DEF Whole
<1>5. Full(e)
  <2>1. SUFFICES ASSUME NEW i \in Inodes, NEW k \in Nat, IsDir(e, i), k < e.inodes[i].size
                 PROVE  BlockOf(k) < Table /\ \A j \in 0 .. BlockOf(k) : RefMap(e)[<<i, j>>] # 0
    BY DEF Full
  <2>2. IsDir(d, i) /\ k < d.inodes[i].size
    BY <2>1 DEF IsDir
  <2>3. BlockOf(k) < Table /\ \A j \in 0 .. BlockOf(k) : RefMap(d)[<<i, j>>] # 0
    BY <2>2 DEF Whole, Full
  <2>4. BlockOf(k) \in Nat /\ Table \in Nat
    <3>1. Table \in Nat
      BY Constants DEF Table
    <3>2. QED
      BY <3>1, EntryPlaces
  <2>5. \A j \in 0 .. BlockOf(k) : j \in 0 .. Table
    BY <2>3, <2>4
  <2>6. QED
    BY <2>2, <2>3, <2>5
<1>6. QED
  BY <1>4, <1>5 DEF Whole

\* A free inode is not in use.
LEMMA WholeFree ==
  ASSUME NEW d, NEW v, d.inodes[v].type = "FREE", Whole(d, v)
  PROVE  Whole(d, 0)
BY DEF Whole, Live

\* What is listed as before leads on as before.
LEMMA KeptChildren ==
  ASSUME NEW d, NEW e, NamesKept(d, e), NEW i \in Inodes
  PROVE  Children(e, i) = Children(d, i)
BY DEF NamesKept, Children

\* Nor does it matter where the blocks themselves are free.
LEMMA WholeAlike ==
  ASSUME NEW d \in Disk, NEW e, Alike(d, e), NEW v, Whole(d, v)
  PROVE  Whole(e, v)
<1>1. e \in Disk /\ e.inodes = d.inodes /\ RefMap(e) = RefMap(d) /\ NamesKept(d, e)
  BY DEF Alike
<1>2. \A i \in Inodes : e.inodes[i].type = d.inodes[i].type /\ Children(d, i) \subseteq Children(e, i)
  BY <1>1, KeptChildren
<1>3. QED
  BY <1>1, <1>2, WholeLike

\* A free inode may lose its name.
LEMMA WholeDropped ==
  ASSUME NEW d \in Disk, NEW e \in Disk, e.inodes = d.inodes, RefMap(e) = RefMap(d), NEW v \in Inodes,
         d.inodes[v].type = "FREE", \A i \in Inodes : Children(d, i) \ {v} \subseteq Children(e, i),
         Whole(d, 0)
  PROVE  Whole(e, 0)
<1>1. Children(d, v) = {}
  BY DEF Children, IsDir
<1>2. Reachable(d) \ {v} \subseteq Reachable(e)
  BY <1>1, ReachMore
<1>3. Live(e) = Live(d) /\ v \notin Live(d)
  BY DEF Live
<1>4. Full(e)
  BY DEF Whole, Full, IsDir
<1>5. QED
  BY <1>2, <1>3, <1>4 DEF Whole

\* A file's inode leads nowhere.
LEMMA WholeFile ==
  ASSUME NEW d \in Disk, NEW v, Whole(d, v), NEW ino \in Inodes, ~IsDir(d, ino),
         NEW n \in Inode, n.type = d.inodes[ino].type
  PROVE  Whole([d EXCEPT !.inodes[ino] = n], v)
<1> DEFINE e == [d EXCEPT !.inodes[ino] = n]
<1>1. InodeImaged(d, ino, n, e)
  BY InodeImage
<1> HIDE DEF e
<1>2. /\ e \in Disk /\ e.inodes[ino] = n /\ \A i \in Inodes \ {ino} : e.inodes[i] = d.inodes[i]
      /\ \A i \in Inodes \ {ino}, f \in 0 .. Table : RefMap(e)[<<i, f>>] = RefMap(d)[<<i, f>>]
      /\ \A i \in Inodes \ {ino} :
           Listed(e, i) = Listed(d, i) /\ \A k \in Listed(d, i) : Entry(e, i, k) = Entry(d, i, k)
  BY <1>1 DEF InodeImaged
<1>3. ASSUME NEW i \in Inodes
      PROVE  /\ e.inodes[i].type = d.inodes[i].type /\ Children(d, i) \subseteq Children(e, i)
             /\ IsDir(d, i) => /\ e.inodes[i].size = d.inodes[i].size
                               /\ \A f \in 0 .. Table : RefMap(d)[<<i, f>>] # 0 => RefMap(e)[<<i, f>>] # 0
  <2>1. CASE i = ino
    BY <1>2, <2>1 DEF Children
  <2>2. CASE i # ino
    BY <1>2, <2>2 DEF Children, IsDir
  <2>3. QED
    BY <2>1, <2>2
<1>4. Whole(e, v)
  BY <1>2, <1>3, WholeLike
<1>5. QED
  BY <1>4 DEF e

-----------------------------------------------------------------------------
(* An inode grows: dorifs_alloc_block and dorifs_set_block                  *)

\* The disk as it would be with the local inode written.
Eff(c, ino) == [c.disk EXCEPT !.inodes[ino] = c.inode]

\* All images so far are sound, and the last one is what the disk is.
LogOK(c, v) ==
  /\ \A n \in DOMAIN c.log : Sound(c.log[n], v)
  /\ c.log # <<>> => c.log[Len(c.log)] = c.disk
  /\ c.ram.bitmap = c.disk.bitmap

\* In the middle of a create or a write the local inode refers to what the one on
\* the disk does, and to blocks that are nobody else's.
Growing(c, ino) ==
  /\ c \in Contexts
  /\ LogOK(c, 0)
  /\ Sound(c.disk, 0)
  /\ c.inode.type = c.disk.inodes[ino].type
  /\ c.inode.size = c.disk.inodes[ino].size
  /\ Within(RefMap(c.disk), RefMap(Eff(c, ino)))
  /\ OwnedIn(RefMap(Eff(c, ino)), c.ram.bitmap, 0)

\* What it holds, and what its inodes refer to.
LEMMA EffFacts ==
  ASSUME NEW c \in Contexts, NEW ino \in Inodes
  PROVE  /\ c.disk \in Disk /\ c.inode \in Inode /\ Eff(c, ino) \in Disk
         /\ Eff(c, ino).blocks = c.disk.blocks /\ Eff(c, ino).bitmap = c.disk.bitmap
         /\ Eff(c, ino).inodes[ino] = c.inode
         /\ \A i \in Inodes \ {ino} : Eff(c, ino).inodes[i] = c.disk.inodes[i]
         /\ \A i \in Inodes, f \in 0 .. Table :
              RefMap(Eff(c, ino))[<<i, f>>] =
                IF i = ino THEN OwnedBlock(c.disk, c.inode, f) ELSE RefMap(c.disk)[<<i, f>>]
<1>1. c.disk \in Disk /\ c.inode \in Inode
  BY DEF Contexts
<1>2. InodeImaged(c.disk, ino, c.inode, Eff(c, ino))
  BY <1>1, InodeImage DEF Eff
<1>3. QED
  BY <1>1, <1>2 DEF InodeImaged

\* One more image, and perhaps one more reference in the local inode.
LEMMA GrowingImage ==
  ASSUME NEW ino \in Inodes, NEW c, Growing(c, ino), NEW a \in Contexts,
         a.log = Append(c.log, a.disk), a.ram.bitmap = a.disk.bitmap,
         a.disk.inodes = c.disk.inodes, NamesKept(c.disk, a.disk),
         Within(RefMap(c.disk), RefMap(a.disk)),
         a.inode.type = c.inode.type, a.inode.size = c.inode.size,
         Within(RefMap(a.disk), RefMap(Eff(a, ino))),
         OwnedIn(RefMap(Eff(a, ino)), a.disk.bitmap, 0)
  PROVE  Growing(a, ino)
<1>1. OwnedIn(RefMap(a.disk), a.disk.bitmap, 0)
  BY OwnedWithin
<1>2. Sound(a.disk, 0)
  <2>1. a.disk \in Disk /\ Sound(c.disk, 0)
    BY DEF Contexts, Growing
  <2>2. QED
    BY <1>1, <2>1, SoundKept
<1>3. LogOK(a, 0)
  <2>1. c.log \in Seq(Disk) /\ a.disk \in Disk
    BY DEF Growing, Contexts
  <2>2. /\ DOMAIN a.log = 1 .. Len(c.log) + 1 /\ Len(a.log) = Len(c.log) + 1
        /\ a.log[Len(c.log) + 1] = a.disk /\ \A n \in DOMAIN c.log : a.log[n] = c.log[n]
        /\ DOMAIN c.log = 1 .. Len(c.log) /\ Len(c.log) \in Nat
    BY <2>1
  <2>3. \A n \in DOMAIN c.log : Sound(c.log[n], 0)
    BY DEF Growing, LogOK
  <2>4. \A n \in DOMAIN a.log : Sound(a.log[n], 0)
    <3>1. SUFFICES ASSUME NEW n \in DOMAIN a.log PROVE Sound(a.log[n], 0)
      OBVIOUS
    <3>2. n \in DOMAIN c.log \/ n = Len(c.log) + 1
      BY <2>2
    <3>3. QED
      BY <1>2, <2>2, <2>3, <3>2
  <2>5. QED
    BY <2>2, <2>4 DEF LogOK
<1>4. a.inode.type = a.disk.inodes[ino].type /\ a.inode.size = a.disk.inodes[ino].size
  BY DEF Growing
<1>5. QED
  BY <1>2, <1>3, <1>4 DEF Growing

\* a is a context that c has grown to: every reference is still there.
Grows(c, a, ino) ==
  /\ Growing(a, ino)
  /\ a.disk.inodes = c.disk.inodes /\ NamesKept(c.disk, a.disk)
  /\ Within(RefMap(c.disk), RefMap(a.disk))
  /\ Within(RefMap(Eff(c, ino)), RefMap(Eff(a, ino)))
  /\ c.ram.bitmap \subseteq a.ram.bitmap /\ BlocksKept(c, a)

\* Steps of growth add up.
LEMMA NamesKeptTrans ==
  ASSUME NEW d, NEW e, NEW g, NamesKept(d, e), NamesKept(e, g)
  PROVE  NamesKept(d, g)
<1>1. SUFFICES ASSUME NEW i \in Inodes
               PROVE  /\ IsDir(g, i) <=> IsDir(d, i)
                      /\ IsDir(d, i) =>
                           Listed(g, i) = Listed(d, i) /\ \A k \in Listed(d, i) : Entry(g, i, k) = Entry(d, i, k)
  BY DEF NamesKept
<1>2. /\ IsDir(e, i) <=> IsDir(d, i)
      /\ IsDir(d, i) =>
           Listed(e, i) = Listed(d, i) /\ \A k \in Listed(d, i) : Entry(e, i, k) = Entry(d, i, k)
  BY DEF NamesKept
<1>3. /\ IsDir(g, i) <=> IsDir(e, i)
      /\ IsDir(e, i) =>
           Listed(g, i) = Listed(e, i) /\ \A k \in Listed(e, i) : Entry(g, i, k) = Entry(e, i, k)
  BY DEF NamesKept
<1>4. QED
  BY <1>2, <1>3

\* So do references that are kept.
LEMMA WithinTrans ==
  ASSUME NEW R, NEW S, NEW T, Within(R, S), Within(S, T)
  PROVE  Within(R, T)
BY DEF Within

\* So a growing context may be followed step by step.
LEMMA GrowsTrans ==
  ASSUME NEW ino, NEW c, NEW a, NEW b, Grows(c, a, ino), Grows(a, b, ino)
  PROVE  Grows(c, b, ino)
<1>1. NamesKept(c.disk, b.disk)
  BY NamesKeptTrans DEF Grows
<1>2. Within(RefMap(c.disk), RefMap(b.disk))
  BY WithinTrans DEF Grows
<1>3. Within(RefMap(Eff(c, ino)), RefMap(Eff(b, ino)))
  BY WithinTrans DEF Grows
<1>4. BlocksKept(c, b)
  BY BlocksKeptTrans DEF Grows
<1>5. QED
  BY <1>1, <1>2, <1>3, <1>4 DEF Grows

\* A step that writes nothing.
LEMMA GrowsLocally ==
  ASSUME NEW ino \in Inodes, NEW c, Growing(c, ino), NEW a \in Contexts,
         a.disk = c.disk, a.log = c.log, a.ram = c.ram,
         a.inode.type = c.inode.type, a.inode.size = c.inode.size,
         Within(RefMap(Eff(c, ino)), RefMap(Eff(a, ino))),
         OwnedIn(RefMap(Eff(a, ino)), c.ram.bitmap, 0)
  PROVE  Grows(c, a, ino)
<1>1. Within(RefMap(c.disk), RefMap(Eff(a, ino)))
  BY WithinTrans DEF Growing
<1>2. Growing(a, ino)
  BY <1>1 DEF Growing, LogOK
<1>3. NamesKept(c.disk, a.disk) /\ Within(RefMap(c.disk), RefMap(a.disk))
  BY DEF NamesKept, Within
<1>4. BlocksKept(c, a)
  BY SameRam
<1>5. QED
  BY <1>2, <1>3, <1>4 DEF Grows

\* A step that leaves one more image.
LEMMA GrowsImage ==
  ASSUME NEW ino \in Inodes, NEW c, Growing(c, ino), NEW a \in Contexts,
         a.log = Append(c.log, a.disk), a.ram.bitmap = a.disk.bitmap,
         c.ram.bitmap \subseteq a.ram.bitmap, BlocksKept(c, a),
         a.disk.inodes = c.disk.inodes, NamesKept(c.disk, a.disk),
         Within(RefMap(c.disk), RefMap(a.disk)),
         a.inode.type = c.inode.type, a.inode.size = c.inode.size,
         Within(RefMap(a.disk), RefMap(Eff(a, ino))),
         Within(RefMap(Eff(c, ino)), RefMap(Eff(a, ino))),
         OwnedIn(RefMap(Eff(a, ino)), a.disk.bitmap, 0)
  PROVE  Grows(c, a, ino)
<1>1. Growing(a, ino)
  BY GrowingImage
<1>2. QED
  BY <1>1 DEF Grows

\* The references are those of the disk and of the local inode.
LEMMA EffSame ==
  ASSUME NEW c \in Contexts, NEW a \in Contexts, NEW ino \in Inodes,
         RefMap(a.disk) = RefMap(c.disk),
         \A f \in 0 .. Table : OwnedBlock(a.disk, a.inode, f) = OwnedBlock(c.disk, c.inode, f)
  PROVE  RefMap(Eff(a, ino)) = RefMap(Eff(c, ino))
<1>1. /\ RefMap(Eff(a, ino)) \in [Places -> Block0] /\ RefMap(Eff(c, ino)) \in [Places -> Block0]
      /\ \A i \in Inodes, f \in 0 .. Table :
           RefMap(Eff(a, ino))[<<i, f>>] = RefMap(Eff(c, ino))[<<i, f>>]
  BY EffFacts, RefMapFacts
<1>2. ASSUME NEW p \in Places PROVE RefMap(Eff(a, ino))[p] = RefMap(Eff(c, ino))[p]
  BY <1>1 DEF Places
<1>3. QED
  BY <1>1, <1>2

\* The local inode may change in what does not refer to blocks.
LEMMA EffSamePointers ==
  ASSUME NEW c \in Contexts, NEW a \in Contexts, NEW ino \in Inodes, a.disk = c.disk,
         a.inode.direct = c.inode.direct, a.inode.indirect = c.inode.indirect
  PROVE  RefMap(Eff(a, ino)) = RefMap(Eff(c, ino))
<1>1. \A f \in 0 .. Table : OwnedBlock(a.disk, a.inode, f) = OwnedBlock(c.disk, c.inode, f)
  BY DEF OwnedBlock, GetBlock
<1>2. QED
  BY <1>1, EffSame

\* One place of the local inode changes.
LEMMA EffSet ==
  ASSUME NEW c \in Contexts, NEW a \in Contexts, NEW ino \in Inodes,
         RefMap(a.disk) = RefMap(c.disk), NEW g \in 0 .. Table, NEW b,
         \A f \in 0 .. Table : OwnedBlock(a.disk, a.inode, f) =
            IF f = g THEN b ELSE OwnedBlock(c.disk, c.inode, f)
  PROVE  RefMap(Eff(a, ino)) = RefSet(RefMap(Eff(c, ino)), <<ino, g>>, b)
<1> DEFINE R == RefMap(Eff(c, ino))
           S == RefMap(Eff(a, ino))
<1>1. R \in [Places -> Block0] /\ S \in [Places -> Block0]
  BY EffFacts, RefMapFacts
<1>2. \A i \in Inodes, f \in 0 .. Table :
        S[<<i, f>>] = IF i = ino /\ f = g THEN b ELSE R[<<i, f>>]
  <2>1. \A i \in Inodes, f \in 0 .. Table :
          S[<<i, f>>] =
            IF i = ino THEN OwnedBlock(a.disk, a.inode, f) ELSE RefMap(a.disk)[<<i, f>>]
    BY EffFacts
  <2>2. \A i \in Inodes, f \in 0 .. Table :
          R[<<i, f>>] =
            IF i = ino THEN OwnedBlock(c.disk, c.inode, f) ELSE RefMap(c.disk)[<<i, f>>]
    BY EffFacts
  <2>3. QED
    BY <2>1, <2>2
<1> HIDE DEF R, S
<1>3. ASSUME NEW p \in Places PROVE S[p] = [R EXCEPT ![<<ino, g>>] = b][p]
  <2>1. PICK i \in Inodes, f \in 0 .. Table : p = <<i, f>>
    BY DEF Places
  <2>2. [R EXCEPT ![<<ino, g>>] = b][p] = IF p = <<ino, g>> THEN b ELSE R[p]
    BY <1>1
  <2>3. QED
    BY <1>2, <2>1, <2>2
<1>4. S = [R EXCEPT ![<<ino, g>>] = b]
  BY <1>1, <1>3
<1>5. QED
  BY <1>4 DEF R, S, RefSet

-----------------------------------------------------------------------------
(* What leaks                                                               *)

\* The file blocks inode i has.
DataOf(R, i) == {f \in 0 .. Table - 1 : R[<<i, f>>] # 0}

\* Every marked block is referred to; an inode counts the blocks it has, and has
\* none when it is free.
Tight(d) ==
  /\ \A b \in d.bitmap : \E p \in Places : RefMap(d)[p] = b
  /\ \A i \in Inodes : d.inodes[i].block_count = Cardinality(DataOf(RefMap(d), i))
  /\ \A i \in Inodes : d.inodes[i].type = "FREE" => \A f \in 0 .. Table : RefMap(d)[<<i, f>>] = 0

\* So it is of the disk with the local inode written, if set_block has lost no block.
TightIn(c, ino) == "blocks" \notin c.lost => Tight(Eff(c, ino))

\* An operation that loses no block leaks none.
LeakFree(c, a) == Tight(c.disk) /\ "blocks" \notin a.lost => Tight(a.disk)

\* An inode has no more blocks than there are.
LEMMA DataCount ==
  ASSUME NEW R \in [Places -> Block0], NEW bitmap, NEW v, OwnedIn(R, bitmap, v), NEW i \in Inodes
  PROVE  IsFiniteSet(DataOf(R, i)) /\ Cardinality(DataOf(R, i)) \in Nat /\ Cardinality(DataOf(R, i)) < Word
<1> DEFINE S == DataOf(R, i)
           g == [f \in S |-> R[<<i, f>>]]
<1>1. ASSUME NEW f \in S PROVE <<i, f>> \in Places /\ R[<<i, f>>] \in Blocks
  <2>1. f \in 0 .. Table /\ R[<<i, f>>] # 0
    BY Constants DEF DataOf, Table
  <2>2. <<i, f>> \in Places
    BY <2>1 DEF Places
  <2>3. QED
    BY <2>1, <2>2, Constants
<1>2. ASSUME NEW f \in S, NEW h \in S, R[<<i, f>>] = R[<<i, h>>] PROVE f = h
  <2>1. <<i, f>> \in Places /\ <<i, h>> \in Places /\ R[<<i, f>>] # 0
    BY <1>1 DEF DataOf
  <2>2. <<i, f>> = <<i, h>>
    BY <1>2, <2>1 DEF OwnedIn
  <2>3. QED
    BY <2>2
<1> HIDE DEF S
<1>3. g \in [S -> Blocks]
  BY <1>1
<1>4. \A f, h \in S : g[f] = g[h] => f = h
  BY <1>2
<1> HIDE DEF g
<1>5. g \in Injection(S, Blocks)
  BY <1>3, <1>4 DEF Injection, IsInjective
<1>6. IsFiniteSet(Blocks) /\ Cardinality(Blocks) = NBlocks
  BY FiniteParts
<1>7. IsFiniteSet(S) /\ Cardinality(S) <= NBlocks
  BY <1>5, <1>6, FS_Injection
<1>8. Cardinality(S) \in Nat
  BY <1>7, FS_CardinalityType
<1>9. Cardinality(S) < Word
  BY <1>7, <1>8, Constants
<1>10. QED
  BY <1>7, <1>8, <1>9 DEF S

\* The counts follow the blocks of an inode up ...
LEMMA DataIn ==
  ASSUME NEW R, NEW S \in [Places -> Block0], NEW bitmap, NEW v, OwnedIn(S, bitmap, v),
         NEW i \in Inodes, NEW fb \in 0 .. Table - 1, R[<<i, fb>>] = 0, S[<<i, fb>>] # 0,
         \A f \in 0 .. Table - 1 : f # fb => S[<<i, f>>] = R[<<i, f>>],
         NEW n, n = Cardinality(DataOf(R, i))
  PROVE  Plus(n, 1) = Cardinality(DataOf(S, i))
<1>1. DataOf(S, i) = DataOf(R, i) \cup {fb} /\ fb \notin DataOf(R, i)
  BY DEF DataOf
<1>2. IsFiniteSet(DataOf(S, i)) /\ Cardinality(DataOf(S, i)) \in Nat /\ Cardinality(DataOf(S, i)) < Word
  BY DataCount
<1>3. IsFiniteSet(DataOf(R, i)) /\ n \in Nat
  BY <1>1, <1>2, FS_Subset, FS_CardinalityType
<1>4. Cardinality(DataOf(S, i)) = n + 1
  BY <1>1, <1>3, FS_AddElement
<1>5. QED
  BY <1>2, <1>3, <1>4, CountSteps

\* ... and down.
LEMMA DataOut ==
  ASSUME NEW R \in [Places -> Block0], NEW S, NEW bitmap, NEW v, OwnedIn(R, bitmap, v),
         NEW i \in Inodes, NEW fb \in 0 .. Table - 1, R[<<i, fb>>] # 0, S[<<i, fb>>] = 0,
         \A f \in 0 .. Table - 1 : f # fb => S[<<i, f>>] = R[<<i, f>>],
         NEW n, n = Cardinality(DataOf(R, i))
  PROVE  Minus(n, 1) = Cardinality(DataOf(S, i))
<1>1. DataOf(S, i) = DataOf(R, i) \ {fb} /\ fb \in DataOf(R, i)
  BY DEF DataOf
<1>2. IsFiniteSet(DataOf(R, i)) /\ n \in Nat /\ n < Word
  BY DataCount
<1>3. IsFiniteSet(DataOf(S, i)) /\ Cardinality(DataOf(S, i)) = n - 1 /\ Cardinality(DataOf(S, i)) \in Nat
  BY <1>1, <1>2, FS_RemoveElement, FS_CardinalityType
<1>4. QED
  BY <1>2, <1>3, CountSteps

\* A disk that refers to the same blocks and marks no more leaks no more.
LEMMA TightSame ==
  ASSUME NEW d, NEW e, Tight(d), e.bitmap \subseteq d.bitmap, RefMap(e) = RefMap(d),
         \A i \in Inodes : /\ e.inodes[i].block_count = d.inodes[i].block_count
                           /\ e.inodes[i].type = d.inodes[i].type
  PROVE  Tight(e)
BY DEF Tight

\* So does a step that changes neither references nor marks.
LEMMA TightInSame ==
  ASSUME NEW ino \in Inodes, NEW c \in Contexts, NEW a \in Contexts, c.lost \subseteq a.lost,
         a.disk.inodes = c.disk.inodes, a.disk.bitmap = c.disk.bitmap,
         a.inode.block_count = c.inode.block_count, a.inode.type = c.inode.type,
         RefMap(Eff(a, ino)) = RefMap(Eff(c, ino)), TightIn(c, ino)
  PROVE  TightIn(a, ino)
<1> DEFINE d == Eff(c, ino)
           e == Eff(a, ino)
<1>1. SUFFICES ASSUME "blocks" \notin a.lost PROVE Tight(e)
  BY DEF TightIn
<1>2. Tight(d)
  BY <1>1 DEF TightIn
<1>3. /\ e.bitmap = d.bitmap /\ e.inodes[ino] = a.inode /\ d.inodes[ino] = c.inode
      /\ \A i \in Inodes \ {ino} : e.inodes[i] = d.inodes[i]
  BY EffFacts
<1>4. \A i \in Inodes : /\ e.inodes[i].block_count = d.inodes[i].block_count
                        /\ e.inodes[i].type = d.inodes[i].type
  BY <1>3
<1>5. RefMap(e) = RefMap(d)
  OBVIOUS
<1> HIDE DEF d, e
<1>6. QED
  BY <1>2, <1>3, <1>4, <1>5, TightSame

\* Nothing leaks on the way from c to a, if the inode is in use.
Tightens(c, a, ino) ==
  /\ c.lost \subseteq a.lost
  /\ c.disk.inodes[ino].type # "FREE" /\ TightIn(c, ino) => TightIn(a, ino)

\* It adds up.
LEMMA TightensTrans ==
  ASSUME NEW ino, NEW c, NEW a, NEW b, Tightens(c, a, ino), Tightens(a, b, ino),
         a.disk.inodes = c.disk.inodes
  PROVE  Tightens(c, b, ino)
BY DEF Tightens

\* The data of a block is nothing to it.
LEMMA TightensWrite ==
  ASSUME NEW ino \in Inodes, NEW c \in Contexts, NEW b \in Blocks, NEW content \in Content, NEW a,
         Leaves(c, a, [c.disk EXCEPT !.blocks[b] = content]), RefMap(Eff(a, ino)) = RefMap(Eff(c, ino))
  PROVE  Tightens(c, a, ino)
<1>1. /\ a \in Contexts /\ a.disk = [c.disk EXCEPT !.blocks[b] = content] /\ a.inode = c.inode
      /\ a.lost = c.lost
  BY DEF Leaves
<1>2. a.disk.inodes = c.disk.inodes /\ a.disk.bitmap = c.disk.bitmap
  BY <1>1 DEF Contexts, Disk
<1>3. TightIn(c, ino) => TightIn(a, ino)
  BY <1>1, <1>2, TightInSame
<1>4. QED
  BY <1>1, <1>3 DEF Tightens

\* The local inode is written, and may get another size.
LEMMA TightEnd ==
  ASSUME NEW ino \in Inodes, NEW w \in Contexts, TightIn(w, ino), "blocks" \notin w.lost,
         NEW n \in Inode, n.direct = w.inode.direct, n.indirect = w.inode.indirect,
         n.block_count = w.inode.block_count, n.type = w.inode.type
  PROVE  Tight([w.disk EXCEPT !.inodes[ino] = n])
<1> DEFINE a == [w EXCEPT !.inode = n]
<1>1. a \in Contexts /\ a.disk = w.disk /\ a.inode = n /\ a.lost = w.lost
  BY DEF Contexts
<1>2. Eff(a, ino) = [w.disk EXCEPT !.inodes[ino] = n]
  BY <1>1 DEF Eff
<1> HIDE DEF a
<1>3. RefMap(Eff(a, ino)) = RefMap(Eff(w, ino))
  BY <1>1, EffSamePointers
<1>4. TightIn(a, ino)
  BY <1>1, <1>3, TightInSame
<1>5. QED
  BY <1>1, <1>2, <1>4 DEF TightIn

\* g is c with b entered at fb of the local inode, and the indirect block at its
\* place, if set_block has lost no block.
Filled(c, g, ino, fb, b) ==
  /\ c.lost \subseteq g.lost
  /\ "blocks" \notin g.lost =>
       LET R == RefMap(Eff(c, ino))
           S == RefMap(Eff(g, ino))
       IN  /\ fb < Table /\ S[<<ino, fb>>] = b
           /\ \A p \in Places : p # <<ino, fb>> /\ p # <<ino, Table>> => S[p] = R[p]
           /\ \A x \in g.ram.bitmap : x \in c.ram.bitmap \/ x = S[<<ino, Table>>]

\* A file that has grown by a block n just allocated leaks no more than it did.
LEMMA FilledTight ==
  ASSUME NEW ino \in Inodes, NEW c, Growing(c, ino), NEW a, a.lost = c.lost,
         RefMap(Eff(a, ino)) = RefMap(Eff(c, ino)), NEW n \in Blocks, a.ram.bitmap = c.ram.bitmap \cup {n},
         NEW fb \in Nat, NEW g, Grows(c, g, ino), Filled(a, g, ino, fb, n),
         fb < Table => RefMap(Eff(c, ino))[<<ino, fb>>] = 0,
         g.inode.block_count = Plus(c.inode.block_count, 1), c.disk.inodes[ino].type # "FREE",
         TightIn(c, ino)
  PROVE  TightIn(g, ino)
<1> DEFINE R == RefMap(Eff(c, ino))
           S == RefMap(Eff(g, ino))
           d == Eff(c, ino)
           e == Eff(g, ino)
<1>1. SUFFICES ASSUME "blocks" \notin g.lost PROVE Tight(e)
  BY DEF TightIn
<1>2. /\ c \in Contexts /\ g \in Contexts /\ Growing(g, ino) /\ g.disk.inodes = c.disk.inodes
      /\ Within(R, S) /\ OwnedIn(S, g.ram.bitmap, 0) /\ c.ram.bitmap = c.disk.bitmap
      /\ g.ram.bitmap = g.disk.bitmap /\ g.inode.type # "FREE"
  BY DEF Grows, Growing, LogOK
<1>3. /\ Tight(d) /\ fb < Table /\ S[<<ino, fb>>] = n
      /\ \A p \in Places : p # <<ino, fb>> /\ p # <<ino, Table>> => S[p] = R[p]
      /\ \A x \in g.ram.bitmap : x \in c.ram.bitmap \cup {n} \/ x = S[<<ino, Table>>]
  BY <1>1 DEF Filled, TightIn
<1>4. /\ e.bitmap = g.ram.bitmap /\ d.bitmap = c.ram.bitmap
      /\ e.inodes[ino] = g.inode /\ d.inodes[ino] = c.inode
      /\ \A i \in Inodes \ {ino} : e.inodes[i] = d.inodes[i]
      /\ R \in [Places -> Block0] /\ S \in [Places -> Block0] /\ R[<<ino, fb>>] = 0
  BY <1>2, <1>3, EffFacts, RefMapFacts
<1>5. RefMap(d) = R /\ RefMap(e) = S
  OBVIOUS
<1> HIDE DEF R, S, d, e
<1>6. fb \in 0 .. Table - 1 /\ fb \in 0 .. Table /\ Table \in 0 .. Table
  BY <1>3, Constants DEF Table
<1>7. \A i \in Inodes, f \in 0 .. Table : <<i, f>> \in Places
  BY DEF Places
<1>8. ASSUME NEW x \in e.bitmap PROVE \E p \in Places : S[p] = x
  <2>1. CASE x \in c.ram.bitmap
    <3>1. PICK p \in Places : R[p] = x
      BY <1>3, <1>4, <1>5, <2>1 DEF Tight
    <3>2. R[p] # 0
      BY <1>2, <2>1, <3>1, Constants DEF Contexts, Ram
    <3>3. QED
      BY <1>2, <3>1, <3>2 DEF Within
  <2>2. CASE x = n
    BY <1>3, <1>6, <1>7, <2>2
  <2>3. CASE x = S[<<ino, Table>>]
    BY <1>6, <1>7, <2>3
  <2>4. QED
    BY <1>3, <1>4, <2>1, <2>2, <2>3
<1>9. ASSUME NEW i \in Inodes, i # ino, NEW f \in 0 .. Table PROVE S[<<i, f>>] = R[<<i, f>>]
  <2>1. <<i, f>> # <<ino, fb>> /\ <<i, f>> # <<ino, Table>>
    BY <1>9
  <2>2. QED
    BY <1>3, <1>7, <2>1
<1>10. ASSUME NEW f \in 0 .. Table - 1, f # fb PROVE S[<<ino, f>>] = R[<<ino, f>>]
  <2>1. f \in 0 .. Table /\ f # Table
    BY Constants DEF Table
  <2>2. <<ino, f>> # <<ino, fb>> /\ <<ino, f>> # <<ino, Table>> /\ <<ino, f>> \in Places
    BY <1>7, <1>10, <2>1
  <2>3. QED
    BY <1>3, <2>2
<1>11. ASSUME NEW i \in Inodes PROVE e.inodes[i].block_count = Cardinality(DataOf(S, i))
  <2>1. CASE i # ino
    <3>1. DataOf(S, i) = DataOf(R, i)
      BY <1>9, <2>1, Constants DEF DataOf, Table
    <3>2. QED
      BY <1>3, <1>4, <1>5, <2>1, <3>1 DEF Tight
  <2>2. CASE i = ino
    <3>1. c.inode.block_count = Cardinality(DataOf(R, ino))
      BY <1>3, <1>4, <1>5 DEF Tight
    <3>2. S[<<ino, fb>>] # 0
      BY <1>3, Constants
    <3>3. \A f \in 0 .. Table - 1 : f # fb => S[<<ino, f>>] = R[<<ino, f>>]
      BY <1>10
    <3>4. Plus(c.inode.block_count, 1) = Cardinality(DataOf(S, ino))
      BY <1>2, <1>4, <1>6, <3>1, <3>2, <3>3, DataIn
    <3>5. QED
      BY <1>4, <2>2, <3>4
  <2>3. QED
    BY <2>1, <2>2
<1>12. ASSUME NEW i \in Inodes, e.inodes[i].type = "FREE", NEW f \in 0 .. Table PROVE S[<<i, f>>] = 0
  <2>1. i # ino
    BY <1>2, <1>4, <1>12
  <2>2. d.inodes[i].type = "FREE"
    BY <1>4, <1>12, <2>1
  <2>3. R[<<i, f>>] = 0
    BY <1>3, <1>5, <2>2 DEF Tight
  <2>4. QED
    BY <1>9, <2>1, <2>3
<1>13. QED
  BY <1>5, <1>8, <1>11, <1>12 DEF Tight

-----------------------------------------------------------------------------
(* dorifs_alloc_block and dorifs_set_block                                  *)

\* dorifs_alloc_block.
GrownByAlloc(c, a, n, ino) ==
  /\ Grows(c, a, ino) /\ a.inode = c.inode
  /\ RefMap(Eff(a, ino)) = RefMap(Eff(c, ino)) /\ RefMap(a.disk) = RefMap(c.disk)
  /\ Unused(RefMap(Eff(a, ino)), n)
  /\ n \in Blocks /\ n \notin c.ram.bitmap /\ a.ram.bitmap = c.ram.bitmap \cup {n}
  /\ a.lost = c.lost

\* The block allocated is nobody's, and the inode may grow by it.
LEMMA GrowAlloc ==
  ASSUME NEW ino \in Inodes, NEW c, Growing(c, ino), NextBlock(c) # 0
  PROVE  GrownByAlloc(c, AllocBlock(c), NextBlock(c), ino)
<1> DEFINE n == NextBlock(c)
           a == AllocBlock(c)
           bm == c.ram.bitmap \cup {n}
<1>0. c \in Contexts /\ c.disk \in Disk /\ c.ram.bitmap \subseteq Blocks
  BY DEF Growing, Contexts, Ram
<1>1. n \in Blocks /\ n \notin c.ram.bitmap
  BY <1>0, NextBlockFree
<1>2. /\ a \in Contexts /\ a.disk = [c.disk EXCEPT !.bitmap = bm] /\ a.ram.bitmap = bm
      /\ a.log = Append(c.log, a.disk) /\ a.inode = c.inode /\ BlocksKept(c, a) /\ a.lost = c.lost
  BY <1>0, AllocBlockFacts, AllocCounts DEF Leaves
<1> HIDE DEF n, a
<1>3. /\ a.disk.inodes = c.disk.inodes /\ a.disk.blocks = c.disk.blocks /\ a.disk.bitmap = bm
      /\ RefMap(a.disk) = RefMap(c.disk) /\ NamesKept(c.disk, a.disk)
  <2>1. bm \in SUBSET Blocks
    BY <1>0, <1>1
  <2>2. Alike(c.disk, a.disk)
    BY <1>0, <1>2, <2>1, BitmapImage
  <2>3. a.disk.blocks = c.disk.blocks /\ a.disk.bitmap = bm
    BY <1>0, <1>2 DEF Disk
  <2>4. QED
    BY <2>2, <2>3 DEF Alike
<1>4. \A f \in 0 .. Table : OwnedBlock(a.disk, a.inode, f) = OwnedBlock(c.disk, c.inode, f)
  BY <1>2, <1>3 DEF OwnedBlock, GetBlock
<1>5. RefMap(Eff(a, ino)) = RefMap(Eff(c, ino))
  BY <1>0, <1>2, <1>3, <1>4, EffSame
<1>6. Unused(RefMap(Eff(a, ino)), n) /\ OwnedIn(RefMap(Eff(a, ino)), a.disk.bitmap, 0)
  <2>1. OwnedIn(RefMap(Eff(a, ino)), c.ram.bitmap, 0)
    BY <1>5 DEF Growing
  <2>2. n # 0
    BY <1>1, Constants
  <2>3. Unused(RefMap(Eff(a, ino)), n)
    BY <1>1, <2>1, <2>2, FreeUnused
  <2>4. OwnedIn(RefMap(Eff(a, ino)), a.disk.bitmap, 0)
    BY <1>3, <2>1, OwnedMore
  <2>5. QED
    BY <2>3, <2>4
<1>7. /\ Within(RefMap(c.disk), RefMap(a.disk)) /\ Within(RefMap(a.disk), RefMap(Eff(a, ino)))
      /\ Within(RefMap(Eff(c, ino)), RefMap(Eff(a, ino)))
  BY <1>3, <1>5 DEF Growing, Within
<1>8. Grows(c, a, ino)
  BY <1>2, <1>3, <1>6, <1>7, GrowsImage
<1>9. QED
  BY <1>1, <1>2, <1>3, <1>5, <1>6, <1>8 DEF n, a, GrownByAlloc

\* b is a data block of the local inode, if it is anybody's.
Held(R, b, ino, fb) == \A p \in Places : R[p] = b => p = <<ino, fb>> /\ fb < Table

\* Then the disk has it nowhere else.
LEMMA HeldAt ==
  ASSUME NEW ino \in Inodes, NEW c, Growing(c, ino), NEW fb \in Nat, NEW b \in Blocks,
         Held(RefMap(Eff(c, ino)), b, ino, fb)
  PROVE  /\ \A i \in Inodes : c.disk.inodes[i].indirect # b
         /\ c.inode.indirect # b
         /\ \A i \in Inodes, k \in Nat :
              GetBlock(c.disk, c.disk.inodes[i], BlockOf(k)) = b => i = ino /\ BlockOf(k) = fb
<1>1. c \in Contexts /\ c.disk \in Disk /\ c.inode \in Inode /\ b # 0
  BY Constants DEF Growing, Contexts
<1>2. \A p \in Places : RefMap(c.disk)[p] = b => p = <<ino, fb>> /\ fb < Table
  BY <1>1 DEF Growing, Within, Held
<1>3. Table \in 0 .. Table /\ (fb # Table \/ ~(fb < Table))
  BY Constants DEF Table
<1>4. ASSUME NEW i \in Inodes PROVE c.disk.inodes[i].indirect # b
  <2>1. Table \in 0 .. Table /\ c.disk.inodes[i] \in Inode
    BY <1>1, Constants DEF Table, Disk
  <2>2. /\ <<i, Table>> \in Places
        /\ RefMap(c.disk)[<<i, Table>>] = OwnedBlock(c.disk, c.disk.inodes[i], Table)
    BY <1>1, <2>1, RefMapFacts
  <2>3. OwnedBlock(c.disk, c.disk.inodes[i], Table) = c.disk.inodes[i].indirect
    BY <1>1, <2>1, OwnedBlockCases
  <2>4. <<i, Table>> = <<ino, fb>> /\ fb < Table => FALSE
    BY Constants DEF Table
  <2>5. QED
    BY <1>2, <2>2, <2>3, <2>4
<1>5. c.inode.indirect # b
  <2>1. Table \in 0 .. Table
    BY Constants DEF Table
  <2>2. /\ <<ino, Table>> \in Places
        /\ RefMap(Eff(c, ino))[<<ino, Table>>] = OwnedBlock(c.disk, c.inode, Table)
    BY <1>1, <2>1, EffFacts DEF Places
  <2>3. OwnedBlock(c.disk, c.inode, Table) = c.inode.indirect
    BY <1>1, <2>1, OwnedBlockCases
  <2>4. <<ino, Table>> = <<ino, fb>> /\ fb < Table => FALSE
    BY Constants DEF Table
  <2>5. QED
    BY <2>2, <2>3, <2>4 DEF Held
<1>6. ASSUME NEW i \in Inodes, NEW k \in Nat, GetBlock(c.disk, c.disk.inodes[i], BlockOf(k)) = b
      PROVE  i = ino /\ BlockOf(k) = fb
  <2>1. BlockOf(k) \in Nat /\ c.disk.inodes[i] \in Inode
    BY <1>1, EntryPlaces DEF Disk
  <2>2. BlockOf(k) < Table
    BY <1>1, <1>6, <2>1, GetBlockPlace
  <2>3. BlockOf(k) \in 0 .. Table /\ OwnedBlock(c.disk, c.disk.inodes[i], BlockOf(k)) = b
    BY <1>1, <1>6, <2>1, <2>2, GetBlockPlace
  <2>4. <<i, BlockOf(k)>> \in Places /\ RefMap(c.disk)[<<i, BlockOf(k)>>] = b
    BY <1>1, <2>3, RefMapFacts
  <2>5. QED
    BY <1>2, <2>4
<1>7. QED
  BY <1>4, <1>5, <1>6

\* The data of a file or directory is written.
LEMMA GrowContent ==
  ASSUME NEW ino \in Inodes, NEW c, Growing(c, ino), NEW b \in Blocks, NEW content \in Content,
         NEW fb \in Nat, Held(RefMap(Eff(c, ino)), b, ino, fb),
         IsDir(c.disk, ino) =>
           \A k \in Nat : k < c.disk.inodes[ino].size
                          /\ GetBlock(c.disk, c.disk.inodes[ino], BlockOf(k)) = b
             => content.entries[SlotOf(k)] = c.disk.blocks[b].entries[SlotOf(k)],
         NEW a, Leaves(c, a, [c.disk EXCEPT !.blocks[b] = content]), a.ram = c.ram
  PROVE  Grows(c, a, ino) /\ RefMap(Eff(a, ino)) = RefMap(Eff(c, ino))
<1>1. c \in Contexts /\ c.disk \in Disk /\ c.inode \in Inode
  BY DEF Growing, Contexts
<1>2. /\ a \in Contexts /\ a.disk = [c.disk EXCEPT !.blocks[b] = content]
      /\ a.log = Append(c.log, a.disk) /\ a.inode = c.inode
  BY DEF Leaves
<1>3. /\ \A i \in Inodes : c.disk.inodes[i].indirect # b
      /\ c.inode.indirect # b
      /\ \A i \in Inodes, k \in Nat :
           GetBlock(c.disk, c.disk.inodes[i], BlockOf(k)) = b => i = ino /\ BlockOf(k) = fb
  BY HeldAt
<1>4. BlockImaged(c.disk, b, content, a.disk)
  BY <1>1, <1>2, <1>3, BlockImage
<1>5. /\ a.disk \in Disk /\ a.disk.inodes = c.disk.inodes /\ a.disk.bitmap = c.disk.bitmap
      /\ c.ram.bitmap = c.disk.bitmap /\ RefMap(a.disk) = RefMap(c.disk)
      /\ \A x \in Blocks \ {b} : a.disk.blocks[x] = c.disk.blocks[x]
  BY <1>4 DEF BlockImaged, Growing, LogOK
<1>6. NamesKept(c.disk, a.disk)
  <2>1. ASSUME NEW i \in Inodes, IsDir(c.disk, i)
        PROVE  /\ Listed(a.disk, i) = Listed(c.disk, i)
               /\ \A k \in Listed(c.disk, i) : Entry(a.disk, i, k) = Entry(c.disk, i, k)
    <3>1. \A k \in Nat : k < c.disk.inodes[i].size /\ GetBlock(c.disk, c.disk.inodes[i], BlockOf(k)) = b
            => content.entries[SlotOf(k)] = c.disk.blocks[b].entries[SlotOf(k)]
      BY <1>3, <2>1
    <3>2. QED
      BY <1>4, <3>1 DEF BlockImaged
  <2>2. QED
    BY <1>5, <2>1 DEF NamesKept, IsDir
<1>7. ASSUME NEW f \in 0 .. Table
      PROVE  OwnedBlock(a.disk, a.inode, f) = OwnedBlock(c.disk, c.inode, f)
  <2>1. CASE ~(f < NDirect) /\ f < Table /\ c.inode.indirect # 0
    <3>1. /\ c.inode.indirect \in Blocks
          /\ OwnedBlock(c.disk, c.inode, f) = c.disk.blocks[c.inode.indirect].ptrs[f - NDirect + 1]
      BY <1>1, <2>1, OwnedBlockCases
    <3>2. OwnedBlock(a.disk, c.inode, f) = a.disk.blocks[c.inode.indirect].ptrs[f - NDirect + 1]
      BY <1>1, <1>5, <2>1, OwnedBlockCases
    <3>3. QED
      BY <1>2, <1>3, <1>5, <3>1, <3>2
  <2>2. CASE f < NDirect \/ f = Table \/ (~(f < NDirect) /\ f < Table /\ c.inode.indirect = 0)
    <3>1. OwnedBlock(a.disk, c.inode, f) = OwnedBlock(c.disk, c.inode, f)
      BY <1>1, <1>5, <2>2, OwnedBlockCases
    <3>2. QED
      BY <1>2, <3>1
  <2>3. QED
    BY <2>1, <2>2, Constants DEF Table
<1>8. RefMap(Eff(a, ino)) = RefMap(Eff(c, ino))
  <2>1. \A f \in 0 .. Table : OwnedBlock(a.disk, a.inode, f) = OwnedBlock(c.disk, c.inode, f)
    BY <1>7
  <2>2. QED
    BY <1>1, <1>2, <1>5, <2>1, EffSame
<1>9. /\ Within(RefMap(c.disk), RefMap(a.disk)) /\ Within(RefMap(a.disk), RefMap(Eff(a, ino)))
      /\ Within(RefMap(Eff(c, ino)), RefMap(Eff(a, ino)))
  BY <1>5, <1>8 DEF Growing, Within
<1>10. OwnedIn(RefMap(Eff(a, ino)), a.disk.bitmap, 0)
  BY <1>5, <1>8 DEF Growing
<1>11. a.ram.bitmap = a.disk.bitmap /\ BlocksKept(c, a)
  BY <1>5, SameRam
<1>12. Grows(c, a, ino)
  BY <1>2, <1>5, <1>6, <1>9, <1>10, <1>11, GrowsImage
<1>13. QED
  BY <1>8, <1>12

\* A block nobody refers to is written.
LEMMA GrowUnused ==
  ASSUME NEW ino \in Inodes, NEW c, Growing(c, ino), NEW b \in Blocks, NEW content \in Content,
         Unused(RefMap(Eff(c, ino)), b),
         NEW a, Leaves(c, a, [c.disk EXCEPT !.blocks[b] = content]), a.ram = c.ram
  PROVE  Grows(c, a, ino) /\ RefMap(Eff(a, ino)) = RefMap(Eff(c, ino))
<1>1. Table \in Nat /\ Held(RefMap(Eff(c, ino)), b, ino, Table)
  BY Constants DEF Held, Unused, Table
<1>2. c.disk \in Disk
  BY DEF Growing, Contexts
<1>3. ASSUME NEW k \in Nat, GetBlock(c.disk, c.disk.inodes[ino], BlockOf(k)) = b PROVE FALSE
  <2>1. BlockOf(k) = Table /\ BlockOf(k) \in Nat /\ c.disk.inodes[ino] \in Inode
    BY <1>1, <1>2, <1>3, HeldAt, EntryPlaces DEF Disk
  <2>2. GetBlock(c.disk, c.disk.inodes[ino], BlockOf(k)) = 0
    BY <1>2, <2>1, GetBlockPlace
  <2>3. QED
    BY <1>3, <2>2, Constants
<1>4. QED
  BY <1>1, <1>3, GrowContent

\* A place of the local inode gets an unused block.
LEMMA GrowPlace ==
  ASSUME NEW ino \in Inodes, NEW c, Growing(c, ino), NEW g \in 0 .. Table, NEW b \in Blocks,
         b \in c.ram.bitmap, Unused(RefMap(Eff(c, ino)), b), RefMap(Eff(c, ino))[<<ino, g>>] = 0
  PROVE  LET R == RefSet(RefMap(Eff(c, ino)), <<ino, g>>, b)
         IN  OwnedIn(R, c.ram.bitmap, 0) /\ Within(RefMap(Eff(c, ino)), R)
<1> DEFINE R == RefMap(Eff(c, ino))
           S == RefSet(R, <<ino, g>>, b)
<1>1. c \in Contexts /\ <<ino, g>> \in Places
  BY DEF Growing, Places
<1>2. R \in [Places -> Block0]
  BY <1>1, EffFacts, RefMapFacts
<1>3. OwnedIn(R, c.ram.bitmap, 0)
  BY DEF Growing
<1> HIDE DEF R
<1>4. OwnedIn(S, c.ram.bitmap, 0)
  BY <1>1, <1>2, <1>3, OwnedSet DEF R
<1>5. Within(R, S)
  BY <1>1, <1>2 DEF Within, R, RefSet
<1>6. QED
  BY <1>4, <1>5 DEF R

\* a is c with one direct pointer of the local inode set.
DirectSet(c, a, ino, fb, b) ==
  /\ a \in Contexts /\ a.disk = c.disk /\ a.log = c.log /\ a.ram = c.ram
  /\ a.inode.type = c.inode.type /\ a.inode.size = c.inode.size
  /\ a.inode.indirect = c.inode.indirect
  /\ RefMap(Eff(a, ino)) = RefSet(RefMap(Eff(c, ino)), <<ino, fb>>, b)

\* A pointer in the local inode is a place of its own.
LEMMA SetDirect ==
  ASSUME NEW ino \in Inodes, NEW c \in Contexts, NEW fb \in Nat, fb < NDirect, NEW b \in Block0
  PROVE  DirectSet(c, [c EXCEPT !.inode.direct[fb + 1] = b], ino, fb, b)
<1> DEFINE n == [c.inode EXCEPT !.direct[fb + 1] = b]
           a == [c EXCEPT !.inode = n]
<1>1. c \in Contexts /\ c.disk \in Disk /\ c.inode \in Inode /\ c.inode.direct \in [1 .. NDirect -> Block0]
  BY DEF Contexts, Inode
<1>2. fb + 1 \in 1 .. NDirect /\ fb \in 0 .. Table /\ fb # Table
  BY Constants DEF Table
<1>3. /\ n \in Inode /\ n.type = c.inode.type /\ n.size = c.inode.size /\ n.indirect = c.inode.indirect
      /\ n.direct[fb + 1] = b /\ \A m \in 1 .. NDirect : m # fb + 1 => n.direct[m] = c.inode.direct[m]
  BY <1>1, <1>2, Constants DEF Inode
<1>4. [c EXCEPT !.inode.direct[fb + 1] = b] = a
  OBVIOUS
<1> HIDE DEF n
<1>5. /\ a \in Contexts /\ a.inode = n /\ a.disk = c.disk /\ a.log = c.log /\ a.ram = c.ram
  BY <1>1, <1>3 DEF Contexts
<1> HIDE DEF a
<1>6. ASSUME NEW f \in 0 .. Table
      PROVE  OwnedBlock(a.disk, a.inode, f) = IF f = fb THEN b ELSE OwnedBlock(c.disk, c.inode, f)
  <2>1. CASE f < NDirect
    <3>1. OwnedBlock(c.disk, c.inode, f) = c.inode.direct[f + 1]
      BY <1>1, <2>1, OwnedBlockCases
    <3>2. OwnedBlock(c.disk, n, f) = n.direct[f + 1]
      BY <1>1, <1>3, <2>1, OwnedBlockCases
    <3>3. f + 1 \in 1 .. NDirect /\ (f = fb <=> f + 1 = fb + 1)
      BY <2>1, Constants
    <3>4. QED
      BY <1>3, <1>5, <3>1, <3>2, <3>3
  <2>2. CASE ~(f < NDirect)
    <3>1. f # fb
      BY <2>2
    <3>2. OwnedBlock(c.disk, n, f) = OwnedBlock(c.disk, c.inode, f)
      BY <1>3, <2>2 DEF OwnedBlock, GetBlock
    <3>3. QED
      BY <1>5, <3>1, <3>2
  <2>3. QED
    BY <2>1, <2>2
<1>7. RefMap(Eff(a, ino)) = RefSet(RefMap(Eff(c, ino)), <<ino, fb>>, b)
  BY <1>2, <1>5, <1>6, EffSet
<1>8. QED
  BY <1>3, <1>4, <1>5, <1>7 DEF DirectSet

\* A pointer in the inode itself.
LEMMA GrowDirect ==
  ASSUME NEW ino \in Inodes, NEW c, Growing(c, ino), NEW fb \in Nat, fb < NDirect,
         NEW b \in Blocks, b \in c.ram.bitmap, Unused(RefMap(Eff(c, ino)), b),
         RefMap(Eff(c, ino))[<<ino, fb>>] = 0,
         NEW a, a = [c EXCEPT !.inode.direct[fb + 1] = b]
  PROVE  /\ Grows(c, a, ino)
         /\ RefMap(Eff(a, ino)) = RefSet(RefMap(Eff(c, ino)), <<ino, fb>>, b)
<1>1. c \in Contexts /\ fb \in 0 .. Table /\ b \in Block0
  BY Constants DEF Growing, Table
<1>2. DirectSet(c, a, ino, fb, b)
  BY <1>1, SetDirect
<1>3. RefMap(Eff(a, ino)) = RefSet(RefMap(Eff(c, ino)), <<ino, fb>>, b)
  BY <1>2 DEF DirectSet
<1>4. Within(RefMap(Eff(c, ino)), RefMap(Eff(a, ino))) /\ OwnedIn(RefMap(Eff(a, ino)), c.ram.bitmap, 0)
  BY <1>1, <1>3, GrowPlace
<1>5. Grows(c, a, ino)
  BY <1>2, <1>4, GrowsLocally DEF DirectSet
<1>6. QED
  BY <1>3, <1>5

\* What stands in the indirect block of ino on the disk comes after the entries
\* of a directory.
Room(c, ino, fb) ==
  ~(fb < NDirect) /\ fb < Table /\ IsDir(c.disk, ino) /\ c.disk.inodes[ino].indirect # 0 =>
    \A k \in Nat : k < c.disk.inodes[ino].size => BlockOf(k) < fb

\* A pointer in the indirect block, which the inode on the disk may not know yet.
LEMMA GrowPointer ==
  ASSUME NEW ino \in Inodes, NEW c, Growing(c, ino), NEW f \in 0 .. Table, ~(f < NDirect), f < Table,
         NEW b \in Blocks, b \in c.ram.bitmap, Unused(RefMap(Eff(c, ino)), b),
         RefMap(Eff(c, ino))[<<ino, f>>] = 0, Room(c, ino, f),
         NEW x, x = c.inode.indirect, x # 0,
         NEW a, a.ram = c.ram,
         Leaves(c, a, [c.disk EXCEPT !.blocks[x] = [c.disk.blocks[x] EXCEPT !.ptrs[f - NDirect + 1] = b]])
  PROVE  /\ Grows(c, a, ino)
         /\ RefMap(Eff(a, ino)) = RefSet(RefMap(Eff(c, ino)), <<ino, f>>, b)
<1> DEFINE m == f - NDirect + 1
           content == [c.disk.blocks[x] EXCEPT !.ptrs[m] = b]
           e == Eff(c, ino)
<1>1. /\ c \in Contexts /\ c.disk \in Disk /\ c.inode \in Inode /\ x \in Blocks /\ b \in Block0
      /\ m \in 1 .. NIndirect /\ <<ino, f>> \in Places
  <2>1. c \in Contexts /\ c.disk \in Disk /\ c.inode \in Inode
    BY DEF Growing, Contexts
  <2>2. x \in Blocks /\ m \in 1 .. NIndirect
    BY <2>1, OwnedBlockCases
  <2>3. QED
    BY <2>1, <2>2, Constants DEF Places
<1>2. /\ a \in Contexts /\ a.disk = [c.disk EXCEPT !.blocks[x] = content]
      /\ a.log = Append(c.log, a.disk) /\ a.inode = c.inode
  BY DEF Leaves
<1>3. /\ e \in Disk /\ e.blocks = c.disk.blocks /\ e.inodes[ino] = c.inode
      /\ OwnedIn(RefMap(e), c.ram.bitmap, 0) /\ c.ram.bitmap = c.disk.bitmap
  BY <1>1, EffFacts DEF Growing, LogOK
<1>4. content \in Content
  <2>1. c.disk.blocks[x] \in Content
    BY <1>1 DEF Disk
  <2> HIDE DEF m
  <2>2. QED
    BY <1>1, <2>1 DEF Content
<1>5. Eff(a, ino) = [e EXCEPT !.blocks[x] = [e.blocks[x] EXCEPT !.ptrs[m] = b]]
  <2>1. e.blocks[x] = c.disk.blocks[x]
    BY <1>3
  <2>2. Eff(a, ino) = [e EXCEPT !.blocks[x] = content]
    <3> HIDE DEF content
    <3>1. QED
      BY <1>1, <1>2 DEF Eff, Disk
  <2> HIDE DEF e
  <2>3. QED
    BY <2>1, <2>2
<1> HIDE DEF e
<1>6. RefMap(Eff(a, ino)) = RefSet(RefMap(e), <<ino, f>>, b)
  <2>1. PointerImaged(e, ino, f, b, Eff(a, ino))
    BY <1>1, <1>3, <1>5, PointerImage
  <2>2. QED
    BY <2>1 DEF PointerImaged
<1>7. /\ Within(RefMap(e), RefMap(Eff(a, ino))) /\ OwnedIn(RefMap(Eff(a, ino)), c.ram.bitmap, 0)
  BY <1>6, GrowPlace DEF e
<1>8. /\ RefMap(e) \in [Places -> Block0] /\ RefMap(c.disk) \in [Places -> Block0]
      /\ Within(RefMap(c.disk), RefMap(e)) /\ RefMap(c.disk)[<<ino, f>>] = 0
  BY <1>1, <1>3, RefMapFacts DEF Growing, Within, e
<1>9. a.disk.bitmap = c.disk.bitmap
  <2> HIDE DEF content
  <2>1. QED
    BY <1>1, <1>2 DEF Disk
<1>10. /\ a.disk.inodes = c.disk.inodes /\ NamesKept(c.disk, a.disk)
       /\ Within(RefMap(c.disk), RefMap(a.disk)) /\ Within(RefMap(a.disk), RefMap(Eff(a, ino)))
  <2>1. CASE c.disk.inodes[ino].indirect = x
    <3>1. OwnedIn(RefMap(c.disk), c.disk.bitmap, 0)
      BY DEF Growing, Sound
    <3>2. PointerImaged(c.disk, ino, f, b, a.disk)
      <4> HIDE DEF m
      <4>1. a.disk = [c.disk EXCEPT !.blocks[x] = [c.disk.blocks[x] EXCEPT !.ptrs[m] = b]]
        BY <1>2
      <4> USE DEF m
      <4>2. QED
        BY <1>1, <2>1, <3>1, <4>1, PointerImage
    <3>3. RefMap(a.disk) = RefSet(RefMap(c.disk), <<ino, f>>, b) /\ a.disk.inodes = c.disk.inodes
      BY <3>2 DEF PointerImaged
    <3>4. NamesKept(c.disk, a.disk)
      BY <2>1, <3>2 DEF PointerImaged, Room
    <3>5. /\ Within(RefMap(c.disk), RefMap(a.disk))
      BY <1>1, <1>8, <3>3 DEF Within, RefSet
    <3>6. Within(RefMap(a.disk), RefMap(Eff(a, ino)))
      BY <1>1, <1>6, <1>8, <3>3 DEF Within, RefSet
    <3>7. QED
      BY <3>3, <3>4, <3>5, <3>6
  <2>2. CASE c.disk.inodes[ino].indirect # x
    <3>1. Table \in 0 .. Table /\ <<ino, Table>> \in Places /\ c.disk.inodes[ino] \in Inode
      BY <1>1, Constants DEF Table, Places, Disk
    <3>2. RefMap(e)[<<ino, Table>>] = x /\ RefMap(c.disk)[<<ino, Table>>] # x
      <4>1. RefMap(e)[<<ino, Table>>] = OwnedBlock(c.disk, c.inode, Table)
        BY <1>1, <3>1, EffFacts DEF e
      <4>2. RefMap(c.disk)[<<ino, Table>>] = OwnedBlock(c.disk, c.disk.inodes[ino], Table)
        BY <1>1, <3>1, RefMapFacts
      <4>3. QED
        BY <1>1, <2>2, <3>1, <4>1, <4>2, OwnedBlockCases
    <3>3. Unused(RefMap(c.disk), x)
      BY <1>3, <1>8, <3>1, <3>2 DEF Unused, OwnedIn, Within
    <3>4. Alike(c.disk, a.disk)
      <4> HIDE DEF content
      <4>1. QED
        BY <1>1, <1>2, <1>4, <3>3, UnusedImage
    <3>5. Within(RefMap(c.disk), RefMap(a.disk)) /\ Within(RefMap(a.disk), RefMap(Eff(a, ino)))
      BY <1>7, <1>8, <3>4 DEF Alike, Within
    <3>6. QED
      BY <3>4, <3>5 DEF Alike
  <2>3. QED
    BY <2>1, <2>2
<1>11. Grows(c, a, ino)
  <2>1. a.ram.bitmap = a.disk.bitmap /\ OwnedIn(RefMap(Eff(a, ino)), a.disk.bitmap, 0)
    BY <1>3, <1>7, <1>9
  <2>2. Within(RefMap(Eff(c, ino)), RefMap(Eff(a, ino)))
    BY <1>7 DEF e
  <2>3. BlocksKept(c, a)
    BY SameRam
  <2> HIDE DEF content
  <2>4. QED
    BY <1>2, <1>10, <2>1, <2>2, <2>3, GrowsImage
<1>12. QED
  BY <1>6, <1>11 DEF e

\* w is c with perhaps an indirect block, and nothing lost.
Tabled(c, w, ino) ==
  /\ w.lost = c.lost /\ w.inode.block_count = c.inode.block_count
  /\ \A p \in Places : p # <<ino, Table>> => RefMap(Eff(w, ino))[p] = RefMap(Eff(c, ino))[p]
  /\ \A x \in w.ram.bitmap : x \in c.ram.bitmap \/ x = RefMap(Eff(w, ino))[<<ino, Table>>]

\* A new indirect block, zeroed before the inode knows it.
GrownTable(c, w, ino) ==
  /\ Grows(c, w, ino)
  /\ Tabled(c, w, ino)
  /\ \A b \in c.ram.bitmap : Unused(RefMap(Eff(c, ino)), b) => Unused(RefMap(Eff(w, ino)), b)

\* The indirect block of a file or directory that grows beyond its direct ones.
LEMMA GrowTable ==
  ASSUME NEW ino \in Inodes, NEW c, Growing(c, ino)
  PROVE  GrownTable(c, WithIndirect(c), ino)
<1> DEFINE n == NextBlock(c)
           a == AllocBlock(c)
           w == WithIndirect(c)
           R == RefMap(Eff(c, ino))
<1>1. c \in Contexts /\ c.disk \in Disk /\ c.inode \in Inode
  BY DEF Growing, Contexts
<1>2. CASE c.inode.indirect # 0 \/ n = 0
  <2>1. w = c
    BY <1>1, <1>2, WithIndirectFacts
  <2>2. Within(RefMap(Eff(c, ino)), RefMap(Eff(c, ino))) /\ OwnedIn(RefMap(Eff(c, ino)), c.ram.bitmap, 0)
    BY DEF Within, Growing
  <2>3. Grows(c, c, ino)
    BY <1>1, <2>2, GrowsLocally
  <2>4. QED
    BY <2>1, <2>3 DEF GrownTable, Tabled
<1>3. CASE c.inode.indirect = 0 /\ n # 0
  <2>1. GrownByAlloc(c, a, n, ino)
    BY <1>3, GrowAlloc
  <2> DEFINE z == WriteBlock(a, n, ZeroBlock)
  <2>2. /\ Grows(c, a, ino) /\ Growing(a, ino) /\ a.inode = c.inode /\ RefMap(Eff(a, ino)) = R
        /\ Unused(RefMap(Eff(a, ino)), n) /\ n \in Blocks /\ n \notin c.ram.bitmap
        /\ a.ram.bitmap = c.ram.bitmap \cup {n}
    BY <2>1 DEF GrownByAlloc, Grows
  <2>3. a \in Contexts
    BY <2>2 DEF Growing
  <2>4. /\ w \in Contexts /\ w.disk = [a.disk EXCEPT !.blocks[n] = ZeroBlock]
        /\ w.log = Append(a.log, w.disk) /\ w.inode = [c.inode EXCEPT !.indirect = n]
        /\ w.ram = a.ram /\ w.lost = c.lost
    BY <1>1, <1>3, WithIndirectFacts
  <2> HIDE DEF n, a, w
  <2>5. Leaves(a, z, [a.disk EXCEPT !.blocks[n] = ZeroBlock]) /\ z.ram = a.ram
    BY <2>2, <2>3, WritesLeave, ZeroTypes
  <2>6. /\ z \in Contexts /\ z.disk = w.disk /\ z.log = w.log /\ z.inode = c.inode /\ z.ram = w.ram
    BY <2>2, <2>4, <2>5 DEF Leaves
  <2> HIDE DEF z
  <2>7. Grows(a, z, ino) /\ RefMap(Eff(z, ino)) = R
    BY <2>2, <2>5, GrowUnused, ZeroTypes
  <2>8. /\ w.inode.type = c.inode.type /\ w.inode.size = c.inode.size /\ w.inode.indirect = n
        /\ w.inode.block_count = c.inode.block_count
        /\ w.inode.direct = c.inode.direct /\ w.inode \in Inode /\ w.disk \in Disk
    BY <1>1, <2>4 DEF Inode, Contexts
  <2>9. Table \in 0 .. Table /\ ~(Table < NDirect)
    BY Constants DEF Table
  <2>10. ASSUME NEW f \in 0 .. Table
         PROVE  OwnedBlock(w.disk, w.inode, f) = IF f = Table THEN n ELSE OwnedBlock(z.disk, z.inode, f)
    <3>1. CASE f = Table
      BY <2>8, <3>1, OwnedBlockCases
    <3>2. CASE f < NDirect
      <4>1. f # Table
        BY <2>9, <3>2
      <4>2. OwnedBlock(w.disk, w.inode, f) = w.inode.direct[f + 1]
        BY <2>8, <3>2, OwnedBlockCases
      <4>3. OwnedBlock(w.disk, c.inode, f) = c.inode.direct[f + 1]
        BY <1>1, <2>8, <3>2, OwnedBlockCases
      <4>4. QED
        BY <2>6, <2>8, <4>1, <4>2, <4>3
    <3>3. CASE ~(f < NDirect) /\ f # Table
      <4>1. f < Table /\ f - NDirect + 1 \in 1 .. NIndirect
        BY <3>3, Constants DEF Table
      <4>2. OwnedBlock(w.disk, c.inode, f) = 0
        BY <1>1, <1>3, <2>8, <3>3, <4>1, OwnedBlockCases
      <4>3. OwnedBlock(w.disk, w.inode, f) = w.disk.blocks[n].ptrs[f - NDirect + 1]
        <5>1. n # 0
          BY <1>3
        <5>2. QED
          BY <2>8, <3>3, <4>1, <5>1, OwnedBlockCases
      <4>4. w.disk.blocks[n] = ZeroBlock
        BY <2>2, <2>3, <2>4 DEF Contexts, Disk
      <4>5. w.disk.blocks[n].ptrs[f - NDirect + 1] = 0
        <5> DEFINE m == f - NDirect + 1
        <5>1. m \in 1 .. NIndirect
          BY <4>1
        <5> HIDE DEF m
        <5>2. w.disk.blocks[n].ptrs[m] = 0
          BY <4>4, <5>1 DEF ZeroBlock
        <5>3. QED
          BY <5>2 DEF m
      <4>6. QED
        BY <2>6, <3>3, <4>2, <4>3, <4>5
    <3>4. QED
      BY <3>1, <3>2, <3>3
  <2>11. RefMap(Eff(w, ino)) = RefSet(RefMap(Eff(z, ino)), <<ino, Table>>, n)
    <3>1. RefMap(w.disk) = RefMap(z.disk)
      BY <2>6
    <3>2. \A f \in 0 .. Table :
            OwnedBlock(w.disk, w.inode, f) = IF f = Table THEN n ELSE OwnedBlock(z.disk, z.inode, f)
      BY <2>10
    <3>3. w \in Contexts /\ z \in Contexts
      BY <2>4, <2>6
    <3>4. QED
      BY <2>9, <3>1, <3>2, <3>3, EffSet
  <2>12. RefMap(Eff(z, ino))[<<ino, Table>>] = 0
    <3>1. RefMap(Eff(z, ino))[<<ino, Table>>] = OwnedBlock(z.disk, z.inode, Table)
      BY <2>6, <2>9, EffFacts
    <3>2. OwnedBlock(z.disk, z.inode, Table) = c.inode.indirect
      BY <1>1, <2>6, <2>8, <2>9, OwnedBlockCases
    <3>3. QED
      BY <1>3, <3>1, <3>2
  <2>13. n \in z.ram.bitmap /\ Unused(RefMap(Eff(z, ino)), n) /\ Growing(z, ino)
    BY <2>2, <2>4, <2>6, <2>7 DEF Grows
  <2>14. Within(RefMap(Eff(z, ino)), RefMap(Eff(w, ino))) /\ OwnedIn(RefMap(Eff(w, ino)), z.ram.bitmap, 0)
    BY <2>2, <2>9, <2>11, <2>12, <2>13, GrowPlace
  <2>15. Grows(z, w, ino)
    <3>1. w.inode.type = z.inode.type /\ w.inode.size = z.inode.size
      BY <2>6, <2>8
    <3>2. QED
      BY <2>4, <2>6, <2>13, <2>14, <3>1, GrowsLocally
  <2>16. Grows(c, w, ino)
    BY <2>2, <2>7, <2>15, GrowsTrans
  <2>17. R \in [Places -> Block0] /\ \A f \in 0 .. Table : <<ino, f>> \in Places
    BY <1>1, EffFacts, RefMapFacts DEF Places
  <2> HIDE DEF R
  <2>18. \A p \in Places : RefMap(Eff(w, ino))[p] = IF p = <<ino, Table>> THEN n ELSE R[p]
    BY <2>7, <2>11, <2>17 DEF RefSet
  <2>19. Tabled(c, w, ino)
    <3>1. \A p \in Places : p # <<ino, Table>> => RefMap(Eff(w, ino))[p] = R[p]
      BY <2>18
    <3>2. RefMap(Eff(w, ino))[<<ino, Table>>] = n
      BY <2>9, <2>17, <2>18
    <3>3. QED
      BY <2>2, <2>4, <2>8, <3>1, <3>2 DEF R, Tabled
  <2>20. \A b \in c.ram.bitmap : Unused(R, b) => Unused(RefMap(Eff(w, ino)), b)
    BY <2>2, <2>18 DEF Unused
  <2>21. QED
    BY <2>16, <2>19, <2>20 DEF R, w, GrownTable
<1>4. QED
  BY <1>2, <1>3

\* dorifs_set_block: b becomes file block fb of the local inode, if it can.
Grown(c, g, ino, fb, b) ==
  /\ Grows(c, g, ino)
  /\ \A p \in Places : RefMap(Eff(g, ino))[p] = b => p = <<ino, fb>> /\ fb < Table
  /\ \A f \in 0 .. Table : f # fb /\ f # Table =>
       RefMap(Eff(g, ino))[<<ino, f>>] = RefMap(Eff(c, ino))[<<ino, f>>]
  /\ fb < Table /\ (fb < NDirect \/ g.inode.indirect # 0) => RefMap(Eff(g, ino))[<<ino, fb>>] = b
  /\ Filled(c, g, ino, fb, b)

\* A pointer set to a new block is growth ...
LEMMA GrownBySet ==
  ASSUME NEW ino \in Inodes, NEW c, NEW w, Grows(c, w, ino), NEW fb \in Nat, fb < Table, NEW b \in Blocks,
         Unused(RefMap(Eff(w, ino)), b), Tabled(c, w, ino),
         NEW g, Grows(w, g, ino), g.ram = w.ram, g.lost = w.lost, RefMap(Eff(g, ino)) = RefSet(RefMap(Eff(w, ino)), <<ino, fb>>, b)
  PROVE  Grown(c, g, ino, fb, b)
<1> DEFINE R == RefMap(Eff(w, ino))
           S == RefMap(Eff(g, ino))
<1>1. R \in [Places -> Block0] /\ \A f \in 0 .. Table : <<ino, f>> \in Places
  BY EffFacts, RefMapFacts DEF Grows, Growing, Places
<1> HIDE DEF R, S
<1>2. fb \in 0 .. Table
  BY Constants DEF Table
<1>3. \A p \in Places : S[p] = IF p = <<ino, fb>> THEN b ELSE R[p]
  BY <1>1 DEF RefSet, R, S
<1>4. \A p \in Places : S[p] = b => p = <<ino, fb>>
  BY <1>3 DEF Unused, R
<1>5. S[<<ino, fb>>] = b
  BY <1>1, <1>2, <1>3
<1> DEFINE Q == RefMap(Eff(c, ino))
<1>6. \A p \in Places : p # <<ino, Table>> => R[p] = Q[p]
  BY DEF Tabled, R
<1> HIDE DEF Q
<1>7. \A f \in 0 .. Table : f # fb /\ f # Table => S[<<ino, f>>] = Q[<<ino, f>>]
  BY <1>1, <1>3, <1>6
<1>8. Grows(c, g, ino)
  BY GrowsTrans
<1>9. Filled(c, g, ino, fb, b)
  <2>1. \A p \in Places : p # <<ino, fb>> /\ p # <<ino, Table>> => S[p] = Q[p]
    BY <1>3, <1>6
  <2>2. S[<<ino, Table>>] = R[<<ino, Table>>]
    BY <1>1, <1>3, Constants DEF Table
  <2>3. c.lost \subseteq g.lost /\ \A x \in g.ram.bitmap : x \in c.ram.bitmap \/ x = S[<<ino, Table>>]
    BY <2>2 DEF Tabled, R
  <2>4. QED
    BY <1>5, <2>1, <2>3 DEF Filled, S, Q
<1>10. QED
  BY <1>4, <1>5, <1>7, <1>8, <1>9 DEF Grown, S, Q

\* ... and so is the failure to set one: the block is lost, and nothing else.
LEMMA GrownByNothing ==
  ASSUME NEW ino \in Inodes, NEW c, NEW w, Grows(c, w, ino), NEW fb \in Nat, NEW b \in Blocks,
         Unused(RefMap(Eff(w, ino)), b), Tabled(c, w, ino),
         NEW g \in Contexts, g.lost = w.lost \cup {"blocks"}, g.disk = w.disk, g.log = w.log, g.ram = w.ram, g.inode = w.inode,
         fb < Table => ~(fb < NDirect) /\ w.inode.indirect = 0
  PROVE  Grown(c, g, ino, fb, b)
<1>1. w \in Contexts /\ Growing(w, ino) /\ OwnedIn(RefMap(Eff(w, ino)), w.ram.bitmap, 0)
  BY DEF Grows, Growing
<1>2. RefMap(Eff(g, ino)) = RefMap(Eff(w, ino))
  BY <1>1, EffSamePointers
<1>3. Grows(w, g, ino)
  <2>1. Within(RefMap(Eff(w, ino)), RefMap(Eff(g, ino))) /\ OwnedIn(RefMap(Eff(g, ino)), w.ram.bitmap, 0)
    BY <1>1, <1>2 DEF Within
  <2>2. QED
    BY <1>1, <2>1, GrowsLocally
<1>4. Grows(c, g, ino)
  BY <1>3, GrowsTrans
<1>5. \A f \in 0 .. Table : f # fb /\ f # Table =>
        RefMap(Eff(w, ino))[<<ino, f>>] = RefMap(Eff(c, ino))[<<ino, f>>]
  BY DEF Tabled, Places
<1>6. Filled(c, g, ino, fb, b)
  BY DEF Tabled, Filled
<1>7. QED
  BY <1>2, <1>4, <1>5, <1>6 DEF Grown, Unused

\* In every case of dorifs_set_block the inode has grown.
LEMMA SetBlockGrows ==
  ASSUME NEW ino \in Inodes, NEW c, Growing(c, ino), NEW fb \in Nat,
         NEW b \in Blocks, b \in c.ram.bitmap, Unused(RefMap(Eff(c, ino)), b),
         fb < Table => RefMap(Eff(c, ino))[<<ino, fb>>] = 0,
         Room(c, ino, fb)
  PROVE  /\ Grown(c, SetBlock(c, fb, b), ino, fb, b)
         /\ SetBlock(c, fb, b).inode.block_count = c.inode.block_count
<1> DEFINE s == SetBlock(c, fb, b)
           w == WithIndirect(c)
           x == w.inode.indirect
           R == RefMap(Eff(c, ino))
<1>1. c \in Contexts /\ b \in Block0
  BY Constants DEF Growing
<1>2. Grows(c, c, ino)
  <2>1. Within(R, R) /\ OwnedIn(R, c.ram.bitmap, 0)
    BY DEF Within, Growing
  <2>2. QED
    BY <1>1, <2>1, GrowsLocally
<1>3. /\ s \in Contexts /\ w \in Contexts
      /\ fb < NDirect => s = [c EXCEPT !.inode.direct[fb + 1] = b]
      /\ ~(fb < NDirect) /\ fb - NDirect >= NIndirect =>
           s = [c EXCEPT !.lost = @ \cup {"blocks"}]
      /\ ~(fb < NDirect) /\ ~(fb - NDirect >= NIndirect) /\ x = 0 =>
           s = [w EXCEPT !.lost = @ \cup {"blocks"}]
      /\ ~(fb < NDirect) /\ ~(fb - NDirect >= NIndirect) /\ x # 0 =>
           /\ x \in Blocks
           /\ Leaves(w, s, [w.disk EXCEPT !.blocks[x] =
                              [w.disk.blocks[x] EXCEPT !.ptrs[fb - NDirect + 1] = b]])
           /\ s.ram = w.ram
  BY <1>1, SetBlockFacts
<1>4. GrownTable(c, w, ino) /\ Tabled(c, c, ino)
  BY GrowTable DEF Tabled
<1> HIDE DEF s, w
<1>5. CASE fb < NDirect
  <2>1. fb < Table
    BY <1>5, Constants DEF Table
  <2>2. Grows(c, s, ino) /\ RefMap(Eff(s, ino)) = RefSet(R, <<ino, fb>>, b)
    BY <1>3, <1>5, <2>1, GrowDirect
  <2>3. s.ram = c.ram /\ s.lost = c.lost /\ s.inode.block_count = c.inode.block_count
    BY <1>1, <1>3, <1>5 DEF Contexts, Inode
  <2>4. Grown(c, s, ino, fb, b)
    BY <1>2, <1>4, <2>1, <2>2, <2>3, GrownBySet
  <2>5. QED
    BY <2>3, <2>4 DEF s
<1>6. CASE ~(fb < NDirect) /\ fb - NDirect >= NIndirect
  <2>1. ~(fb < Table)
    BY <1>6, Constants DEF Table
  <2>2. /\ s.disk = c.disk /\ s.log = c.log /\ s.ram = c.ram /\ s.inode = c.inode
        /\ s.lost = c.lost \cup {"blocks"}
    BY <1>1, <1>3, <1>6 DEF Contexts
  <2>3. Grown(c, s, ino, fb, b)
    BY <1>2, <1>3, <1>4, <2>1, <2>2, GrownByNothing
  <2>4. QED
    BY <2>2, <2>3 DEF s
<1>7. CASE ~(fb < NDirect) /\ ~(fb - NDirect >= NIndirect)
  <2>1. fb < Table /\ fb \in 0 .. Table /\ fb # Table
    BY <1>7, Constants DEF Table
  <2>2. /\ Grows(c, w, ino) /\ Growing(w, ino) /\ Unused(RefMap(Eff(w, ino)), b)
        /\ Tabled(c, w, ino) /\ w.inode.block_count = c.inode.block_count
        /\ b \in w.ram.bitmap /\ Room(w, ino, fb)
    BY <1>4 DEF GrownTable, Grows, Room, IsDir, Tabled
  <2>3. CASE x = 0
    <3>1. /\ s.disk = w.disk /\ s.log = w.log /\ s.ram = w.ram /\ s.inode = w.inode
          /\ s.lost = w.lost \cup {"blocks"}
      BY <1>3, <1>7, <2>3 DEF Contexts
    <3>2. Grown(c, s, ino, fb, b)
      BY <1>3, <1>7, <2>2, <2>3, <3>1, GrownByNothing
    <3>3. QED
      BY <2>2, <3>1, <3>2 DEF s
  <2>4. CASE x # 0
    <3>1. /\ Leaves(w, s, [w.disk EXCEPT !.blocks[x] =
                              [w.disk.blocks[x] EXCEPT !.ptrs[fb - NDirect + 1] = b]])
          /\ s.ram = w.ram
      BY <1>3, <1>7, <2>4
    <3>2. RefMap(Eff(w, ino))[<<ino, fb>>] = 0
      BY <2>1, <2>2 DEF Tabled, Places
    <3>3. Grows(w, s, ino) /\ RefMap(Eff(s, ino)) = RefSet(RefMap(Eff(w, ino)), <<ino, fb>>, b)
      BY <1>7, <2>1, <2>2, <2>4, <3>1, <3>2, GrowPointer
    <3>4. s.lost = w.lost /\ s.inode = w.inode
      BY <3>1 DEF Leaves
    <3>5. Grown(c, s, ino, fb, b)
      BY <2>1, <2>2, <3>1, <3>3, <3>4, GrownBySet
    <3>6. QED
      BY <2>2, <3>4, <3>5 DEF s
  <2>5. QED
    BY <2>3, <2>4
<1>8. QED
  BY <1>5, <1>6, <1>7

\* ... and the count of its blocks.
LEMMA GrowGrows ==
  ASSUME NEW ino \in Inodes, NEW c, Growing(c, ino), NEW fb \in Nat,
         NEW b \in Blocks, b \in c.ram.bitmap, Unused(RefMap(Eff(c, ino)), b),
         fb < Table => RefMap(Eff(c, ino))[<<ino, fb>>] = 0,
         Room(c, ino, fb)
  PROVE  /\ Grown(c, Grow(c, fb, b), ino, fb, b)
         /\ Grow(c, fb, b).inode.block_count = Plus(c.inode.block_count, 1)
<1> DEFINE s == SetBlock(c, fb, b)
           g == Grow(c, fb, b)
<1>1. Grown(c, s, ino, fb, b) /\ s.inode.block_count = c.inode.block_count
  BY SetBlockGrows
<1>2. c \in Contexts /\ b \in Block0
  BY Constants DEF Growing
<1>3. /\ g \in Contexts /\ s \in Contexts
      /\ g.disk = s.disk /\ g.ram = s.ram /\ g.log = s.log /\ g.lost = s.lost
      /\ g.inode = [s.inode EXCEPT !.block_count = Plus(s.inode.block_count, 1)]
  BY <1>2, GrowFacts
<1> HIDE DEF s, g
<1>4. /\ g.inode.direct = s.inode.direct /\ g.inode.indirect = s.inode.indirect
      /\ g.inode.type = s.inode.type /\ g.inode.size = s.inode.size
      /\ g.inode.block_count = Plus(c.inode.block_count, 1)
  BY <1>1, <1>3 DEF Contexts, Inode
<1>5. RefMap(Eff(g, ino)) = RefMap(Eff(s, ino))
  BY <1>3, <1>4, EffSamePointers
<1>6. Growing(s, ino) /\ OwnedIn(RefMap(Eff(s, ino)), s.ram.bitmap, 0)
  BY <1>1 DEF Grown, Grows, Growing
<1>7. Grows(s, g, ino)
  <2>1. Within(RefMap(Eff(s, ino)), RefMap(Eff(g, ino))) /\ OwnedIn(RefMap(Eff(g, ino)), s.ram.bitmap, 0)
    BY <1>5, <1>6 DEF Within
  <2>2. QED
    BY <1>3, <1>4, <1>6, <2>1, GrowsLocally
<1>8. Grows(c, g, ino)
  BY <1>1, <1>7, GrowsTrans DEF Grown
<1>9. Filled(c, g, ino, fb, b)
  BY <1>1, <1>3, <1>5 DEF Grown, Filled
<1>10. QED
  BY <1>1, <1>4, <1>5, <1>8, <1>9 DEF Grown, g

-----------------------------------------------------------------------------
(* dorifs_vfs_write                                                         *)

\* A growing context has come to itself.
LEMMA GrowsSelf ==
  ASSUME NEW ino \in Inodes, NEW c, Growing(c, ino)
  PROVE  Grows(c, c, ino)
<1>1. c \in Contexts /\ OwnedIn(RefMap(Eff(c, ino)), c.ram.bitmap, 0)
      /\ Within(RefMap(Eff(c, ino)), RefMap(Eff(c, ino)))
  BY DEF Growing, Within
<1>2. QED
  BY <1>1, GrowsLocally

\* Growth cuts no path.
LEMMA WholeGrown ==
  ASSUME NEW ino, NEW c, c.disk \in Disk, NEW w, w.disk \in Disk, Grows(c, w, ino), NEW v, Whole(c.disk, v)
  PROVE  Whole(w.disk, v)
<1>1. /\ w.disk.inodes = c.disk.inodes /\ NamesKept(c.disk, w.disk)
      /\ Within(RefMap(c.disk), RefMap(w.disk))
  BY DEF Grows
<1>2. ASSUME NEW i \in Inodes
      PROVE  w.disk.inodes[i].type = c.disk.inodes[i].type /\ Children(c.disk, i) \subseteq Children(w.disk, i)
  BY <1>1, KeptChildren
<1>3. ASSUME NEW i \in Inodes, IsDir(c.disk, i)
      PROVE  /\ w.disk.inodes[i].size = c.disk.inodes[i].size
             /\ \A f \in 0 .. Table :
                  RefMap(c.disk)[<<i, f>>] # 0 => RefMap(w.disk)[<<i, f>>] # 0
  <2>1. \A f \in 0 .. Table : <<i, f>> \in Places
    BY DEF Places
  <2>2. QED
    BY <1>1, <2>1 DEF Within
<1>4. QED
  BY <1>2, <1>3, WholeLike

\* The block an inode has at fb is at that place alone.
LEMMA HeldHere ==
  ASSUME NEW ino \in Inodes, NEW c, Growing(c, ino), NEW fb \in Nat,
         GetBlock(c.disk, c.inode, fb) # 0
  PROVE  /\ GetBlock(c.disk, c.inode, fb) \in Blocks
         /\ fb < Table /\ RefMap(Eff(c, ino))[<<ino, fb>>] = GetBlock(c.disk, c.inode, fb)
         /\ Held(RefMap(Eff(c, ino)), GetBlock(c.disk, c.inode, fb), ino, fb)
<1> DEFINE b == GetBlock(c.disk, c.inode, fb)
<1>1. c \in Contexts /\ c.disk \in Disk /\ c.inode \in Inode
  BY DEF Growing, Contexts
<1>2. b \in Blocks /\ fb < Table /\ fb \in 0 .. Table /\ b = OwnedBlock(c.disk, c.inode, fb)
  BY <1>1, GetBlockType, GetBlockPlace, Constants
<1>3. <<ino, fb>> \in Places /\ RefMap(Eff(c, ino))[<<ino, fb>>] = b
  BY <1>1, <1>2, EffFacts DEF Places
<1> HIDE DEF b
<1>4. OwnedIn(RefMap(Eff(c, ino)), c.ram.bitmap, 0) /\ b # 0
  BY <1>2, Constants DEF Growing
<1>5. Held(RefMap(Eff(c, ino)), b, ino, fb)
  BY <1>2, <1>3, <1>4 DEF OwnedIn, Held
<1>6. QED
  BY <1>2, <1>3, <1>5 DEF b

\* What it has not got is nothing.
LEMMA NoneHere ==
  ASSUME NEW ino \in Inodes, NEW c, Growing(c, ino), NEW fb \in Nat,
         GetBlock(c.disk, c.inode, fb) = 0
  PROVE  fb < Table => RefMap(Eff(c, ino))[<<ino, fb>>] = 0
<1>1. c \in Contexts /\ c.disk \in Disk /\ c.inode \in Inode
  BY DEF Growing, Contexts
<1>2. SUFFICES ASSUME fb < Table PROVE RefMap(Eff(c, ino))[<<ino, fb>>] = 0
  OBVIOUS
<1>3. fb \in 0 .. Table /\ OwnedBlock(c.disk, c.inode, fb) = 0
  BY <1>1, <1>2, GetBlockPlace
<1>4. QED
  BY <1>1, <1>3, EffFacts

\* g is c with the new block b at file block fb of the local inode.
NewBlock(c, g, ino, fb, b) ==
  /\ Grows(c, g, ino) /\ Tightens(c, g, ino)
  /\ Held(RefMap(Eff(g, ino)), b, ino, fb)
  /\ \A f \in 0 .. Table : f # fb /\ f # Table =>
       RefMap(Eff(g, ino))[<<ino, f>>] = RefMap(Eff(c, ino))[<<ino, f>>]
  /\ fb < Table /\ (fb < NDirect \/ g.inode.indirect # 0) => RefMap(Eff(g, ino))[<<ino, fb>>] = b
  /\ "blocks" \notin g.lost => fb < Table /\ RefMap(Eff(g, ino))[<<ino, fb>>] = b

\* A new block for file block fb: allocated, and entered in the inode.
LEMMA GrowNew ==
  ASSUME NEW ino \in Inodes, NEW c, Growing(c, ino), NEW fb \in Nat,
         GetBlock(c.disk, c.inode, fb) = 0, Room(c, ino, fb), NextBlock(c) # 0
  PROVE  /\ NewBlock(c, Grow(AllocBlock(c), fb, NextBlock(c)), ino, fb, NextBlock(c))
         /\ NextBlock(c) \in Blocks
<1> DEFINE n == NextBlock(c)
           a == AllocBlock(c)
           g == Grow(a, fb, n)
<1>1. GrownByAlloc(c, a, n, ino)
  BY GrowAlloc
<1> HIDE DEF n, a
<1>2. /\ Grows(c, a, ino) /\ Growing(a, ino) /\ a.inode = c.inode
      /\ RefMap(Eff(a, ino)) = RefMap(Eff(c, ino)) /\ Unused(RefMap(Eff(a, ino)), n)
      /\ n \in Blocks /\ a.disk.inodes = c.disk.inodes
      /\ a.ram.bitmap = c.ram.bitmap \cup {n} /\ a.lost = c.lost
  BY <1>1 DEF GrownByAlloc, Grows
<1>3. fb < Table => RefMap(Eff(a, ino))[<<ino, fb>>] = 0
  BY <1>2, NoneHere
<1>4. Room(a, ino, fb)
  BY <1>2 DEF Room, IsDir
<1>5. Grown(a, g, ino, fb, n) /\ g.inode.block_count = Plus(a.inode.block_count, 1)
  BY <1>2, <1>3, <1>4, GrowGrows
<1> HIDE DEF g
<1>6. Grows(c, g, ino) /\ Filled(a, g, ino, fb, n)
  BY <1>2, <1>5, GrowsTrans DEF Grown
<1>7. Tightens(c, g, ino)
  <2>1. c.lost \subseteq g.lost
    BY <1>2, <1>6 DEF Filled
  <2>2. ASSUME c.disk.inodes[ino].type # "FREE", TightIn(c, ino) PROVE TightIn(g, ino)
    <3>1. /\ fb < Table => RefMap(Eff(c, ino))[<<ino, fb>>] = 0
          /\ g.inode.block_count = Plus(c.inode.block_count, 1)
      BY <1>2, <1>3, <1>5
    <3>2. QED
      BY <1>2, <1>6, <2>2, <3>1, FilledTight
  <2>3. QED
    BY <2>1, <2>2 DEF Tightens
<1>8. NewBlock(c, g, ino, fb, n)
  <2>1. "blocks" \notin g.lost => fb < Table /\ RefMap(Eff(g, ino))[<<ino, fb>>] = n
    BY <1>6 DEF Filled
  <2>2. QED
    BY <1>2, <1>5, <1>6, <1>7, <2>1 DEF Grown, NewBlock, Held
<1>9. QED
  BY <1>2, <1>8 DEF a, n, g

\* One round of the loop.
LEMMA WriteOneGrows ==
  ASSUME NEW ino \in Inodes, NEW c, Growing(c, ino), ~IsDir(c.disk, ino), NEW fb \in Nat
  PROVE  Grows(c, WriteOne(c, fb), ino) /\ Tightens(c, WriteOne(c, fb), ino)
<1> DEFINE b == GetBlock(c.disk, c.inode, fb)
           n == NextBlock(c)
           b1 == IF b = 0 THEN n ELSE b
           grown == IF b # 0 THEN c ELSE Grow(AllocBlock(c), fb, b1)
           w == WriteBlock(grown, b1, ZeroBlock)
           z == [w EXCEPT !.at = fb + 1]
<1>1. CASE c.at # fb \/ b1 = 0
  <2>1. WriteOne(c, fb) = c
    BY <1>1 DEF WriteOne
  <2>2. QED
    BY <2>1, GrowsSelf DEF Tightens
<1>2. CASE ~(c.at # fb \/ b1 = 0)
  <2>1. WriteOne(c, fb) = z
    BY <1>2 DEF WriteOne
  <2>2. /\ Grows(c, grown, ino) /\ Tightens(c, grown, ino)
        /\ b1 \in Blocks /\ Held(RefMap(Eff(grown, ino)), b1, ino, fb)
    <3>1. CASE b # 0
      BY <3>1, GrowsSelf, HeldHere DEF Tightens
    <3>2. CASE b = 0
      <4>1. n # 0 /\ b1 = n /\ grown = Grow(AllocBlock(c), fb, n)
        BY <1>2, <3>2
      <4>2. Room(c, ino, fb)
        BY DEF Room
      <4> HIDE DEF grown, b1
      <4>3. NewBlock(c, grown, ino, fb, b1) /\ b1 \in Blocks
        <5>1. NewBlock(c, Grow(AllocBlock(c), fb, n), ino, fb, n) /\ n \in Blocks
          BY <3>2, <4>1, <4>2, GrowNew
        <5>2. QED
          BY <4>1, <5>1
      <4>4. QED
        BY <4>3 DEF NewBlock
    <3>3. QED
      BY <3>1, <3>2
  <2> HIDE DEF grown, b1
  <2>3. Growing(grown, ino) /\ grown \in Contexts /\ ~IsDir(grown.disk, ino)
    BY <2>2 DEF Grows, Growing, IsDir
  <2>4. Leaves(grown, w, [grown.disk EXCEPT !.blocks[b1] = ZeroBlock]) /\ w.ram = grown.ram
    BY <2>2, <2>3, WritesLeave, ZeroTypes
  <2> HIDE DEF w
  <2>5. Grows(grown, w, ino) /\ Tightens(grown, w, ino)
    <3>1. Grows(grown, w, ino) /\ RefMap(Eff(w, ino)) = RefMap(Eff(grown, ino))
      BY <2>2, <2>3, <2>4, GrowContent, ZeroTypes
    <3>2. QED
      BY <2>2, <2>3, <2>4, <3>1, TightensWrite, ZeroTypes
  <2>6. Growing(w, ino) /\ w \in Contexts
    BY <2>5 DEF Grows, Growing
  <2>7. /\ z \in Contexts /\ z.disk = w.disk /\ z.log = w.log /\ z.ram = w.ram /\ z.inode = w.inode
        /\ z.lost = w.lost
    BY <2>6 DEF Contexts
  <2> HIDE DEF z
  <2>8. RefMap(Eff(z, ino)) = RefMap(Eff(w, ino))
    BY <2>6, <2>7, EffSamePointers
  <2>9. Within(RefMap(Eff(w, ino)), RefMap(Eff(z, ino))) /\ OwnedIn(RefMap(Eff(z, ino)), w.ram.bitmap, 0)
    BY <2>6, <2>8 DEF Within, Growing
  <2>10. Grows(w, z, ino)
    BY <2>6, <2>7, <2>9, GrowsLocally
  <2>11. Tightens(w, z, ino)
    BY <2>6, <2>7, <2>8, TightInSame DEF Tightens
  <2>12. Grows(c, z, ino)
    BY <2>2, <2>5, <2>10, GrowsTrans
  <2>13. Tightens(c, z, ino)
    BY <2>2, <2>5, <2>11, TightensTrans DEF Grows
  <2>14. QED
    BY <2>1, <2>12, <2>13
<1>3. QED
  BY <1>1, <1>2

\* The rounds of the loop.
LEMMA LoopedGrows ==
  ASSUME NEW ino \in Inodes, NEW c, Growing(c, ino), ~IsDir(c.disk, ino),
         NEW offset \in Nat, NEW n \in Nat
  PROVE  Grows(c, Looped(c, offset, n), ino) /\ Tightens(c, Looped(c, offset, n), ino)
<1> DEFINE X == {a \in Contexts : Grows(c, a, ino) /\ Tightens(c, a, ino)}
           Good(f) == f = [k \in 0 .. n |-> IF k = 0 THEN c ELSE WriteOne(f[k - 1], offset + k - 1)]
           at == CHOOSE f : Good(f)
           next == [k \in 1 .. n |-> [a \in X |-> WriteOne(a, offset + k - 1)]]
<1>1. c \in X
  BY GrowsSelf DEF Growing, Tightens
<1>2. ASSUME NEW a \in X, NEW fb \in Nat PROVE WriteOne(a, fb) \in X
  <2>1. Growing(a, ino) /\ ~IsDir(a.disk, ino)
    BY DEF Grows, IsDir
  <2>2. Grows(a, WriteOne(a, fb), ino) /\ Tightens(a, WriteOne(a, fb), ino)
    BY <2>1, WriteOneGrows
  <2>3. Grows(c, WriteOne(a, fb), ino) /\ Tightens(c, WriteOne(a, fb), ino)
    BY <2>2, GrowsTrans, TightensTrans DEF Grows
  <2>4. WriteOne(a, fb) \in Contexts
    BY <2>2 DEF Grows, Growing
  <2>5. QED
    BY <2>3, <2>4
<1> HIDE DEF X
<1>3. next \in [1 .. n -> [X -> X]]
  <2>1. \A k \in 1 .. n : offset + k - 1 \in Nat
    OBVIOUS
  <2>2. QED
    BY <1>2, <2>1
<1>4. PICK f : IsRounds(f, X, c, n, next)
  <2> HIDE DEF next
  <2>1. QED
    BY <1>1, <1>3, Rounds
<1>5. \A k \in 1 .. n : f[k] = WriteOne(f[k - 1], offset + k - 1)
  <2>1. SUFFICES ASSUME NEW k \in 1 .. n PROVE f[k] = WriteOne(f[k - 1], offset + k - 1)
    OBVIOUS
  <2>2. f[k - 1] \in X /\ f[k] = next[k][f[k - 1]]
    BY <1>4 DEF IsRounds
  <2>3. QED
    BY <2>2
<1>6. Good(f)
  BY <1>4, <1>5 DEF IsRounds
<1>7. Good(at)
  <2> HIDE DEF Good
  <2>1. QED
    BY <1>6, Zenon
<1>8. Looped(c, offset, n) = at[n]
  BY DEF Looped
<1> HIDE DEF at
<1>9. at[0] = c /\ \A k \in 1 .. n : at[k] = WriteOne(at[k - 1], offset + k - 1)
  BY <1>7
<1> DEFINE T == {k \in 0 .. n : at[k] \in X}
<1>10. 0 \in T
  BY <1>1, <1>9
<1>11. ASSUME NEW m \in 0 .. n - 1, m \in T PROVE m + 1 \in T
  <2>1. at[m + 1] = WriteOne(at[(m + 1) - 1], offset + (m + 1) - 1) /\ (m + 1) - 1 = m
        /\ offset + (m + 1) - 1 \in Nat
    BY <1>9
  <2>2. QED
    BY <1>2, <1>11, <2>1
<1> HIDE DEF T
<1>12. 0 .. n \subseteq T
  BY <1>10, <1>11, UpTo
<1>13. at[n] \in X
  BY <1>12 DEF T
<1>14. QED
  BY <1>8, <1>13 DEF X

\* One more image in the log.
LEMMA LogImage ==
  ASSUME NEW c \in Contexts, NEW v, LogOK(c, v), NEW a, NEW d, Leaves(c, a, d),
         a.ram.bitmap = d.bitmap, Sound(d, v)
  PROVE  LogOK(a, v)
<1>1. c.log \in Seq(Disk) /\ a.log = Append(c.log, d) /\ a.disk = d
  BY DEF Contexts, Leaves
<1>2. /\ DOMAIN a.log = 1 .. Len(c.log) + 1 /\ Len(a.log) = Len(c.log) + 1
      /\ a.log[Len(c.log) + 1] = d /\ \A n \in DOMAIN c.log : a.log[n] = c.log[n]
      /\ DOMAIN c.log = 1 .. Len(c.log) /\ Len(c.log) \in Nat
  BY <1>1 DEF Leaves
<1>3. ASSUME NEW n \in DOMAIN a.log PROVE Sound(a.log[n], v)
  <2>1. n \in DOMAIN c.log \/ n = Len(c.log) + 1
    BY <1>2
  <2>2. QED
    BY <1>2, <2>1 DEF LogOK
<1>4. QED
  BY <1>1, <1>2, <1>3 DEF LogOK

\* The inode of what is no directory is written.
LEMMA SoundFile ==
  ASSUME NEW d, NEW v, Sound(d, v), NEW ino \in Inodes, ~IsDir(d, ino), NEW n \in Inode,
         n.type = d.inodes[ino].type, NEW w, NamedOK(d, w),
         NEW e, e = [d EXCEPT !.inodes[ino] = n], OwnedIn(RefMap(e), e.bitmap, w)
  PROVE  Sound(e, w)
<1>1. d \in Disk
  BY DEF Sound
<1>2. InodeImaged(d, ino, n, e)
  BY <1>1, InodeImage
<1>3. \A i \in Inodes : e.inodes[i].type = d.inodes[i].type /\ (IsDir(e, i) <=> IsDir(d, i))
  BY <1>2 DEF InodeImaged, IsDir
<1>4. ASSUME NEW i \in Inodes, IsDir(e, i)
      PROVE  /\ i # ino /\ IsDir(d, i) /\ Listed(e, i) = Listed(d, i) /\ e.inodes[i] = d.inodes[i]
             /\ \A k \in Listed(d, i) : Entry(e, i, k) = Entry(d, i, k) /\ Entry(d, i, k).inode \in Inodes
             /\ \A f \in 0 .. Table : RefMap(e)[<<i, f>>] = RefMap(d)[<<i, f>>]
  BY <1>1, <1>2, <1>3, <1>4, ListedAt DEF InodeImaged
<1>5. DirsOK(e)
  <2>1. SUFFICES ASSUME NEW i \in Inodes, IsDir(e, i) PROVE e.inodes[i].size <= MaxEntries /\ NoHole(e, i)
    BY DEF DirsOK
  <2>2. d.inodes[i].size <= MaxEntries /\ NoHole(d, i) /\ e.inodes[i] = d.inodes[i]
    BY <1>4, <2>1 DEF Sound, DirsOK
  <2>3. NoHole(e, i)
    <3>1. d.inodes[i].size \in Nat
      BY <1>1 DEF Disk, Inode
    <3>2. BlockOf(d.inodes[i].size) \in Nat
      BY <3>1, EntryPlaces
    <3>3. BlockOf(d.inodes[i].size) < Table => BlockOf(d.inodes[i].size) \in 0 .. Table
      BY <3>2, Constants DEF Table
    <3>4. QED
      BY <1>4, <2>1, <2>2, <3>3 DEF NoHole
  <2>4. QED
    BY <2>2, <2>3
<1>6. NamedOK(e, w)
  BY <1>3, <1>4 DEF NamedOK
<1>7. NamedOnce(e)
  <2>1. SUFFICES ASSUME NEW i \in Inodes, NEW j \in Inodes, IsDir(e, i), IsDir(e, j),
                        NEW k \in Listed(e, i), NEW l \in Listed(e, j),
                        Entry(e, i, k).inode = Entry(e, j, l).inode
                 PROVE  i = j /\ k = l
    BY DEF NamedOnce
  <2>2. /\ IsDir(d, i) /\ k \in Listed(d, i) /\ Entry(e, i, k) = Entry(d, i, k)
        /\ IsDir(d, j) /\ l \in Listed(d, j) /\ Entry(e, j, l) = Entry(d, j, l)
    BY <1>4, <2>1
  <2>3. QED
    BY <2>1, <2>2 DEF Sound, NamedOnce
<1>8. e \in Disk /\ e.inodes[Root].type = "DIR"
  BY <1>2, <1>3, Constants DEF InodeImaged, Sound
<1>9. QED
  BY <1>5, <1>6, <1>7, <1>8 DEF Sound

\* An operation that is done has a log of sound images.
Done(c, v) == c \in Contexts /\ LogOK(c, v) /\ Sound(c.disk, 0)

\* Its local inode starts as the one on the disk.
LEMMA StartGrows ==
  ASSUME NEW ino \in Inodes, NEW c \in Contexts, LogOK(c, 0), Sound(c.disk, 0),
         NEW a \in Contexts, a.disk = c.disk, a.log = c.log, a.ram = c.ram,
         a.inode = c.disk.inodes[ino]
  PROVE  Growing(a, ino) /\ RefMap(Eff(a, ino)) = RefMap(c.disk) /\ Eff(a, ino) = c.disk
<1>1. RefMap(Eff(a, ino)) = RefMap(c.disk) /\ Eff(a, ino) = c.disk
  <2>1. Eff(a, ino) = c.disk
    BY DEF Eff, Disk, Contexts
  <2>2. QED
    BY <2>1
<1>2. OwnedIn(RefMap(c.disk), c.ram.bitmap, 0)
  BY DEF Sound, LogOK
<1>3. QED
  BY <1>1, <1>2 DEF Growing, LogOK, Within

\* An inode table whose types are what they were is counted as it was.
LEMMA CountsEnd ==
  ASSUME NEW c, NEW a, BlocksKept(c, a), NEW w, w.ram = a.ram,
         \A i \in Inodes : w.disk.inodes[i].type = c.disk.inodes[i].type
  PROVE  Counted(c) => Counted(w)
<1>1. BlocksKept(c, w)
  BY SameRam, BlocksKeptTrans
<1>2. QED
  BY <1>1, InodesSame DEF Counted, BlocksKept

\* dorifs_vfs_write leaves sound images only, leaks nothing, cuts no path, and its
\* counts are right.
LEMMA WrittenSound ==
  ASSUME NEW ino \in Inodes, NEW c \in Contexts, LogOK(c, 0), Sound(c.disk, 0), ~IsDir(c.disk, ino),
         c.disk.inodes[ino].type # "FREE", NEW offset \in Nat, NEW n \in Nat
  PROVE  /\ Done(Written(c, ino, offset, n), 0)
         /\ LeakFree(c, Written(c, ino, offset, n))
         /\ OrphanFree(c, Written(c, ino, offset, n))
         /\ Counted(c) => Counted(Written(c, ino, offset, n))
<1> DEFINE start == [c EXCEPT !.inode = c.disk.inodes[ino], !.at = offset]
           end == Looped(start, offset, n)
           size == IF end.at > end.inode.size THEN end.at ELSE end.inode.size
           inode == [end.inode EXCEPT !.size = size]
           w == WriteInode(end, ino, inode)
<1>1. c.disk \in Disk /\ c.disk.inodes[ino] \in Inode
  BY DEF Contexts, Disk
<1>2. /\ start \in Contexts /\ start.disk = c.disk /\ start.log = c.log /\ start.ram = c.ram
      /\ start.inode = c.disk.inodes[ino] /\ start.lost = c.lost
  BY <1>1 DEF Contexts
<1>3. Written(c, ino, offset, n) = w
  BY DEF Written
<1> HIDE DEF start
<1>5. Growing(start, ino) /\ Eff(start, ino) = c.disk
  BY <1>2, StartGrows
<1>6. Grows(start, end, ino) /\ Tightens(start, end, ino)
  BY <1>2, <1>5, LoopedGrows DEF IsDir
<1> HIDE DEF end
<1>7. /\ Growing(end, ino) /\ end \in Contexts /\ end.inode \in Inode /\ end.at \in Nat /\ size \in Nat
      /\ ~IsDir(end.disk, ino) /\ end.disk \in Disk
  BY <1>2, <1>6 DEF Grows, Growing, Contexts, Inode, IsDir
<1> HIDE DEF size
<1>8. inode \in Inode /\ inode.type = end.inode.type /\ inode.direct = end.inode.direct
      /\ inode.indirect = end.inode.indirect /\ inode.block_count = end.inode.block_count
  BY <1>7 DEF Inode
<1> HIDE DEF inode
<1>9. Leaves(end, w, [end.disk EXCEPT !.inodes[ino] = inode]) /\ w.ram = end.ram
  BY <1>7, <1>8, WritesLeave
<1> HIDE DEF w
<1> DEFINE d == [end.disk EXCEPT !.inodes[ino] = inode]
<1>10. RefMap(d) = RefMap(Eff(end, ino)) /\ d.bitmap = end.disk.bitmap
  <2> DEFINE a == [end EXCEPT !.inode = inode]
  <2>1. a \in Contexts /\ a.disk = end.disk /\ a.inode = inode
    BY <1>7, <1>8 DEF Contexts
  <2>2. Eff(a, ino) = d
    BY <2>1 DEF Eff
  <2>3. RefMap(Eff(a, ino)) = RefMap(Eff(end, ino))
    <3> HIDE DEF a
    <3>1. QED
      BY <1>7, <1>8, <2>1, EffSamePointers
  <2>4. d.bitmap = end.disk.bitmap
    BY <1>7 DEF Disk
  <2>5. QED
    BY <2>2, <2>3, <2>4
<1>11. Sound(d, 0)
  <2>1. OwnedIn(RefMap(d), d.bitmap, 0)
    BY <1>7, <1>10 DEF Growing, LogOK
  <2>2. Sound(end.disk, 0) /\ NamedOK(end.disk, 0) /\ inode.type = end.disk.inodes[ino].type
    BY <1>7, <1>8 DEF Growing, Sound
  <2>3. QED
    BY <1>7, <1>8, <2>1, <2>2, SoundFile
<1>12. LogOK(w, 0)
  <2>1. LogOK(end, 0) /\ w.ram.bitmap = d.bitmap /\ Leaves(end, w, d)
    BY <1>7, <1>9, <1>10 DEF Growing, LogOK
  <2> HIDE DEF d
  <2>2. QED
    BY <1>7, <1>11, <2>1, LogImage
<1>13. Counted(c) => Counted(w)
  <2>1. BlocksKept(start, end) /\ BlocksKept(c, start)
    BY <1>2, <1>6, SameRam DEF Grows
  <2>2. w.ram = end.ram /\ w.disk = d
    BY <1>9 DEF Leaves
  <2>3. \A i \in Inodes : d.inodes[i].type = c.disk.inodes[i].type
    BY <1>2, <1>6, <1>7, <1>8 DEF Grows, Growing, Disk
  <2> HIDE DEF d
  <2>4. QED
    BY <2>1, <2>2, <2>3, BlocksKeptTrans, CountsEnd
<1>14. LeakFree(c, w)
  <2>1. SUFFICES ASSUME Tight(c.disk), "blocks" \notin w.lost PROVE Tight(d)
    BY <1>9 DEF LeakFree, Leaves
  <2>2. TightIn(start, ino) /\ start.disk.inodes[ino].type # "FREE" /\ "blocks" \notin end.lost
    BY <1>2, <1>5, <1>9, <2>1 DEF TightIn, Leaves
  <2>3. TightIn(end, ino)
    BY <1>6, <2>2 DEF Tightens
  <2>4. QED
    BY <1>7, <1>8, <2>2, <2>3, TightEnd
<1>15. OrphanFree(c, w)
  <2>1. SUFFICES ASSUME Whole(c.disk, 0) PROVE Whole(d, 0)
    BY <1>9 DEF OrphanFree, Leaves
  <2>2. Whole(end.disk, 0)
    BY <1>1, <1>2, <1>6, <1>7, <2>1, WholeGrown
  <2>3. inode.type = end.disk.inodes[ino].type
    BY <1>7, <1>8 DEF Growing
  <2>4. QED
    BY <1>7, <1>8, <2>2, <2>3, WholeFile
<1>16. QED
  BY <1>3, <1>9, <1>11, <1>12, <1>13, <1>14, <1>15 DEF Done, Leaves

-----------------------------------------------------------------------------
(* dorifs_vfs_create and dorifs_vfs_symlink                                 *)

Blank(n) ==
  /\ n \in Inode
  /\ \A m \in 1 .. NDirect : n.direct[m] = 0
  /\ n.indirect = 0
  /\ n.type = "DIR" => n.size = 0

Unlisted(d, ino) ==
  \A i \in Inodes : IsDir(d, i) => \A k \in Listed(d, i) : Entry(d, i, k).inode # ino

\* e is d with inode ino made anew, as n.
Replaced(d, v, ino, n, e) ==
  /\ Sound(e, v) /\ e.bitmap = d.bitmap /\ e.blocks = d.blocks
  /\ \A i \in Inodes \ {ino} :
       /\ e.inodes[i] = d.inodes[i] /\ Listed(e, i) = Listed(d, i)
       /\ \A k \in Listed(d, i) : Entry(e, i, k) = Entry(d, i, k)
  /\ \A i \in Inodes, f \in 0 .. Table :
       RefMap(e)[<<i, f>>] = IF i = ino THEN 0 ELSE RefMap(d)[<<i, f>>]
  /\ e.inodes[ino] = n
  /\ IsDir(e, ino) => Listed(e, ino) = {}

\* An inode that nobody lists, or the one in hand, may be made anew.
LEMMA SoundReplaced ==
  ASSUME NEW d, NEW v, Sound(d, v), NEW ino \in Inodes, ino # Root, ino = v \/ Unlisted(d, ino),
         NEW n, Blank(n)
  PROVE  Replaced(d, v, ino, n, [d EXCEPT !.inodes[ino] = n])
<1> DEFINE e == [d EXCEPT !.inodes[ino] = n]
<1>1. d \in Disk /\ n \in Inode
  BY DEF Sound, Blank
<1>2. InodeImaged(d, ino, n, e)
  BY <1>1, InodeImage
<1> HIDE DEF e
<1>3. e \in Disk /\ e.inodes[ino] = n /\ e.bitmap = d.bitmap
  BY <1>2 DEF InodeImaged
<1>4. ASSUME NEW f \in 0 .. Table PROVE RefMap(e)[<<ino, f>>] = 0
  <2>1. RefMap(e)[<<ino, f>>] = OwnedBlock(d, n, f)
    BY <1>2 DEF InodeImaged
  <2>2. f < NDirect => f + 1 \in 1 .. NDirect
    BY Constants
  <2>3. QED
    BY <1>1, <2>1, <2>2, OwnedBlockCases, Constants DEF Blank, Table
<1>5. IsDir(e, ino) => Listed(e, ino) = {}
  <2>1. SUFFICES ASSUME IsDir(e, ino), NEW k \in Listed(e, ino) PROVE FALSE
    OBVIOUS
  <2>2. k \in Nat /\ k < e.inodes[ino].size
    BY <1>3, ListedAt
  <2>3. QED
    BY <1>3, <2>1, <2>2 DEF IsDir, Blank
<1>6. ASSUME NEW i \in Inodes, i # ino
      PROVE  /\ e.inodes[i] = d.inodes[i] /\ (IsDir(e, i) <=> IsDir(d, i))
             /\ Listed(e, i) = Listed(d, i)
             /\ \A k \in Listed(d, i) : Entry(e, i, k) = Entry(d, i, k) /\ Entry(d, i, k).inode \in Inodes
             /\ \A f \in 0 .. Table : RefMap(e)[<<i, f>>] = RefMap(d)[<<i, f>>]
  BY <1>1, <1>2, <1>6, ListedAt DEF InodeImaged, IsDir
<1>7. OwnedIn(RefMap(e), e.bitmap, v)
  <2>1. Within(RefMap(e), RefMap(d))
    <3>1. SUFFICES ASSUME NEW q \in Places PROVE RefMap(e)[q] = 0 \/ RefMap(e)[q] = RefMap(d)[q]
      BY DEF Within
    <3>2. PICK i \in Inodes, f \in 0 .. Table : q = <<i, f>>
      BY DEF Places
    <3>3. QED
      BY <1>4, <1>6, <3>2
  <2>2. OwnedIn(RefMap(d), d.bitmap, v)
    BY DEF Sound
  <2>3. QED
    BY <1>3, <2>1, <2>2, OwnedWithin
<1>8. DirsOK(e)
  <2>1. SUFFICES ASSUME NEW i \in Inodes, IsDir(e, i) PROVE e.inodes[i].size <= MaxEntries /\ NoHole(e, i)
    BY DEF DirsOK
  <2>2. CASE i = ino
    <3>1. e.inodes[i].size = 0 /\ e.inodes[i].indirect = 0
      BY <1>3, <2>1, <2>2 DEF Blank, IsDir
    <3>2. QED
      BY <3>1, Constants DEF NoHole
  <2>3. CASE i # ino
    <3>1. d.inodes[i].size <= MaxEntries /\ NoHole(d, i) /\ e.inodes[i] = d.inodes[i]
      BY <1>6, <2>1, <2>3 DEF Sound, DirsOK
    <3>2. d.inodes[i].size \in Nat
      BY <1>1 DEF Disk, Inode
    <3>3. BlockOf(d.inodes[i].size) \in Nat
      BY <3>2, EntryPlaces
    <3>4. BlockOf(d.inodes[i].size) < Table => BlockOf(d.inodes[i].size) \in 0 .. Table
      BY <3>3, Constants DEF Table
    <3>5. NoHole(e, i)
      BY <1>6, <2>3, <3>1, <3>4 DEF NoHole
    <3>6. QED
      BY <3>1, <3>5
  <2>4. QED
    BY <2>2, <2>3
<1>9. ASSUME NEW i \in Inodes, IsDir(e, i), NEW k \in Listed(e, i)
      PROVE  i # ino /\ IsDir(d, i) /\ k \in Listed(d, i) /\ Entry(e, i, k) = Entry(d, i, k)
             /\ Entry(d, i, k).inode \in Inodes
  BY <1>5, <1>6, <1>9
<1>10. NamedOK(e, v)
  <2>1. SUFFICES ASSUME NEW i \in Inodes, IsDir(e, i), NEW k \in Listed(e, i)
                 PROVE  LET de == Entry(e, i, k) IN
                        /\ de.inode # Root /\ de.type # "FREE"
                        /\ de.inode # v => de.type = e.inodes[de.inode].type
    BY DEF NamedOK
  <2>2. /\ IsDir(d, i) /\ k \in Listed(d, i) /\ Entry(e, i, k) = Entry(d, i, k)
        /\ Entry(d, i, k).inode \in Inodes
    BY <1>9, <2>1
  <2>3. Entry(d, i, k).inode = ino => ino = v
    BY <2>2 DEF Unlisted
  <2>4. Entry(d, i, k).inode # v => e.inodes[Entry(d, i, k).inode] = d.inodes[Entry(d, i, k).inode]
    BY <1>6, <2>2, <2>3
  <2>5. QED
    BY <2>2, <2>4 DEF Sound, NamedOK
<1>11. NamedOnce(e)
  BY <1>9 DEF Sound, NamedOnce
<1>12. e.inodes[Root].type = "DIR"
  BY <1>6, Constants DEF Sound
<1>13. e.blocks = d.blocks
  BY <1>2 DEF InodeImaged
<1>14. Sound(e, v)
  BY <1>3, <1>7, <1>8, <1>10, <1>11, <1>12 DEF Sound
<1>15. Replaced(d, v, ino, n, e)
  BY <1>3, <1>4, <1>5, <1>6, <1>13, <1>14 DEF Replaced
<1>16. QED
  BY <1>15 DEF e

\* It cuts no path if the inode leads nowhere, but the inode itself is out of reach.
LEMMA WholeReplaced ==
  ASSUME NEW d \in Disk, NEW v, NEW ino \in Inodes, NEW n, Blank(n), NEW e, Replaced(d, v, ino, n, e),
         NEW u \in {0, ino}, Whole(d, u), Children(d, ino) = {}
  PROVE  Whole(e, ino)
<1>1. /\ e \in Disk /\ e.inodes[ino] = n
      /\ \A i \in Inodes \ {ino} :
           /\ e.inodes[i] = d.inodes[i] /\ Listed(e, i) = Listed(d, i)
           /\ \A k \in Listed(d, i) : Entry(e, i, k) = Entry(d, i, k)
      /\ \A i \in Inodes \ {ino}, f \in 0 .. Table : RefMap(e)[<<i, f>>] = RefMap(d)[<<i, f>>]
  BY DEF Replaced, Sound
<1>2. \A i \in Inodes : Children(d, i) \ {0} \subseteq Children(e, i)
  BY <1>1 DEF Children, IsDir
<1>3. 0 \notin Inodes
  BY Constants
<1>4. Reachable(d) \ {0} \subseteq Reachable(e)
  BY <1>1, <1>2, <1>3, ReachMore
<1>5. Live(e) \ {ino} \subseteq Reachable(e)
  <2>1. Live(e) \ {ino} \subseteq Live(d) \ {u} /\ Live(e) \subseteq Inodes
    BY <1>1, <1>3 DEF Live
  <2>2. QED
    BY <1>3, <1>4, <2>1 DEF Whole
<1>6. Full(e)
  <2>1. SUFFICES ASSUME NEW i \in Inodes, NEW k \in Nat, IsDir(e, i), k < e.inodes[i].size
                 PROVE  BlockOf(k) < Table /\ \A j \in 0 .. BlockOf(k) : RefMap(e)[<<i, j>>] # 0
    BY DEF Full
  <2>2. i # ino
    BY <1>1, <2>1 DEF Blank, IsDir
  <2>3. BlockOf(k) < Table /\ \A j \in 0 .. BlockOf(k) : RefMap(d)[<<i, j>>] # 0
    BY <1>1, <2>1, <2>2 DEF Whole, Full, IsDir
  <2>4. BlockOf(k) \in Nat
    BY EntryPlaces
  <2>5. Table \in Nat
    BY Constants DEF Table
  <2>6. \A j \in 0 .. BlockOf(k) : j \in 0 .. Table
    BY <2>3, <2>4, <2>5
  <2>7. QED
    BY <1>1, <2>2, <2>3, <2>6
<1>7. QED
  BY <1>5, <1>6 DEF Whole

\* What is listed is in use.
LEMMA FreeUnlisted ==
  ASSUME NEW d, Sound(d, 0), NEW ino \in Inodes, d.inodes[ino].type = "FREE"
  PROVE  Unlisted(d, ino) /\ ino # Root
<1>1. ino # Root
  BY DEF Sound
<1>2. ASSUME NEW i \in Inodes, IsDir(d, i), NEW k \in Listed(d, i) PROVE Entry(d, i, k).inode # ino
  <2>1. Entry(d, i, k).inode \in Inodes
    BY ListedAt DEF Sound
  <2>2. Entry(d, i, k).inode # 0
    BY <2>1, Constants
  <2>3. QED
    BY <1>2, <2>2 DEF Sound, NamedOK
<1>3. QED
  BY <1>1, <1>2 DEF Unlisted

\* An entry for an inode that nobody lists yet, of its type.
NewEntry(d, p, e) ==
  /\ e \in DirEntry /\ e.inode \in Inodes /\ e.inode # Root /\ e.inode # p
  /\ e.type # "FREE" /\ e.type = d.inodes[e.inode].type
  /\ Unlisted(d, e.inode)

\* Directory p has it in the block after its last entry, written but not counted:
\* other places of that block are as before, or were not seen and are empty.
Entered(w, p, e) ==
  LET d == w.disk
      size == d.inodes[p].size
      fb == BlockOf(size)
      b == GetBlock(d, w.inode, fb)
  IN  /\ \A f \in 0 .. Table : f < fb /\ f # Table =>
           RefMap(Eff(w, p))[<<p, f>>] = RefMap(d)[<<p, f>>]
      /\ b # 0 =>
           /\ d.blocks[b].entries[SlotOf(size)] = e
           /\ \A k \in Nat : k < size /\ BlockOf(k) = fb =>
                \/ d.blocks[b].entries[SlotOf(k)].inode = 0
                \/ GetBlock(d, d.inodes[p], fb) = b
      /\ w.inode.indirect # 0 /\ ~(fb < NDirect) /\ fb < Table => RefMap(Eff(w, p))[<<p, fb>>] # 0
      /\ "blocks" \notin w.lost => fb < Table /\ RefMap(Eff(w, p))[<<p, fb>>] # 0

\* The inode of the directory, with one more entry.
Longer(inode) == [inode EXCEPT !.size = @ + 1]

\* Then the directory with one more entry lists that one besides.
LEMMA AppendedListing ==
  ASSUME NEW p \in Inodes, NEW w, Growing(w, p), NEW e, NewEntry(w.disk, p, e), Entered(w, p, e),
         NEW x, InodeImaged(w.disk, p, Longer(w.inode), x), NEW k \in Listed(x, p)
  PROVE  \/ k = w.disk.inodes[p].size /\ Entry(x, p, k) = e
         \/ k \in Listed(w.disk, p) /\ Entry(x, p, k) = Entry(w.disk, p, k)
<1> DEFINE d == w.disk
           n == Longer(w.inode)
           size == d.inodes[p].size
           fb == BlockOf(size)
<1>1. w \in Contexts /\ d \in Disk /\ w.inode \in Inode /\ d.inodes[p] \in Inode /\ size \in Nat
      /\ w.inode.size = size /\ fb \in Nat
  BY EntryPlaces DEF Growing, Contexts, Disk, Inode
<1>2. n.size = size + 1 /\ n.direct = w.inode.direct /\ n.indirect = w.inode.indirect
  BY <1>1 DEF Longer, Inode
<1>3. x \in Disk /\ x.inodes[p] = n /\ x.blocks = d.blocks
  BY DEF InodeImaged
<1>4. \A f : GetBlock(x, n, f) = GetBlock(d, w.inode, f)
  BY <1>2, <1>3 DEF GetBlock
<1> HIDE DEF n
<1>5. /\ k \in Nat /\ k < size + 1 /\ \A j \in 0 .. BlockOf(k) : GetBlock(x, n, j) # 0
      /\ Entry(x, p, k).inode # 0
  BY <1>1, <1>2, <1>3, ListedAt
<1>6. BlockOf(k) \in Nat /\ BlockOf(k) <= fb
  <2>1. k <= size
    BY <1>1, <1>5
  <2>2. QED
    BY <1>1, <1>5, <2>1, EntryPlaces
<1>7. Entry(x, p, k) = d.blocks[GetBlock(d, w.inode, BlockOf(k))].entries[SlotOf(k)]
  BY <1>3, <1>4 DEF Entry
<1>8. ASSUME NEW j \in 0 .. BlockOf(k) PROVE GetBlock(d, w.inode, j) # 0
  BY <1>4, <1>5
<1>9. CASE k = size
  <2>1. GetBlock(d, w.inode, fb) # 0
    BY <1>6, <1>8, <1>9
  <2>2. Entry(x, p, k) = e
    BY <1>7, <1>9, <2>1 DEF Entered
  <2>3. QED
    BY <1>9, <2>2
<1>10. CASE k # size
  <2>1. k < size
    BY <1>1, <1>5, <1>10
  <2>2. ASSUME NEW j \in 0 .. BlockOf(k) PROVE GetBlock(d, d.inodes[p], j) = GetBlock(d, w.inode, j)
    <3>1. GetBlock(d, w.inode, j) # 0 /\ j \in Nat
      BY <1>8
    <3>2. CASE j < fb
      <4>1. j < Table /\ j \in 0 .. Table /\ GetBlock(d, w.inode, j) = OwnedBlock(d, w.inode, j)
        BY <1>1, <3>1, GetBlockPlace
      <4>2. RefMap(Eff(w, p))[<<p, j>>] = OwnedBlock(d, w.inode, j)
        BY <1>1, <4>1, EffFacts
      <4>3. RefMap(d)[<<p, j>>] = OwnedBlock(d, d.inodes[p], j)
        BY <1>1, <4>1, RefMapFacts
      <4>4. j # Table
        BY <4>1, Constants DEF Table
      <4>5. RefMap(Eff(w, p))[<<p, j>>] = RefMap(d)[<<p, j>>]
        BY <3>2, <4>1, <4>4 DEF Entered
      <4>6. GetBlock(d, d.inodes[p], j) = OwnedBlock(d, d.inodes[p], j)
        BY <1>1, <3>1, <4>1, GetBlockPlace
      <4>7. QED
        BY <4>1, <4>2, <4>3, <4>5, <4>6
    <3>3. CASE ~(j < fb)
      <4>1. j = fb /\ BlockOf(k) = fb
        BY <1>1, <1>6, <3>3
      <4>2. d.blocks[GetBlock(d, w.inode, fb)].entries[SlotOf(k)].inode # 0
        BY <1>5, <1>7, <4>1
      <4>3. QED
        BY <1>5, <2>1, <3>1, <4>1, <4>2 DEF Entered
    <3>4. QED
      BY <3>2, <3>3
  <2>3. BlockOf(k) \in 0 .. BlockOf(k)
    BY <1>6
  <2>4. Entry(d, p, k) = Entry(x, p, k)
    BY <1>7, <2>2, <2>3 DEF Entry
  <2>5. k \in Listed(d, p)
    BY <1>1, <1>5, <1>8, <2>1, <2>2, <2>4, ListedAt
  <2>6. QED
    BY <2>4, <2>5
<1>11. QED
  BY <1>9, <1>10

\* And all that was listed, if set_block has lost no block.
LEMMA WholeAppended ==
  ASSUME NEW p \in Inodes, NEW w, Growing(w, p), IsDir(w.disk, p),
         NEW e, NewEntry(w.disk, p, e), Entered(w, p, e), "blocks" \notin w.lost, Whole(w.disk, e.inode)
  PROVE  Whole([w.disk EXCEPT !.inodes[p] = Longer(w.inode)], 0)
<1> DEFINE d == w.disk
           n == Longer(w.inode)
           x == [d EXCEPT !.inodes[p] = n]
           size == d.inodes[p].size
           fb == BlockOf(size)
<1>1. w \in Contexts /\ d \in Disk /\ w.inode \in Inode /\ d.inodes[p] \in Inode /\ size \in Nat
      /\ w.inode.size = size /\ w.inode.type = d.inodes[p].type /\ fb \in Nat
  BY EntryPlaces DEF Growing, Contexts, Disk, Inode
<1>2. n \in Inode /\ n.size = size + 1 /\ n.direct = w.inode.direct /\ n.indirect = w.inode.indirect
      /\ n.type = w.inode.type
  BY <1>1 DEF Longer, Inode
<1>3. InodeImaged(d, p, n, x)
  BY <1>1, <1>2, InodeImage
<1>4. RefMap(x) = RefMap(Eff(w, p))
  <2> HIDE DEF n
  <2> DEFINE a == [w EXCEPT !.inode = n]
  <2>1. a \in Contexts /\ a.disk = d /\ a.inode = n
    BY <1>1, <1>2 DEF Contexts
  <2>2. Eff(a, p) = x
    BY <2>1 DEF Eff
  <2>3. RefMap(Eff(a, p)) = RefMap(Eff(w, p))
    <3> HIDE DEF a
    <3>1. QED
      BY <1>1, <1>2, <2>1, EffSamePointers
  <2>4. QED
    BY <2>2, <2>3
<1> HIDE DEF x, n
<1>5. /\ x \in Disk /\ x.inodes[p] = n /\ x.blocks = d.blocks
      /\ IsDir(x, p) /\ x.inodes[p].size = size + 1
      /\ \A i \in Inodes : x.inodes[i].type = d.inodes[i].type /\ (IsDir(x, i) <=> IsDir(d, i))
  BY <1>1, <1>2, <1>3 DEF InodeImaged, IsDir
<1>6. ASSUME NEW i \in Inodes, i # p
      PROVE  /\ x.inodes[i] = d.inodes[i] /\ Children(x, i) = Children(d, i)
             /\ \A f \in 0 .. Table : RefMap(x)[<<i, f>>] = RefMap(d)[<<i, f>>]
  <2>1. /\ x.inodes[i] = d.inodes[i] /\ Listed(x, i) = Listed(d, i)
        /\ \A k \in Listed(d, i) : Entry(x, i, k) = Entry(d, i, k)
        /\ \A f \in 0 .. Table : RefMap(x)[<<i, f>>] = RefMap(d)[<<i, f>>]
    BY <1>3, <1>6 DEF InodeImaged
  <2>2. Children(x, i) = Children(d, i)
    BY <1>5, <2>1 DEF Children
  <2>3. QED
    BY <2>1, <2>2
<1>7. fb < Table /\ RefMap(x)[<<p, fb>>] # 0
  BY <1>4 DEF Entered
<1>8. \A i \in Inodes, j \in 0 .. Table :
        RefMap(d)[<<i, j>>] # 0 => RefMap(x)[<<i, j>>] = RefMap(d)[<<i, j>>]
  <2>1. \A i \in Inodes, j \in 0 .. Table : <<i, j>> \in Places
    BY DEF Places
  <2>2. QED
    BY <1>4, <2>1 DEF Growing, Within
<1>9. Full(d) /\ Table \in Nat
  BY Constants DEF Whole, Table
<1>10. \A i \in Inodes, k \in Nat : IsDir(d, i) /\ k < d.inodes[i].size =>
         BlockOf(k) < Table /\ \A j \in 0 .. BlockOf(k) : RefMap(x)[<<i, j>>] # 0
  <2>1. SUFFICES ASSUME NEW i \in Inodes, NEW k \in Nat, IsDir(d, i), k < d.inodes[i].size
                 PROVE  BlockOf(k) < Table /\ \A j \in 0 .. BlockOf(k) : RefMap(x)[<<i, j>>] # 0
    OBVIOUS
  <2>2. BlockOf(k) < Table /\ BlockOf(k) \in Nat /\ \A j \in 0 .. BlockOf(k) : RefMap(d)[<<i, j>>] # 0
    BY <1>9, <2>1, EntryPlaces DEF Full
  <2>3. \A j \in 0 .. BlockOf(k) : j \in 0 .. Table
    BY <1>9, <2>2
  <2>4. QED
    BY <1>8, <2>2, <2>3
<1>11. \A j \in 0 .. fb : RefMap(x)[<<p, j>>] # 0
  <2>1. SUFFICES ASSUME NEW j \in 0 .. fb, j # fb PROVE RefMap(x)[<<p, j>>] # 0
    BY <1>7
  <2>2. size # 0
    BY <1>1, <2>1, EntrySteps
  <2> DEFINE k == size - 1
  <2>3. k \in Nat /\ k < size /\ k + 1 = size
    BY <1>1, <2>2
  <2> HIDE DEF k
  <2>4. fb <= BlockOf(k) + 1 /\ BlockOf(k) \in Nat
    BY <2>3, EntrySteps, EntryPlaces
  <2>5. j \in 0 .. BlockOf(k)
    BY <1>1, <2>1, <2>4
  <2>6. QED
    BY <1>10, <2>3, <2>5
<1>12. Full(x)
  <2>1. SUFFICES ASSUME NEW i \in Inodes, NEW k \in Nat, IsDir(x, i), k < x.inodes[i].size
                 PROVE  BlockOf(k) < Table /\ \A j \in 0 .. BlockOf(k) : RefMap(x)[<<i, j>>] # 0
    BY DEF Full
  <2>2. CASE i = p /\ k = size
    BY <1>7, <1>11, <2>2
  <2>3. CASE ~(i = p /\ k = size)
    <3>1. IsDir(d, i) /\ k < d.inodes[i].size
      BY <1>1, <1>5, <1>6, <2>1, <2>3
    <3>2. QED
      BY <1>10, <3>1
  <2>4. QED
    BY <2>2, <2>3
<1>13. ASSUME NEW k \in Listed(d, p) PROVE k \in Listed(x, p) /\ Entry(x, p, k) = Entry(d, p, k)
  <2>1. k \in Nat /\ k < size /\ k < x.inodes[p].size /\ Entry(d, p, k).inode \in Inodes
        /\ BlockOf(k) \in 0 .. BlockOf(k)
    BY <1>1, <1>5, ListedAt, EntryPlaces
  <2>2. GetBlock(d, d.inodes[p], BlockOf(k)) = GetBlock(x, x.inodes[p], BlockOf(k))
    <3> DEFINE j == BlockOf(k)
    <3>1. RefMap(d)[<<p, j>>] # 0 /\ GetBlock(d, d.inodes[p], j) = RefMap(d)[<<p, j>>] /\ j < Table
      BY <1>1, <1>9, <2>1, FullListed
    <3>2. GetBlock(x, x.inodes[p], j) = RefMap(x)[<<p, j>>]
      BY <1>5, <1>12, <2>1, FullListed
    <3>3. j \in 0 .. Table
      BY <1>9, <2>1, <3>1
    <3> HIDE DEF j
    <3>4. QED
      BY <1>8, <3>1, <3>2, <3>3 DEF j
  <2>3. Entry(x, p, k) = Entry(d, p, k)
    BY <1>5, <2>2 DEF Entry
  <2>4. Entry(x, p, k).inode # 0
    BY <2>1, <2>3, Constants
  <2>5. QED
    BY <1>5, <1>12, <2>1, <2>3, <2>4, FullListed
<1>14. size \in Listed(x, p) /\ Entry(x, p, size) = e
  <2>1. size < x.inodes[p].size /\ fb \in 0 .. fb
    BY <1>1, <1>5
  <2>2. GetBlock(x, x.inodes[p], fb) # 0
    <3>1. \A j \in 0 .. fb : RefMap(x)[<<p, j>>] # 0 /\ GetBlock(x, x.inodes[p], j) = RefMap(x)[<<p, j>>]
      BY <1>1, <1>5, <1>12, <2>1, FullListed
    <3>2. QED
      BY <2>1, <3>1
  <2>3. GetBlock(x, x.inodes[p], fb) = GetBlock(d, w.inode, fb)
    BY <1>2, <1>5 DEF GetBlock
  <2>4. Entry(x, p, size) = e
    BY <1>5, <2>2, <2>3 DEF Entered, Entry
  <2>5. Entry(x, p, size).inode # 0
    BY <2>4, Constants DEF NewEntry
  <2>6. QED
    BY <1>1, <1>5, <1>12, <2>1, <2>4, <2>5, FullListed
<1>15. \A i \in Inodes : Children(d, i) \subseteq Children(x, i)
  <2>1. Children(d, p) \subseteq Children(x, p)
    BY <1>5, <1>13 DEF Children
  <2>2. QED
    BY <1>6, <2>1
<1>16. e.inode \in Children(x, p)
  BY <1>5, <1>14 DEF Children
<1>17. 0 \notin Inodes /\ Reachable(d) \subseteq Inodes
  BY <1>1, ReachableInodes, Constants
<1>18. Reachable(d) \subseteq Reachable(x)
  <2>1. Reachable(d) \ {0} \subseteq Reachable(x)
    BY <1>1, <1>5, <1>15, <1>17, ReachMore
  <2>2. QED
    BY <1>17, <2>1
<1>19. p \in Reachable(x)
  <2>1. p \in Live(d) \ {e.inode}
    BY DEF Live, NewEntry, IsDir
  <2>2. QED
    BY <1>18, <2>1 DEF Whole
<1>20. e.inode \in Reachable(x)
  BY <1>5, <1>16, <1>19, ReachClosed
<1>21. Live(x) = Live(d)
  BY <1>5 DEF Live
<1>22. Whole(x, 0)
  BY <1>12, <1>18, <1>20, <1>21 DEF Whole
<1>23. QED
  BY <1>22 DEF x, n

\* And the disk is sound.
LEMMA SoundAppended ==
  ASSUME NEW p \in Inodes, NEW w, Growing(w, p), IsDir(w.disk, p), w.disk.inodes[p].size < MaxEntries,
         NEW e, NewEntry(w.disk, p, e), Entered(w, p, e)
  PROVE  Sound([w.disk EXCEPT !.inodes[p] = Longer(w.inode)], 0)
<1> DEFINE d == w.disk
           n == Longer(w.inode)
           x == [d EXCEPT !.inodes[p] = n]
           size == d.inodes[p].size
           fb == BlockOf(size)
<1>1. w \in Contexts /\ d \in Disk /\ w.inode \in Inode /\ d.inodes[p] \in Inode /\ size \in Nat
      /\ w.inode.size = size /\ w.inode.type = d.inodes[p].type /\ fb \in Nat /\ Sound(d, 0)
  BY EntryPlaces DEF Growing, Contexts, Disk, Inode
<1>2. n \in Inode /\ n.size = size + 1 /\ n.direct = w.inode.direct /\ n.indirect = w.inode.indirect
      /\ n.type = w.inode.type
  BY <1>1 DEF Longer, Inode
<1>3. InodeImaged(d, p, n, x)
  BY <1>1, <1>2, InodeImage
<1>4. RefMap(x) = RefMap(Eff(w, p)) /\ x.bitmap = w.ram.bitmap
  <2> HIDE DEF n
  <2> DEFINE a == [w EXCEPT !.inode = n]
  <2>1. a \in Contexts /\ a.disk = d /\ a.inode = n
    BY <1>1, <1>2 DEF Contexts
  <2>2. Eff(a, p) = x
    BY <2>1 DEF Eff
  <2>3. RefMap(Eff(a, p)) = RefMap(Eff(w, p))
    <3> HIDE DEF a
    <3>1. QED
      BY <1>1, <1>2, <2>1, EffSamePointers
  <2>4. x.bitmap = d.bitmap
    BY <1>1 DEF Disk
  <2>5. QED
    BY <2>2, <2>3, <2>4 DEF Growing, LogOK
<1> HIDE DEF x, n
<1>5. x \in Disk /\ x.inodes[p] = n
  BY <1>3 DEF InodeImaged
<1>6. OwnedIn(RefMap(x), x.bitmap, 0)
  BY <1>4 DEF Growing
<1>7. \A i \in Inodes : x.inodes[i].type = d.inodes[i].type /\ (IsDir(x, i) <=> IsDir(d, i))
  BY <1>1, <1>2, <1>3 DEF InodeImaged, IsDir
<1>8. ASSUME NEW i \in Inodes, i # p
      PROVE  /\ x.inodes[i] = d.inodes[i] /\ Listed(x, i) = Listed(d, i)
             /\ \A k \in Listed(d, i) : Entry(x, i, k) = Entry(d, i, k)
             /\ \A f \in 0 .. Table : RefMap(x)[<<i, f>>] = RefMap(d)[<<i, f>>]
  BY <1>3, <1>8 DEF InodeImaged
<1>9. ASSUME NEW i \in Inodes, IsDir(x, i), NEW k \in Listed(x, i)
      PROVE  /\ IsDir(d, i)
             /\ \/ i = p /\ k = size /\ Entry(x, i, k) = e
                \/ /\ k \in Listed(d, i) /\ Entry(x, i, k) = Entry(d, i, k)
                   /\ Entry(d, i, k).inode \in Inodes /\ Entry(d, i, k).inode # e.inode
  <2>1. IsDir(d, i)
    BY <1>7, <1>9
  <2>2. \/ i = p /\ k = size /\ Entry(x, i, k) = e
        \/ k \in Listed(d, i) /\ Entry(x, i, k) = Entry(d, i, k)
    <3>1. CASE i = p
      BY <1>3, <1>9, <3>1, AppendedListing DEF n
    <3>2. CASE i # p
      BY <1>8, <1>9, <3>2
    <3>3. QED
      BY <3>1, <3>2
  <2>3. k \in Listed(d, i) => Entry(d, i, k).inode \in Inodes /\ Entry(d, i, k).inode # e.inode
    BY <1>1, <2>1, ListedAt DEF NewEntry, Unlisted
  <2>4. QED
    BY <2>1, <2>2, <2>3
<1>10. NamedOK(x, 0)
  <2>1. SUFFICES ASSUME NEW i \in Inodes, IsDir(x, i), NEW k \in Listed(x, i)
                 PROVE  LET de == Entry(x, i, k) IN
                        /\ de.inode # Root /\ de.type # "FREE"
                        /\ de.inode # 0 => de.type = x.inodes[de.inode].type
    BY DEF NamedOK
  <2>2. CASE Entry(x, i, k) = e
    BY <1>7, <2>2 DEF NewEntry
  <2>3. CASE k \in Listed(d, i) /\ Entry(x, i, k) = Entry(d, i, k) /\ Entry(d, i, k).inode \in Inodes
    <3>1. LET de == Entry(d, i, k) IN
          /\ de.inode # Root /\ de.type # "FREE"
          /\ de.inode # 0 => de.type = d.inodes[de.inode].type
      BY <1>1, <1>7, <2>1, <2>3 DEF Sound, NamedOK
    <3>2. QED
      BY <1>7, <2>3, <3>1
  <2>4. QED
    BY <1>9, <2>1, <2>2, <2>3
<1>11. NamedOnce(x)
  <2>1. SUFFICES ASSUME NEW i \in Inodes, NEW j \in Inodes, IsDir(x, i), IsDir(x, j),
                        NEW k \in Listed(x, i), NEW l \in Listed(x, j),
                        Entry(x, i, k).inode = Entry(x, j, l).inode
                 PROVE  i = j /\ k = l
    BY DEF NamedOnce
  <2>2. /\ IsDir(d, i)
        /\ \/ i = p /\ k = size /\ Entry(x, i, k) = e
           \/ /\ k \in Listed(d, i) /\ Entry(x, i, k) = Entry(d, i, k)
              /\ Entry(d, i, k).inode # e.inode
    BY <1>9, <2>1
  <2>3. /\ IsDir(d, j)
        /\ \/ j = p /\ l = size /\ Entry(x, j, l) = e
           \/ /\ l \in Listed(d, j) /\ Entry(x, j, l) = Entry(d, j, l)
              /\ Entry(d, j, l).inode # e.inode
    BY <1>9, <2>1
  <2>4. \A kk \in Listed(d, i), ll \in Listed(d, j) :
          Entry(d, i, kk).inode = Entry(d, j, ll).inode => i = j /\ kk = ll
    BY <1>1, <2>2, <2>3 DEF Sound, NamedOnce
  <2>5. QED
    BY <2>1, <2>2, <2>3, <2>4
<1>12. DirsOK(x)
  <2>1. SUFFICES ASSUME NEW i \in Inodes, IsDir(x, i) PROVE x.inodes[i].size <= MaxEntries /\ NoHole(x, i)
    BY DEF DirsOK
  <2>2. CASE i = p
    <3>1. x.inodes[i].size <= MaxEntries
      BY <1>1, <1>2, <1>5, <2>2, Constants
    <3>2. NoHole(x, i)
      <4>1. SUFFICES ASSUME n.indirect # 0, (size + 1) % EntriesPerBlock # 0,
                            ~(BlockOf(size + 1) < NDirect), BlockOf(size + 1) < Table
                     PROVE  RefMap(x)[<<p, BlockOf(size + 1)>>] # 0
        BY <1>2, <1>5, <2>2 DEF NoHole
      <4>2. BlockOf(size + 1) = fb
        BY <1>1, <4>1, EntryPlaces
      <4>3. QED
        BY <1>2, <1>4, <4>1, <4>2 DEF Entered
    <3>3. QED
      BY <3>1, <3>2
  <2>3. CASE i # p
    <3>1. d.inodes[i].size <= MaxEntries /\ NoHole(d, i) /\ x.inodes[i] = d.inodes[i]
      BY <1>1, <1>7, <1>8, <2>1, <2>3 DEF Sound, DirsOK
    <3>2. d.inodes[i].size \in Nat
      BY <1>1 DEF Disk, Inode
    <3>3. BlockOf(d.inodes[i].size) \in Nat
      BY <3>2, EntryPlaces
    <3>4. BlockOf(d.inodes[i].size) < Table => BlockOf(d.inodes[i].size) \in 0 .. Table
      BY <3>3, Constants DEF Table
    <3>5. NoHole(x, i)
      BY <1>8, <2>3, <3>1, <3>4 DEF NoHole
    <3>6. QED
      BY <3>1, <3>5
  <2>4. QED
    BY <2>2, <2>3
<1>13. x.inodes[Root].type = "DIR"
  BY <1>1, <1>7, Constants DEF Sound
<1>14. Sound(x, 0)
  BY <1>5, <1>6, <1>10, <1>11, <1>12, <1>13 DEF Sound
<1>15. QED
  BY <1>14 DEF x, n

\* The entry goes into a block the directory has ...
LEMMA EnteredOld ==
  ASSUME NEW p \in Inodes, NEW c, Growing(c, p), c.inode = c.disk.inodes[p],
         NEW e \in DirEntry, NEW fb, fb = BlockOf(c.disk.inodes[p].size),
         NEW b, b = GetBlock(c.disk, c.inode, fb), b # 0
  PROVE  LET w == WriteBlock(c, b, [c.disk.blocks[b] EXCEPT !.entries[SlotOf(c.disk.inodes[p].size)] = e])
         IN  Grows(c, w, p) /\ Entered(w, p, e) /\ Tightens(c, w, p)
<1> DEFINE size == c.disk.inodes[p].size
           m == SlotOf(size)
           content == [c.disk.blocks[b] EXCEPT !.entries[m] = e]
           w == WriteBlock(c, b, content)
<1>1. c \in Contexts /\ c.disk \in Disk /\ c.inode \in Inode /\ size \in Nat /\ fb \in Nat
      /\ m \in 1 .. EntriesPerBlock
  BY EntryPlaces DEF Growing, Contexts, Disk, Inode
<1>2. b \in Blocks /\ fb < Table /\ RefMap(Eff(c, p))[<<p, fb>>] = b /\ Held(RefMap(Eff(c, p)), b, p, fb)
  BY <1>1, HeldHere
<1> HIDE DEF m
<1>3. /\ content \in Content /\ content.entries[m] = e
      /\ \A k \in 1 .. EntriesPerBlock : k # m => content.entries[k] = c.disk.blocks[b].entries[k]
  <2>1. c.disk.blocks[b] \in Content
    BY <1>1, <1>2 DEF Disk
  <2>2. QED
    BY <1>1, <2>1 DEF Content
<1> HIDE DEF content
<1>4. Leaves(c, w, [c.disk EXCEPT !.blocks[b] = content]) /\ w.ram = c.ram
  BY <1>1, <1>2, <1>3, WritesLeave
<1> HIDE DEF w
<1>5. ASSUME NEW k \in Nat, k < size, GetBlock(c.disk, c.disk.inodes[p], BlockOf(k)) = b
      PROVE  content.entries[SlotOf(k)] = c.disk.blocks[b].entries[SlotOf(k)]
  <2>1. BlockOf(k) = fb
    BY <1>1, <1>2, <1>5, HeldAt
  <2>2. SlotOf(k) # m /\ SlotOf(k) \in 1 .. EntriesPerBlock
    BY <1>1, <1>5, <2>1, EntryPlaces DEF m
  <2>3. QED
    BY <1>3, <2>2
<1>6. Grows(c, w, p) /\ RefMap(Eff(w, p)) = RefMap(Eff(c, p))
  BY <1>1, <1>2, <1>3, <1>4, <1>5, GrowContent
<1>7. /\ w \in Contexts /\ w.disk \in Disk /\ w.disk.inodes = c.disk.inodes /\ w.inode = c.inode
      /\ w.disk.blocks[b] = content
  <2>1. w.inode = c.inode /\ w.disk = [c.disk EXCEPT !.blocks[b] = content]
    BY <1>4 DEF Leaves
  <2>2. w \in Contexts /\ w.disk \in Disk /\ w.disk.inodes = c.disk.inodes
    BY <1>6 DEF Grows, Growing, Contexts
  <2>3. w.disk.blocks[b] = content
    BY <1>1, <1>2, <2>1 DEF Disk
  <2>4. QED
    BY <2>1, <2>2, <2>3
<1>8. GetBlock(w.disk, w.inode, fb) = b
  <2>1. fb \in 0 .. Table /\ GetBlock(w.disk, w.inode, fb) = OwnedBlock(w.disk, w.inode, fb)
    BY <1>1, <1>2, <1>7, GetBlockPlace
  <2>2. RefMap(Eff(w, p))[<<p, fb>>] = OwnedBlock(w.disk, w.inode, fb)
    BY <1>7, <2>1, EffFacts
  <2>3. QED
    BY <1>2, <1>6, <2>1, <2>2
<1>9. \A f \in 0 .. Table : RefMap(Eff(w, p))[<<p, f>>] = RefMap(w.disk)[<<p, f>>]
  <2>1. SUFFICES ASSUME NEW f \in 0 .. Table
                 PROVE  RefMap(Eff(w, p))[<<p, f>>] = RefMap(w.disk)[<<p, f>>]
    OBVIOUS
  <2>2. RefMap(Eff(w, p))[<<p, f>>] = OwnedBlock(w.disk, w.inode, f)
    BY <1>7, EffFacts
  <2>3. RefMap(w.disk)[<<p, f>>] = OwnedBlock(w.disk, w.disk.inodes[p], f)
    BY <1>7, RefMapFacts
  <2>4. QED
    BY <1>7, <2>2, <2>3
<1>10. Entered(w, p, e)
  <2>1. w.disk.inodes[p].size = size /\ GetBlock(w.disk, w.disk.inodes[p], fb) = b
    BY <1>7, <1>8
  <2>2. w.disk.blocks[b].entries[SlotOf(size)] = e
    BY <1>3, <1>7 DEF m
  <2>3. fb < Table /\ RefMap(Eff(w, p))[<<p, fb>>] # 0
    BY <1>2, <1>6
  <2>4. QED
    BY <1>2, <1>6, <1>8, <1>9, <2>1, <2>2, <2>3 DEF Entered
<1>11. Tightens(c, w, p)
  BY <1>1, <1>2, <1>3, <1>4, <1>6, TightensWrite
<1>12. QED
  BY <1>6, <1>10, <1>11 DEF w, content, m

\* ... or into a new one.
LEMMA EnteredNew ==
  ASSUME NEW p \in Inodes, NEW c, Growing(c, p), c.inode = c.disk.inodes[p], IsDir(c.disk, p),
         NEW e \in DirEntry, NEW fb, fb = BlockOf(c.disk.inodes[p].size),
         GetBlock(c.disk, c.inode, fb) = 0,
         NEW b \in Blocks, NEW g, NewBlock(c, g, p, fb, b)
  PROVE  LET w == WriteBlock(g, b, [ZeroBlock EXCEPT !.entries[SlotOf(c.disk.inodes[p].size)] = e])
         IN  Grows(c, w, p) /\ Entered(w, p, e) /\ Tightens(c, w, p)
<1> DEFINE size == c.disk.inodes[p].size
           m == SlotOf(size)
           content == [ZeroBlock EXCEPT !.entries[m] = e]
           w == WriteBlock(g, b, content)
<1>1. c \in Contexts /\ c.disk \in Disk /\ c.inode \in Inode /\ size \in Nat /\ fb \in Nat
      /\ m \in 1 .. EntriesPerBlock /\ b # 0 /\ Sound(c.disk, 0)
  BY EntryPlaces, Constants DEF Growing, Contexts, Disk, Inode
<1> HIDE DEF m
<1>2. /\ content \in Content /\ content.entries[m] = e
      /\ \A k \in 1 .. EntriesPerBlock : k # m => content.entries[k].inode = 0
  BY <1>1, ZeroTypes DEF Content, ZeroBlock, NoEntry
<1> HIDE DEF content
<1>3. /\ Grows(c, g, p) /\ Growing(g, p) /\ g \in Contexts /\ g.disk \in Disk /\ g.inode \in Inode
      /\ g.disk.inodes = c.disk.inodes /\ Held(RefMap(Eff(g, p)), b, p, fb)
  BY DEF NewBlock, Grows, Growing, Contexts
<1>4. Leaves(g, w, [g.disk EXCEPT !.blocks[b] = content]) /\ w.ram = g.ram
  BY <1>2, <1>3, WritesLeave
<1> HIDE DEF w
<1>5. ASSUME NEW k \in Nat, k < size, GetBlock(g.disk, g.disk.inodes[p], BlockOf(k)) = b
      PROVE  FALSE
  <2>1. BlockOf(k) = fb /\ fb < Table
    <3>1. BlockOf(k) \in Nat /\ g.disk.inodes[p] \in Inode
      BY <1>3, EntryPlaces DEF Disk
    <3>2. BlockOf(k) < Table
      BY <1>1, <1>3, <1>5, <3>1, GetBlockPlace
    <3>3. QED
      BY <1>1, <1>3, <1>5, <3>2, HeldAt
  <2>2. size % EntriesPerBlock # 0
    BY <1>1, <1>5, <2>1, EntryPlaces
  <2>3. ~(c.inode.indirect # 0 /\ ~(fb < NDirect))
    <3>1. NoHole(c.disk, p)
      BY <1>1 DEF Sound, DirsOK
    <3>2. RefMap(c.disk)[<<p, fb>>] = 0
      <4>1. fb \in 0 .. Table
        BY <1>1, <2>1, Constants DEF Table
      <4>2. RefMap(c.disk)[<<p, fb>>] = OwnedBlock(c.disk, c.inode, fb)
        BY <1>1, <4>1, RefMapFacts
      <4>3. QED
        BY <1>1, <2>1, <4>2, GetBlockPlace
    <3>3. QED
      BY <2>1, <2>2, <3>1, <3>2 DEF NoHole
  <2>4. GetBlock(g.disk, c.inode, fb) = 0
    BY <2>3 DEF GetBlock
  <2>5. QED
    BY <1>1, <1>3, <1>5, <2>1, <2>4
<1>6. Grows(g, w, p) /\ RefMap(Eff(w, p)) = RefMap(Eff(g, p))
  <2>1. \A k \in Nat : k < g.disk.inodes[p].size /\ GetBlock(g.disk, g.disk.inodes[p], BlockOf(k)) = b
          => content.entries[SlotOf(k)] = g.disk.blocks[b].entries[SlotOf(k)]
    BY <1>3, <1>5
  <2>2. QED
    BY <1>1, <1>2, <1>3, <1>4, <2>1, GrowContent
<1>7. /\ w \in Contexts /\ w.disk \in Disk /\ w.disk.inodes = c.disk.inodes /\ w.inode = g.inode
      /\ w.disk.blocks[b] = content /\ Growing(w, p)
  <2>1. w.inode = g.inode /\ w.disk = [g.disk EXCEPT !.blocks[b] = content]
    BY <1>4 DEF Leaves
  <2>2. w \in Contexts /\ w.disk \in Disk /\ w.disk.inodes = c.disk.inodes /\ Growing(w, p)
    BY <1>3, <1>6 DEF Grows, Growing, Contexts
  <2>3. w.disk.blocks[b] = content
    BY <1>3, <2>1 DEF Disk
  <2>4. QED
    BY <2>1, <2>2, <2>3
<1>8. Grows(c, w, p)
  BY <1>3, <1>6, GrowsTrans
<1>9. ASSUME NEW f \in 0 .. Table, f < fb, f # Table
      PROVE  RefMap(Eff(w, p))[<<p, f>>] = RefMap(w.disk)[<<p, f>>]
  <2>1. f # fb /\ <<p, f>> \in Places
    BY <1>1, <1>9 DEF Places
  <2>2. RefMap(Eff(w, p))[<<p, f>>] = RefMap(Eff(c, p))[<<p, f>>]
    BY <1>6, <1>9, <2>1 DEF NewBlock
  <2>3. RefMap(Eff(c, p))[<<p, f>>] = RefMap(c.disk)[<<p, f>>]
    BY <1>1, EffFacts, RefMapFacts
  <2>4. Within(RefMap(c.disk), RefMap(w.disk)) /\ Within(RefMap(w.disk), RefMap(Eff(w, p)))
    BY <1>7, <1>8 DEF Grows, Growing
  <2>5. QED
    BY <2>1, <2>2, <2>3, <2>4 DEF Within
<1>10. fb < Table => RefMap(Eff(w, p))[<<p, fb>>] = GetBlock(w.disk, w.inode, fb)
  <2>1. SUFFICES ASSUME fb < Table PROVE RefMap(Eff(w, p))[<<p, fb>>] = GetBlock(w.disk, w.inode, fb)
    OBVIOUS
  <2>2. w.inode \in Inode
    BY <1>3, <1>7
  <2>3. fb \in 0 .. Table /\ GetBlock(w.disk, w.inode, fb) = OwnedBlock(w.disk, w.inode, fb)
    BY <1>1, <1>7, <2>1, <2>2, GetBlockPlace
  <2>4. QED
    BY <1>7, <2>3, EffFacts
<1>11. GetBlock(w.disk, w.inode, fb) # 0 => GetBlock(w.disk, w.inode, fb) = b
  <2>1. SUFFICES ASSUME GetBlock(w.disk, w.inode, fb) # 0 PROVE GetBlock(w.disk, w.inode, fb) = b
    OBVIOUS
  <2>2. fb < NDirect \/ g.inode.indirect # 0
    BY <1>7, <2>1 DEF GetBlock
  <2>3. fb < Table
    BY <1>1, <1>3, <1>7, <2>1, GetBlockPlace
  <2>4. QED
    BY <1>6, <1>10, <2>2, <2>3 DEF NewBlock
<1>12. Entered(w, p, e)
  <2>1. w.disk.inodes[p].size = size /\ w.disk.blocks[b].entries[SlotOf(size)] = e
    BY <1>2, <1>7 DEF m
  <2>2. ASSUME NEW k \in Nat, k < size, BlockOf(k) = fb
        PROVE  w.disk.blocks[b].entries[SlotOf(k)].inode = 0
    <3>1. SlotOf(k) # m /\ SlotOf(k) \in 1 .. EntriesPerBlock
      BY <1>1, <2>2, EntryPlaces DEF m
    <3>2. QED
      BY <1>2, <1>7, <3>1
  <2>3. w.inode.indirect # 0 /\ ~(fb < NDirect) /\ fb < Table => RefMap(Eff(w, p))[<<p, fb>>] # 0
    BY <1>1, <1>6, <1>7 DEF NewBlock
  <2>4. "blocks" \notin w.lost => fb < Table /\ RefMap(Eff(w, p))[<<p, fb>>] # 0
    <3>1. w.lost = g.lost
      BY <1>4 DEF Leaves
    <3>2. QED
      BY <1>1, <1>6, <3>1 DEF NewBlock
  <2>5. QED
    BY <1>9, <1>11, <2>1, <2>2, <2>3, <2>4 DEF Entered
<1>13. Tightens(c, w, p)
  <2>1. Tightens(c, g, p)
    BY DEF NewBlock
  <2>2. Tightens(g, w, p)
    BY <1>2, <1>3, <1>4, <1>6, TightensWrite
  <2>3. QED
    BY <1>3, <2>1, <2>2, TightensTrans
<1>14. QED
  BY <1>8, <1>12, <1>13 DEF w, content, m

\* Nothing leaks that is not ino's, and of ino nothing is marked.
TightBut(d, ino) ==
  /\ \A b \in d.bitmap : \E q \in Places : q[1] # ino /\ RefMap(d)[q] = b
  /\ \A i \in Inodes \ {ino} :
       /\ d.inodes[i].block_count = Cardinality(DataOf(RefMap(d), i))
       /\ d.inodes[i].type = "FREE" => \A f \in 0 .. Table : RefMap(d)[<<i, f>>] = 0

\* Such an inode leaks none of its blocks when it is made anew.
LEMMA TightReplaced ==
  ASSUME NEW d, NEW v, NEW ino \in Inodes, NEW n, n.block_count = 0, NEW e, Replaced(d, v, ino, n, e),
         TightBut(d, ino)
  PROVE  Tight(e)
<1>1. /\ e.bitmap = d.bitmap /\ e.inodes[ino] = n
      /\ \A i \in Inodes \ {ino} : e.inodes[i] = d.inodes[i]
      /\ \A i \in Inodes, f \in 0 .. Table :
           RefMap(e)[<<i, f>>] = IF i = ino THEN 0 ELSE RefMap(d)[<<i, f>>]
  BY DEF Replaced
<1>2. ASSUME NEW b \in e.bitmap PROVE \E q \in Places : RefMap(e)[q] = b
  <2>1. PICK q \in Places : q[1] # ino /\ RefMap(d)[q] = b
    BY <1>1 DEF TightBut
  <2>2. PICK i \in Inodes, f \in 0 .. Table : q = <<i, f>>
    BY DEF Places
  <2>3. RefMap(e)[q] = b
    BY <1>1, <2>1, <2>2
  <2>4. QED
    BY <2>3
<1>3. ASSUME NEW i \in Inodes
      PROVE  /\ e.inodes[i].block_count = Cardinality(DataOf(RefMap(e), i))
             /\ e.inodes[i].type = "FREE" => \A f \in 0 .. Table : RefMap(e)[<<i, f>>] = 0
  <2>1. CASE i = ino
    <3>1. DataOf(RefMap(e), i) = {}
      BY <1>1, <2>1, Constants DEF DataOf, Table
    <3>2. QED
      BY <1>1, <2>1, <3>1, FS_EmptySet
  <2>2. CASE i # ino
    <3>1. DataOf(RefMap(e), i) = DataOf(RefMap(d), i)
      BY <1>1, <2>2, Constants DEF DataOf, Table
    <3>2. QED
      BY <1>1, <2>2, <3>1 DEF TightBut
  <2>3. QED
    BY <2>1, <2>2
<1>4. QED
  BY <1>2, <1>3 DEF Tight

\* Nor does one that is free, and has none.
LEMMA TightMade ==
  ASSUME NEW d \in Disk, Tight(d), NEW v, NEW ino \in Inodes, NEW n, n.block_count = 0,
         NEW e, Replaced(d, v, ino, n, e), \A f \in 0 .. Table : RefMap(d)[<<ino, f>>] = 0
  PROVE  Tight(e)
<1>1. ASSUME NEW b \in d.bitmap PROVE \E q \in Places : q[1] # ino /\ RefMap(d)[q] = b
  <2>1. PICK q \in Places : RefMap(d)[q] = b
    BY DEF Tight
  <2>2. PICK i \in Inodes, f \in 0 .. Table : q = <<i, f>>
    BY DEF Places
  <2>3. b # 0
    BY Constants DEF Disk
  <2>4. q[1] # ino
    BY <2>1, <2>2, <2>3
  <2>5. QED
    BY <2>1, <2>4
<1>2. TightBut(d, ino)
  BY <1>1 DEF Tight, TightBut
<1>3. QED
  BY <1>2, TightReplaced

\* The second half of create: without a block for the entry the inode is given back.
LEMMA AppendEntrySound ==
  ASSUME NEW p \in Inodes, NEW c \in Contexts, LogOK(c, 0), Sound(c.disk, 0), IsDir(c.disk, p),
         c.disk.inodes[p].size < MaxEntries, NEW e, NewEntry(c.disk, p, e),
         \A x \in 0 .. Table : RefMap(c.disk)[<<e.inode, x>>] = 0, Children(c.disk, e.inode) = {}
  PROVE  /\ Done(AppendEntry(c, p, e), 0)
         /\ LeakFree(c, AppendEntry(c, p, e))
         /\ Whole(c.disk, e.inode) /\ "blocks" \notin AppendEntry(c, p, e).lost =>
              Whole(AppendEntry(c, p, e).disk, 0)
         /\ Counted(c) => Counted(AppendEntry(c, p, e))
<1> DEFINE old == c.disk.inodes[p]
           k == old.size
           fb == BlockOf(k)
           b == GetBlock(c.disk, old, fb)
           b1 == IF b = 0 THEN NextBlock(c) ELSE b
           c0 == [c EXCEPT !.inode = old]
           grown == IF b # 0 THEN c0 ELSE Grow(AllocBlock(c0), fb, b1)
           was == IF b = 0 THEN ZeroBlock ELSE grown.disk.blocks[b]
           w == WriteBlock(grown, b1, [was EXCEPT !.entries[SlotOf(k)] = e])
           z == WriteInode(w, p, Longer(w.inode))
           f == FreeInode(c0, e.inode)
<1>1. AppendEntry(c, p, e) = IF b1 = 0 THEN f ELSE z
  BY DEF AppendEntry, Longer
<1>2. /\ c0 \in Contexts /\ c0.disk = c.disk /\ c0.log = c.log /\ c0.ram = c.ram /\ c0.inode = old
      /\ old \in Inode /\ k \in Nat /\ fb \in Nat /\ c.disk \in Disk /\ c0.lost = c.lost
  BY EntryPlaces DEF Contexts, Disk, Inode
<1>3. NextBlock(c0) = NextBlock(c)
  BY <1>2 DEF NextBlock
<1>4. LogOK(c0, 0) /\ e \in DirEntry /\ e.inode \in Inodes /\ e.inode # Root /\ Unlisted(c.disk, e.inode)
  BY <1>2 DEF LogOK, NewEntry
<1>5. Growing(c0, p) /\ RefMap(Eff(c0, p)) = RefMap(c.disk) /\ Eff(c0, p) = c.disk
  <2> HIDE DEF c0
  <2>1. QED
    BY <1>2, StartGrows
<1> HIDE DEF c0
<1>6. CASE b1 = 0
  <2> DEFINE d == [c0.disk EXCEPT !.inodes[e.inode] = ZeroInode]
  <2>1. Leaves(c0, f, d) /\ f.ram.bitmap = c0.ram.bitmap
    BY <1>2, <1>4, FreeInodeFacts
  <2>2. Blank(ZeroInode)
    BY ZeroTypes DEF Blank, ZeroInode
  <2>3. Replaced(c0.disk, 0, e.inode, ZeroInode, d)
    BY <1>2, <1>4, <2>2, SoundReplaced
  <2> HIDE DEF d, f
  <2>4. f.ram.bitmap = d.bitmap /\ Sound(d, 0)
    BY <1>4, <2>1, <2>3 DEF LogOK, Replaced
  <2>5. LogOK(f, 0)
    BY <1>2, <1>4, <2>1, <2>4, LogImage
  <2>6. f \in Contexts /\ f.disk = d
    BY <2>1 DEF Leaves
  <2>7. Counted(c) => Counted(f)
    <3>1. c0.disk.inodes[e.inode].type # "FREE"
      BY <1>2 DEF NewEntry
    <3>2. Counted(c0) => Counted(f)
      BY <1>2, <1>4, <3>1, FreeInodeCounts DEF f
    <3>3. Counted(c) => Counted(c0)
      BY <1>2 DEF Counted, BlocksCounted, InodesCounted
    <3>4. QED
      BY <3>2, <3>3
  <2>8. LeakFree(c, f)
    <3>1. SUFFICES ASSUME Tight(c.disk) PROVE Tight(d)
      BY <2>6 DEF LeakFree
    <3>2. ZeroInode.block_count = 0
      BY DEF ZeroInode
    <3>3. \A x \in 0 .. Table : RefMap(c0.disk)[<<e.inode, x>>] = 0
      BY <1>2
    <3>4. Tight(c0.disk) /\ c0.disk \in Disk
      BY <1>2, <3>1
    <3>5. QED
      BY <1>4, <2>3, <3>2, <3>3, <3>4, TightMade
  <2>9. Whole(c.disk, e.inode) => Whole(f.disk, 0)
    <3>1. SUFFICES ASSUME Whole(c.disk, e.inode) PROVE Whole(d, 0)
      BY <2>6
    <3>2. Whole(c0.disk, e.inode) /\ Children(c0.disk, e.inode) = {} /\ c0.disk \in Disk
      BY <1>2, <3>1
    <3>3. Whole(d, e.inode)
      BY <1>4, <2>2, <2>3, <3>2, WholeReplaced
    <3>4. d.inodes[e.inode].type = "FREE"
      BY <2>3 DEF Replaced, ZeroInode
    <3>5. QED
      BY <3>3, <3>4, WholeFree
  <2>10. QED
    BY <1>1, <1>6, <2>4, <2>5, <2>6, <2>7, <2>8, <2>9 DEF Done
<1>7. CASE b1 # 0
  <2>1. Grows(c0, w, p) /\ Entered(w, p, e) /\ Tightens(c0, w, p)
    <3>1. CASE b # 0
      <4> DEFINE w0 == WriteBlock(c0, b, [c0.disk.blocks[b] EXCEPT !.entries[SlotOf(c0.disk.inodes[p].size)] = e])
      <4>1. Grows(c0, w0, p) /\ Entered(w0, p, e) /\ Tightens(c0, w0, p)
        BY <1>2, <1>4, <1>5, <3>1, EnteredOld
      <4>2. w = w0
        BY <1>2, <3>1
      <4>3. QED
        BY <4>1, <4>2, Zenon
    <3>2. CASE b = 0
      <4> DEFINE n == NextBlock(c0)
                 g == Grow(AllocBlock(c0), fb, n)
                 w0 == WriteBlock(g, n, [ZeroBlock EXCEPT !.entries[SlotOf(c0.disk.inodes[p].size)] = e])
      <4>1. b1 = n /\ n # 0
        BY <1>3, <1>7, <3>2
      <4>2. Room(c0, p, fb)
        <5>1. SUFFICES ASSUME ~(fb < NDirect), fb < Table, old.indirect # 0, NEW l \in Nat, l < k
                       PROVE  BlockOf(l) < fb
          BY <1>2 DEF Room
        <5>2. NoHole(c.disk, p)
          BY DEF Sound, DirsOK
        <5>3. RefMap(c.disk)[<<p, fb>>] = 0
          BY <1>2, <1>5, <3>2, <5>1, NoneHere
        <5>4. k % EntriesPerBlock = 0
          BY <5>1, <5>2, <5>3 DEF NoHole
        <5>5. QED
          BY <1>2, <5>1, <5>4, EntryPlaces
      <4>3. NewBlock(c0, g, p, fb, n) /\ n \in Blocks
        BY <1>2, <1>5, <3>2, <4>1, <4>2, GrowNew
      <4>4. w = w0
        <5>1. grown = g /\ was = ZeroBlock
          BY <3>2, <4>1
        <5> HIDE DEF grown, was, g, n, b1
        <5>2. QED
          BY <1>2, <4>1, <5>1
      <4>5. Grows(c0, w0, p) /\ Entered(w0, p, e) /\ Tightens(c0, w0, p)
        <5> HIDE DEF g, n
        <5>1. QED
          BY <1>2, <1>4, <1>5, <3>2, <4>3, EnteredNew
      <4>6. QED
        BY <4>4, <4>5, Zenon
    <3>3. QED
      BY <3>1, <3>2
  <2> HIDE DEF w
  <2>2. /\ Growing(w, p) /\ w \in Contexts /\ w.disk \in Disk /\ w.inode \in Inode /\ LogOK(w, 0)
        /\ w.disk.inodes = c.disk.inodes /\ NamesKept(c.disk, w.disk)
    BY <1>2, <2>1 DEF Grows, Growing, Contexts
  <2>3. IsDir(w.disk, p) /\ w.disk.inodes[p].size < MaxEntries /\ NewEntry(w.disk, p, e)
    BY <2>2 DEF IsDir, NewEntry, Unlisted, NamesKept
  <2> DEFINE d == [w.disk EXCEPT !.inodes[p] = Longer(w.inode)]
  <2>4. Sound(d, 0)
    BY <2>1, <2>2, <2>3, SoundAppended
  <2>5. Longer(w.inode) \in Inode
    BY <2>2 DEF Longer, Inode
  <2>6. Leaves(w, z, d) /\ z.ram = w.ram
    BY <2>2, <2>5, WritesLeave
  <2>7. z.ram.bitmap = d.bitmap
    BY <2>2, <2>6 DEF LogOK, Disk
  <2> HIDE DEF d, z
  <2>8. LogOK(z, 0)
    BY <2>2, <2>4, <2>6, <2>7, LogImage
  <2>9. z \in Contexts /\ z.disk = d
    BY <2>6 DEF Leaves
  <2>10. Counted(c) => Counted(z)
    <3>1. BlocksKept(c0, w) /\ BlocksKept(c, c0)
      BY <1>2, <2>1, SameRam DEF Grows
    <3>2. \A i \in Inodes : d.inodes[i].type = c.disk.inodes[i].type
      BY <1>2, <2>2, <2>5 DEF d, Disk, Longer, Growing, Inode
    <3>3. z.ram = w.ram
      BY <2>6
    <3>4. QED
      BY <2>9, <3>1, <3>2, <3>3, BlocksKeptTrans, CountsEnd
  <2>11. LeakFree(c, z)
    <3>1. SUFFICES ASSUME Tight(c.disk), "blocks" \notin z.lost PROVE Tight(d)
      BY <2>9 DEF LeakFree
    <3>2. TightIn(c0, p) /\ c0.disk.inodes[p].type # "FREE"
      BY <1>2, <1>5, <3>1 DEF TightIn, IsDir
    <3>3. TightIn(w, p) /\ "blocks" \notin w.lost
      BY <2>1, <2>6, <3>1, <3>2 DEF Tightens, Leaves
    <3>4. /\ Longer(w.inode).direct = w.inode.direct /\ Longer(w.inode).indirect = w.inode.indirect
          /\ Longer(w.inode).block_count = w.inode.block_count /\ Longer(w.inode).type = w.inode.type
      BY <2>2 DEF Longer, Inode
    <3>5. QED
      BY <2>2, <2>5, <3>3, <3>4, TightEnd DEF d
  <2>12. Whole(c.disk, e.inode) /\ "blocks" \notin z.lost => Whole(z.disk, 0)
    <3>1. SUFFICES ASSUME Whole(c.disk, e.inode), "blocks" \notin z.lost PROVE Whole(d, 0)
      BY <2>9
    <3>2. "blocks" \notin w.lost
      BY <2>6, <3>1 DEF Leaves
    <3>3. Whole(c0.disk, e.inode) /\ c0.disk \in Disk
      BY <1>2, <3>1
    <3>4. Whole(w.disk, e.inode)
      BY <2>1, <2>2, <3>3, WholeGrown
    <3>5. QED
      BY <2>1, <2>2, <2>3, <3>2, <3>4, WholeAppended DEF d
  <2>13. QED
    BY <1>1, <1>7, <2>4, <2>8, <2>9, <2>10, <2>11, <2>12 DEF Done
<1>8. QED
  BY <1>6, <1>7

\* The first free inode is one.
LEMMA FirstFreeInodeFree ==
  ASSUME NEW d
  PROVE  /\ FirstFreeInode(d) \in Inodes \cup {0}
         /\ FirstFreeInode(d) # 0 => d.inodes[FirstFreeInode(d)].type = "FREE"
<1> DEFINE S == FreeInodes(d)
<1>1. CASE S = {}
  BY <1>1 DEF FirstFreeInode
<1>2. CASE S # {}
  <2>1. S \subseteq Nat /\ S \subseteq Inodes
    BY Constants DEF FreeInodes
  <2> HIDE DEF S
  <2>2. Min(S) \in S
    BY <1>2, <2>1, MinLeast
  <2>3. FirstFreeInode(d) = Min(S)
    BY <1>2 DEF FirstFreeInode, S
  <2>4. QED
    BY <2>1, <2>2, <2>3 DEF S, FreeInodes
<1>3. QED
  BY <1>1, <1>2

\* dorifs_vfs_create and dorifs_vfs_symlink leave sound images only.
LEMMA CreatedSound ==
  ASSUME NEW p \in Inodes, NEW c \in Contexts, LogOK(c, 0), Sound(c.disk, 0), IsDir(c.disk, p),
         c.disk.inodes[p].size < MaxEntries, NEW name \in Names, NEW type \in Types \ {"FREE"}
  PROVE  /\ Done(Created(c, p, name, type), 0)
         /\ LeakFree(c, Created(c, p, name, type))
         /\ OrphanFree(c, Created(c, p, name, type))
         /\ Counted(c) => Counted(Created(c, p, name, type))
<1> DEFINE ino == FirstFreeInode(c.disk)
           inode == [ZeroInode EXCEPT !.type = type, !.size = IF type = "SYMLINK" THEN 1 ELSE 0]
           t == TakeInode(c)
           made == WriteInode(t, ino, inode)
           e == [inode |-> ino, type |-> type, name |-> name]
           done == AppendEntry(made, p, e)
           leak == IF "blocks" \in done.lost THEN {"inodes"} ELSE {}
           all == [done EXCEPT !.lost = @ \cup leak]
<1>1. Created(c, p, name, type) = IF ino = 0 THEN c ELSE all
  BY DEF Created
<1>2. CASE ino = 0
  BY <1>1, <1>2 DEF Done, LeakFree, OrphanFree
<1>3. CASE ino # 0
  <2>1. ino \in Inodes /\ c.disk.inodes[ino].type = "FREE" /\ c.disk \in Disk
    BY <1>3, FirstFreeInodeFree DEF Contexts
  <2>2. Unlisted(c.disk, ino) /\ ino # Root
    BY <2>1, FreeUnlisted
  <2>3. ino # p
    BY <2>1 DEF IsDir
  <2> HIDE DEF ino
  <2>4. Minus(c.ram.sb.free_inodes, 1) \in 0 .. Word - 1
    BY CountTypes DEF Contexts, Ram, Counts
  <2>5. /\ t \in Contexts /\ t.disk = c.disk /\ t.log = c.log /\ t.ram.bitmap = c.ram.bitmap
        /\ t.ram.sb.free_blocks = c.ram.sb.free_blocks
        /\ t.ram.sb.free_inodes = Minus(c.ram.sb.free_inodes, 1) /\ t.lost = c.lost
    <3> DEFINE n == Minus(c.ram.sb.free_inodes, 1)
    <3>1. t = [c EXCEPT !.ram.sb.free_inodes = n]
      BY DEF TakeInode
    <3> HIDE DEF n, t
    <3>2. n \in 0 .. Word - 1
      BY <2>4 DEF n
    <3>3. QED
      BY <3>1, <3>2 DEF Contexts, Ram, Counts, n
  <2>6. LogOK(t, 0)
    BY <2>5 DEF LogOK
  <2> HIDE DEF t
  <2>7. Blank(inode) /\ inode.type = type /\ inode.block_count = 0
    <3>1. inode \in Inode /\ inode.type = type
      BY ZeroTypes DEF Inode
    <3>2. (\A m \in 1 .. NDirect : inode.direct[m] = 0) /\ inode.indirect = 0
          /\ (inode.type = "DIR" => inode.size = 0) /\ inode.block_count = 0
      BY DEF ZeroInode
    <3>3. QED
      BY <3>1, <3>2 DEF Blank
  <2> HIDE DEF inode
  <2> DEFINE d == [t.disk EXCEPT !.inodes[ino] = inode]
  <2>8. Replaced(t.disk, 0, ino, inode, d)
    BY <2>1, <2>2, <2>5, <2>7, SoundReplaced
  <2>9. Leaves(t, made, d) /\ made.ram = t.ram
    BY <2>1, <2>5, <2>7, WritesLeave DEF Blank
  <2> HIDE DEF d, made
  <2>10. made.ram.bitmap = d.bitmap /\ Sound(d, 0)
    BY <2>6, <2>8, <2>9 DEF LogOK, Replaced
  <2>11. made \in Contexts /\ made.disk = d /\ LogOK(made, 0)
    BY <2>5, <2>6, <2>9, <2>10, LogImage DEF Leaves
  <2>12. IsDir(d, p) /\ d.inodes[p].size < MaxEntries
    BY <2>3, <2>5, <2>8 DEF IsDir, Replaced
  <2>13. NewEntry(d, p, e)
    <3>1. e \in DirEntry
      BY <2>1 DEF DirEntry, Inodes
    <3>2. Unlisted(d, ino)
      BY <2>2, <2>5, <2>8 DEF Unlisted, IsDir, Replaced
    <3>3. QED
      BY <2>1, <2>2, <2>3, <2>7, <2>8, <3>1, <3>2 DEF NewEntry, Replaced
  <2> DEFINE rows == \A x \in 0 .. Table : RefMap(made.disk)[<<e.inode, x>>] = 0
  <2>14. rows /\ Children(made.disk, e.inode) = {}
    <3>1. Children(d, ino) = {}
      BY <2>8 DEF Replaced, Children
    <3>2. QED
      BY <2>1, <2>8, <2>11, <3>1 DEF Replaced
  <2> HIDE DEF e
  <2>15. /\ Done(done, 0) /\ (Counted(made) => Counted(done)) /\ LeakFree(made, done)
         /\ Whole(made.disk, e.inode) /\ "blocks" \notin done.lost => Whole(done.disk, 0)
    BY <2>10, <2>11, <2>12, <2>13, <2>14, AppendEntrySound
  <2> HIDE DEF done
  <2>16. /\ all \in Contexts /\ all.disk = done.disk /\ all.log = done.log /\ all.ram = done.ram
         /\ all.lost = done.lost \cup leak
    BY <2>15 DEF Done, Contexts
  <2> HIDE DEF all
  <2>17. Done(all, 0)
    BY <2>15, <2>16 DEF Done, LogOK
  <2>18. Counted(c) => Counted(made)
    <3>1. /\ made.disk.inodes[ino].type # "FREE"
          /\ \A i \in Inodes \ {ino} : made.disk.inodes[i] = c.disk.inodes[i]
      BY <2>5, <2>7, <2>8, <2>11 DEF Replaced
    <3>2. InodesCounted(c) => InodesCounted(made)
      BY <2>1, <2>5, <2>9, <3>1, InodeTaken
    <3>3. BlocksCounted(c) => BlocksCounted(made)
      BY <2>5, <2>9 DEF BlocksCounted
    <3>4. QED
      BY <3>2, <3>3 DEF Counted
  <2>19. Counted(done) => Counted(all)
    BY <2>16 DEF Counted, BlocksCounted, InodesCounted
  <2>20. LeakFree(c, all)
    <3>1. SUFFICES ASSUME Tight(c.disk), "blocks" \notin all.lost PROVE Tight(done.disk)
      BY <2>16 DEF LeakFree
    <3>2. \A x \in 0 .. Table : RefMap(t.disk)[<<ino, x>>] = 0
      BY <2>1, <2>5, <3>1 DEF Tight
    <3>3. Tight(t.disk) /\ t.disk \in Disk
      BY <2>1, <2>5, <3>1
    <3>4. Tight(d)
      BY <2>1, <2>7, <2>8, <3>2, <3>3, TightMade
    <3>5. QED
      BY <2>11, <2>15, <2>16, <3>1, <3>4 DEF LeakFree
  <2>21. OrphanFree(c, all)
    <3>1. SUFFICES ASSUME Whole(c.disk, 0), "inodes" \notin all.lost PROVE Whole(done.disk, 0)
      BY <2>16 DEF OrphanFree
    <3>2. "blocks" \notin done.lost
      BY <2>16, <3>1
    <3>3. Whole(t.disk, 0) /\ t.disk \in Disk /\ Children(t.disk, ino) = {}
      BY <2>1, <2>5, <3>1 DEF Children, IsDir
    <3>4. Whole(d, ino)
      BY <2>1, <2>7, <2>8, <3>3, WholeReplaced
    <3>5. QED
      BY <2>11, <2>15, <3>2, <3>4 DEF e
  <2>22. QED
    BY <1>1, <1>3, <2>15, <2>17, <2>18, <2>19, <2>20, <2>21 DEF ino
<1>4. QED
  BY <1>2, <1>3

-----------------------------------------------------------------------------
(* dorifs_vfs_unlink                                                        *)

\* The blocks of v are being given back: nothing but the bitmap changes.
Freeing(c, a, v) ==
  /\ a \in Contexts /\ LogOK(a, v) /\ Sound(a.disk, v)
  /\ Alike(c.disk, a.disk) /\ a.disk.blocks = c.disk.blocks /\ a.inode = c.inode

\* One of them.
LEMMA FreeBlockGoesOn ==
  ASSUME NEW v \in Inodes, NEW c, NEW a, Freeing(c, a, v), NEW f \in 0 .. Table,
         NEW b, b = RefMap(c.disk)[<<v, f>>], b # 0
  PROVE  Freeing(c, FreeBlock(a, b), v)
<1> DEFINE x == FreeBlock(a, b)
           bitmap == a.ram.bitmap \ {b}
           d == [a.disk EXCEPT !.bitmap = bitmap]
<1>1. a \in Contexts /\ a.disk \in Disk /\ bitmap \in SUBSET Blocks /\ a.ram.bitmap = a.disk.bitmap
  BY DEF Freeing, Contexts, Ram, LogOK
<1>2. Leaves(a, x, d) /\ x.ram.bitmap = bitmap
  BY <1>1, FreeBlockFacts
<1>3. Alike(a.disk, d)
  <2> HIDE DEF bitmap
  <2>1. QED
    BY <1>1, BitmapImage
<1>4. d.bitmap = bitmap /\ d.blocks = a.disk.blocks /\ d.inodes = a.disk.inodes
  BY <1>1 DEF Disk
<1> HIDE DEF x, d
<1>5. OwnedIn(RefMap(d), d.bitmap, v)
  <2>1. <<v, f>> \in Places /\ <<v, f>>[1] = v
    BY DEF Places
  <2>2. OwnedIn(RefMap(a.disk), a.disk.bitmap, v) /\ RefMap(a.disk)[<<v, f>>] = b
    BY DEF Freeing, Sound, Alike
  <2>3. OwnedIn(RefMap(a.disk), a.disk.bitmap \ {b}, v)
    BY <2>1, <2>2, OwnedGivenBack
  <2>4. QED
    BY <1>1, <1>3, <1>4, <2>3 DEF Alike
<1>6. Sound(d, v)
  <2>1. Within(RefMap(a.disk), RefMap(d)) /\ d \in Disk /\ NamesKept(a.disk, d)
    BY <1>3 DEF Alike, Within
  <2>2. QED
    BY <1>4, <1>5, <2>1, SoundKept DEF Freeing
<1>7. LogOK(x, v)
  BY <1>1, <1>2, <1>4, <1>6, LogImage DEF Freeing
<1>8. Alike(c.disk, d)
  <2>1. NamesKept(c.disk, d)
    BY <1>3, NamesKeptTrans DEF Freeing, Alike
  <2>2. QED
    BY <1>3, <2>1 DEF Freeing, Alike
<1>9. QED
  BY <1>2, <1>4, <1>6, <1>7, <1>8 DEF Freeing, Leaves, x

\* The blocks of v up to the place n are given back, and the others still marked.
GivenBack(c, a, v, n) ==
  /\ a.ram.bitmap \subseteq c.ram.bitmap
  /\ \A f \in 0 .. Table :
       RefMap(c.disk)[<<v, f>>] # 0 => (RefMap(c.disk)[<<v, f>>] \in a.ram.bitmap <=> f >= n)

\* The next one: the count goes with it, and the others stay as they are.
LEMMA FreeBlockCounts ==
  ASSUME NEW v \in Inodes, NEW c, OwnedIn(RefMap(c.disk), c.disk.bitmap, 0),
         NEW a \in Contexts, NEW f \in 0 .. Table, GivenBack(c, a, v, f),
         NEW b, b = RefMap(c.disk)[<<v, f>>], b # 0
  PROVE  BlocksKept(a, FreeBlock(a, b)) /\ GivenBack(c, FreeBlock(a, b), v, f + 1)
<1>0. f \in Nat
  BY Constants DEF Table
<1>1. b \in a.ram.bitmap
  BY <1>0 DEF GivenBack
<1>2. BlocksKept(a, FreeBlock(a, b)) /\ FreeBlock(a, b).ram.bitmap = a.ram.bitmap \ {b}
  BY <1>1, FreeCounts, FreeBlockFacts
<1>3. ASSUME NEW g \in 0 .. Table, g # f PROVE RefMap(c.disk)[<<v, g>>] # b
  <2>1. <<v, f>> \in Places /\ <<v, g>> \in Places
    BY DEF Places
  <2>2. <<v, f>> # <<v, g>>
    BY <1>3
  <2>3. QED
    BY <2>1, <2>2 DEF OwnedIn
<1>4. ASSUME NEW g \in 0 .. Table, RefMap(c.disk)[<<v, g>>] # 0
      PROVE  RefMap(c.disk)[<<v, g>>] \in FreeBlock(a, b).ram.bitmap <=> g >= f + 1
  <2>1. RefMap(c.disk)[<<v, g>>] \in a.ram.bitmap <=> g >= f
    BY <1>4 DEF GivenBack
  <2>2. g \in Nat
    BY Constants DEF Table
  <2>3. CASE g = f
    BY <1>0, <1>2, <2>3
  <2>4. CASE g # f
    BY <1>0, <1>2, <1>3, <2>1, <2>2, <2>4
  <2>5. QED
    BY <2>3, <2>4
<1>5. GivenBack(c, FreeBlock(a, b), v, f + 1)
  BY <1>2, <1>4 DEF GivenBack
<1>6. QED
  BY <1>2, <1>5

\* All of them.
LEMMA FreedGoesOn ==
  ASSUME NEW v \in Inodes, NEW c \in Contexts, LogOK(c, v), Sound(c.disk, 0)
  PROVE  /\ Freeing(c, Freed(c, c.disk.inodes[v]), v) /\ BlocksKept(c, Freed(c, c.disk.inodes[v]))
         /\ GivenBack(c, Freed(c, c.disk.inodes[v]), v, Table + 1)
<1> DEFINE N == NDirect + NIndirect + 1
           X == {a \in Contexts : Freeing(c, a, v)}
           Block(n) == OwnedBlock(c.disk, c.disk.inodes[v], n)
           One(a, n) == IF Block(n) = 0 THEN a ELSE FreeBlock(a, Block(n))
           Good(f) == f = [n \in 0 .. N |->
                             IF n = 0 THEN c
                             ELSE IF Block(n - 1) = 0 THEN f[n - 1]
                             ELSE FreeBlock(f[n - 1], Block(n - 1))]
           at == CHOOSE f : Good(f)
           next == [n \in 1 .. N |-> [a \in X |-> One(a, n - 1)]]
<1>0. N \in Nat /\ N = Table + 1 /\ c.disk \in Disk
  BY Constants DEF Table, Contexts
<1>1. c \in X
  BY <1>0, SoundForAny DEF Freeing, Alike, NamesKept
<1>2. ASSUME NEW a \in X, NEW n \in 1 .. N PROVE One(a, n - 1) \in X
  <2>1. n - 1 \in 0 .. Table
    BY <1>0, Constants DEF Table
  <2>2. Block(n - 1) = RefMap(c.disk)[<<v, n - 1>>]
    BY <1>0, <2>1, RefMapFacts
  <2>3. CASE Block(n - 1) = 0
    BY <2>3
  <2>4. CASE Block(n - 1) # 0
    <3> DEFINE b == Block(n - 1)
    <3>1. Freeing(c, a, v)
      OBVIOUS
    <3>2. One(a, n - 1) = FreeBlock(a, b)
      BY <2>4
    <3> HIDE DEF X, One, Block
    <3>3. Freeing(c, FreeBlock(a, b), v)
      BY <2>1, <2>2, <2>4, <3>1, FreeBlockGoesOn
    <3>4. One(a, n - 1) \in Contexts /\ Freeing(c, One(a, n - 1), v)
      BY <3>2, <3>3 DEF Freeing
    <3>5. QED
      BY <3>4 DEF X
  <2>5. QED
    BY <2>3, <2>4
<1> HIDE DEF X
<1>3. next \in [1 .. N -> [X -> X]]
  <2> HIDE DEF One, N
  <2>1. QED
    BY <1>2
<1>4. PICK f : IsRounds(f, X, c, N, next)
  <2> HIDE DEF next, N
  <2>1. QED
    BY <1>0, <1>1, <1>3, Rounds
<1>5. \A n \in 1 .. N : f[n] = One(f[n - 1], n - 1)
  <2>1. SUFFICES ASSUME NEW n \in 1 .. N PROVE f[n] = One(f[n - 1], n - 1)
    OBVIOUS
  <2> HIDE DEF One, N
  <2>2. n - 1 \in 0 .. N
    BY <1>0
  <2>3. f[n - 1] \in X /\ f[n] = next[n][f[n - 1]]
    BY <1>4, <2>2 DEF IsRounds
  <2>4. QED
    BY <2>3
<1>6. Good(f)
  BY <1>4, <1>5 DEF IsRounds
<1>7. Good(at)
  <2> HIDE DEF Good
  <2>1. QED
    BY <1>6, Zenon
<1>8. Freed(c, c.disk.inodes[v]) = at[N]
  BY DEF Freed
<1>9. OwnedIn(RefMap(c.disk), c.disk.bitmap, 0) /\ c.ram.bitmap = c.disk.bitmap
  BY DEF Sound, LogOK
<1>10. ASSUME NEW a \in X, NEW n \in 1 .. N, BlocksKept(c, a), GivenBack(c, a, v, n - 1)
       PROVE  BlocksKept(c, One(a, n - 1)) /\ GivenBack(c, One(a, n - 1), v, n)
  <2>1. n - 1 \in 0 .. Table /\ (n - 1) + 1 = n
    BY <1>0, Constants DEF Table
  <2>2. Block(n - 1) = RefMap(c.disk)[<<v, n - 1>>]
    BY <1>0, <2>1, RefMapFacts
  <2>3. CASE Block(n - 1) = 0
    <3>1. ASSUME NEW g \in 0 .. Table, RefMap(c.disk)[<<v, g>>] # 0 PROVE g >= n <=> g >= n - 1
      BY <1>0, <2>2, <2>3, <3>1, Constants DEF Table
    <3>2. GivenBack(c, a, v, n)
      BY <1>10, <3>1 DEF GivenBack
    <3>3. QED
      BY <1>10, <2>3, <3>2
  <2>4. CASE Block(n - 1) # 0
    <3> DEFINE b == Block(n - 1)
    <3>1. a \in Contexts
      BY DEF X
    <3>2. One(a, n - 1) = FreeBlock(a, b)
      BY <2>4
    <3> HIDE DEF One, Block, N
    <3>3. BlocksKept(a, FreeBlock(a, b)) /\ GivenBack(c, FreeBlock(a, b), v, (n - 1) + 1)
      BY <1>9, <1>10, <2>1, <2>2, <2>4, <3>1, FreeBlockCounts
    <3>4. QED
      BY <1>10, <2>1, <3>2, <3>3, BlocksKeptTrans
  <2>5. QED
    BY <2>3, <2>4
<1>11. BlocksKept(c, c) /\ GivenBack(c, c, v, 0)
  <2>1. ASSUME NEW g \in 0 .. Table PROVE <<v, g>> \in Places /\ <<v, g>>[1] # 0 /\ g >= 0
    BY Constants DEF Places, Table
  <2>2. GivenBack(c, c, v, 0)
    BY <1>9, <2>1 DEF GivenBack, OwnedIn
  <2>3. QED
    BY <2>2, SameRam
<1> HIDE DEF at
<1>12. at[0] = c /\ \A n \in 1 .. N : at[n] = One(at[n - 1], n - 1)
  BY <1>0, <1>7
<1> DEFINE T == {n \in 0 .. N : at[n] \in X /\ BlocksKept(c, at[n]) /\ GivenBack(c, at[n], v, n)}
<1> HIDE DEF One, N
<1>13. 0 \in T
  BY <1>0, <1>1, <1>11, <1>12
<1>14. ASSUME NEW m \in 0 .. N - 1, m \in T PROVE m + 1 \in T
  <2>1. at[m + 1] = One(at[(m + 1) - 1], (m + 1) - 1) /\ (m + 1) - 1 = m /\ m + 1 \in 1 .. N
    BY <1>0, <1>12
  <2>2. at[m] \in X /\ BlocksKept(c, at[m]) /\ GivenBack(c, at[m], v, (m + 1) - 1)
    BY <1>14, <2>1
  <2>3. /\ One(at[m], (m + 1) - 1) \in X /\ BlocksKept(c, One(at[m], (m + 1) - 1))
        /\ GivenBack(c, One(at[m], (m + 1) - 1), v, m + 1)
    BY <1>2, <1>10, <2>1, <2>2
  <2>4. QED
    BY <2>1, <2>3
<1> HIDE DEF T
<1>15. 0 .. N \subseteq T
  BY <1>0, <1>13, <1>14, UpTo
<1>16. at[N] \in X /\ BlocksKept(c, at[N]) /\ GivenBack(c, at[N], v, N)
  BY <1>0, <1>15 DEF T
<1>17. QED
  BY <1>0, <1>8, <1>16 DEF X

\* Then nothing leaks but the inode itself.
LEMMA FreedTight ==
  ASSUME NEW v \in Inodes, NEW c, c.disk \in Disk, Tight(c.disk), NEW a, Freeing(c, a, v),
         GivenBack(c, a, v, Table + 1), LogOK(c, v)
  PROVE  TightBut(a.disk, v)
<1>1. /\ a.disk.inodes = c.disk.inodes /\ RefMap(a.disk) = RefMap(c.disk)
      /\ a.disk.bitmap = a.ram.bitmap /\ c.disk.bitmap = c.ram.bitmap
  BY DEF Freeing, Alike, LogOK
<1>2. ASSUME NEW b \in a.disk.bitmap PROVE \E q \in Places : q[1] # v /\ RefMap(a.disk)[q] = b
  <2>1. b \in c.disk.bitmap /\ b # 0
    BY <1>1, Constants DEF GivenBack, Disk
  <2>2. PICK q \in Places : RefMap(c.disk)[q] = b
    BY <2>1 DEF Tight
  <2>3. PICK i \in Inodes, f \in 0 .. Table : q = <<i, f>>
    BY DEF Places
  <2>4. ~(f >= Table + 1)
    BY Constants DEF Table
  <2>5. q[1] # v
    BY <1>1, <2>1, <2>2, <2>3, <2>4 DEF GivenBack
  <2>6. QED
    BY <1>1, <2>2, <2>5
<1>3. QED
  BY <1>1, <1>2 DEF TightBut, Tight

\* e is d with inode v and its blocks given back.
Emptied(d, v, e) ==
  /\ Sound(e, v) /\ e.blocks = d.blocks /\ e.inodes[v] = ZeroInode
  /\ \A i \in Inodes \ {v} :
       /\ e.inodes[i] = d.inodes[i]
       /\ IsDir(d, i) => Listed(e, i) = Listed(d, i)
                         /\ \A k \in Listed(d, i) : Entry(e, i, k) = Entry(d, i, k)
  /\ \A i \in Inodes, f \in 0 .. Table :
       RefMap(e)[<<i, f>>] = IF i = v THEN 0 ELSE RefMap(d)[<<i, f>>]

\* What the indirect block and the inode say is all that dorifs_get_block reads.
LEMMA SameBlocks ==
  ASSUME NEW d \in Disk, NEW e \in Disk, e.inodes = d.inodes, RefMap(e) = RefMap(d),
         NEW i \in Inodes, NEW f \in Nat
  PROVE  GetBlock(e, e.inodes[i], f) = GetBlock(d, d.inodes[i], f)
<1>1. d.inodes[i] \in Inode /\ e.inodes[i] \in Inode
  BY DEF Disk
<1>2. CASE f < Table
  <2>1. /\ f \in 0 .. Table
        /\ GetBlock(d, d.inodes[i], f) = OwnedBlock(d, d.inodes[i], f)
        /\ GetBlock(e, e.inodes[i], f) = OwnedBlock(e, e.inodes[i], f)
    BY <1>1, <1>2, GetBlockPlace
  <2>2. OwnedBlock(d, d.inodes[i], f) = RefMap(d)[<<i, f>>]
        /\ OwnedBlock(e, e.inodes[i], f) = RefMap(e)[<<i, f>>]
    BY <2>1, RefMapFacts
  <2>3. QED
    BY <2>1, <2>2
<1>3. CASE ~(f < Table)
  BY <1>1, <1>3, GetBlockPlace
<1>4. QED
  BY <1>2, <1>3

\* The block of an entry, and what it holds without it.
EntryBlock(d, p, k) == GetBlock(d, d.inodes[p], BlockOf(k))
Deleted(d, p, k) == [d.blocks[EntryBlock(d, p, k)] EXCEPT !.entries[SlotOf(k)] = NoEntry]

\* After the inode itself its name goes, and g is sound for whoever comes next.
NameGone(d, p, k, e, g) ==
  /\ Sound(g, 0) /\ g.bitmap = e.bitmap /\ g.inodes = e.inodes /\ RefMap(g) = RefMap(e)
  /\ \A i \in Inodes : Children(e, i) \ {Entry(d, p, k).inode} \subseteq Children(g, i)

\* The entry that named it is deleted last, in the block as it was read.
LEMMA SoundDropped ==
  ASSUME NEW d, Sound(d, 0), NEW p \in Inodes, IsDir(d, p), NEW k \in Listed(d, p),
         NEW e, Emptied(d, Entry(d, p, k).inode, e)
  PROVE  NameGone(d, p, k, e, [e EXCEPT !.blocks[EntryBlock(d, p, k)] = Deleted(d, p, k)])
<1> DEFINE v == Entry(d, p, k).inode
           b == EntryBlock(d, p, k)
           content == Deleted(d, p, k)
           g == [e EXCEPT !.blocks[b] = content]
<1>0. d \in Disk /\ e \in Disk /\ Sound(e, v) /\ e.blocks = d.blocks
  BY DEF Sound, Emptied
<1>1. /\ d \in Disk /\ e \in Disk /\ Sound(e, v) /\ e.blocks = d.blocks /\ k \in Nat
      /\ b \in Blocks /\ b # 0 /\ v \in Inodes /\ BlockOf(k) \in Nat /\ SlotOf(k) \in 1 .. EntriesPerBlock
      /\ d.inodes[p] \in Inode /\ Entry(d, p, k) = d.blocks[b].entries[SlotOf(k)]
  <2>1. k \in Nat /\ b \in Blocks /\ v \in Inodes /\ Entry(d, p, k) = d.blocks[b].entries[SlotOf(k)]
    BY <1>0, ListedAt DEF EntryBlock
  <2>2. d.inodes[p] \in Inode
    BY <1>0 DEF Disk
  <2> HIDE DEF v, b
  <2>3. QED
    BY <1>0, <2>1, <2>2, EntryPlaces, Constants
<1> HIDE DEF v, b
<1>2. /\ content \in Content /\ content.ptrs = e.blocks[b].ptrs /\ content.entries[SlotOf(k)] = NoEntry
      /\ \A m \in 1 .. EntriesPerBlock : m # SlotOf(k) => content.entries[m] = d.blocks[b].entries[m]
  <2>1. d.blocks[b] \in Content
    BY <1>1 DEF Disk
  <2>2. QED
    BY <1>1, <2>1, ZeroTypes DEF Content, Deleted, b
<1> HIDE DEF content
<1>3. BlockImaged(e, b, content, g)
  BY <1>1, <1>2, BlockImage
<1> HIDE DEF g
<1>4. /\ g \in Disk /\ g.inodes = e.inodes /\ RefMap(g) = RefMap(e) /\ g.bitmap = e.bitmap
      /\ g.blocks[b] = content /\ \A x \in Blocks : x # b => g.blocks[x] = d.blocks[x]
  BY <1>1, <1>3 DEF BlockImaged
<1>5. \A i \in Inodes : (IsDir(g, i) <=> IsDir(e, i)) /\ (IsDir(e, i) => i # v /\ IsDir(d, i))
  <2>1. SUFFICES ASSUME NEW i \in Inodes
                 PROVE  (IsDir(g, i) <=> IsDir(e, i)) /\ (IsDir(e, i) => i # v /\ IsDir(d, i))
    OBVIOUS
  <2>2. e.inodes[v].type = "FREE" /\ (i # v => e.inodes[i] = d.inodes[i])
    BY DEF Emptied, ZeroInode, v
  <2>3. QED
    BY <1>4, <2>2 DEF IsDir
<1>6. /\ <<p, BlockOf(k)>> \in Places
      /\ RefMap(d)[<<p, BlockOf(k)>>] = b /\ BlockOf(k) < Table
  <2>1. BlockOf(k) < Table
    BY <1>1, GetBlockPlace DEF b, EntryBlock
  <2>2. BlockOf(k) \in 0 .. Table /\ b = OwnedBlock(d, d.inodes[p], BlockOf(k))
    BY <1>1, <2>1, GetBlockPlace DEF b, EntryBlock
  <2>3. QED
    BY <1>1, <2>1, <2>2, RefMapFacts
<1>7. ASSUME NEW i \in Inodes, IsDir(e, i), NEW l \in Nat, GetBlock(e, e.inodes[i], BlockOf(l)) = b
      PROVE  i = p /\ BlockOf(l) = BlockOf(k)
  <2>1. i # v /\ BlockOf(l) \in Nat /\ e.inodes[i] \in Inode
    BY <1>1, <1>5, <1>7, EntryPlaces DEF Disk
  <2>2. BlockOf(l) < Table
    BY <1>1, <1>7, <2>1, GetBlockPlace
  <2>3. BlockOf(l) \in 0 .. Table /\ b = OwnedBlock(e, e.inodes[i], BlockOf(l))
    BY <1>1, <1>7, <2>1, <2>2, GetBlockPlace
  <2>4. <<i, BlockOf(l)>> \in Places /\ RefMap(e)[<<i, BlockOf(l)>>] = b
    BY <1>1, <2>3, RefMapFacts
  <2>5. RefMap(d)[<<i, BlockOf(l)>>] = b
    BY <2>1, <2>3, <2>4 DEF Emptied, v
  <2>6. <<i, BlockOf(l)>> = <<p, BlockOf(k)>>
    BY <1>1, <1>6, <2>4, <2>5 DEF Sound, OwnedIn
  <2>7. QED
    BY <2>6
<1>8. ASSUME NEW i \in Inodes, IsDir(g, i), NEW l \in Listed(g, i)
      PROVE  /\ IsDir(e, i) /\ l \in Listed(e, i) /\ Entry(g, i, l) = Entry(e, i, l)
             /\ Entry(e, i, l).inode # v /\ Entry(e, i, l).inode \in Inodes
  <2> DEFINE x == GetBlock(e, e.inodes[i], BlockOf(l))
  <2>1. IsDir(e, i) /\ i # v /\ IsDir(d, i)
    BY <1>5, <1>8
  <2>2. l \in Nat /\ BlockOf(l) \in Nat /\ SlotOf(l) \in 1 .. EntriesPerBlock
    BY <1>4, <1>8, ListedAt, EntryPlaces
  <2>3. \A f \in Nat : GetBlock(g, g.inodes[i], f) = GetBlock(e, e.inodes[i], f)
    BY <1>1, <1>4, SameBlocks
  <2>4. x \in Blocks /\ Entry(g, i, l) = g.blocks[x].entries[SlotOf(l)] /\ Entry(g, i, l).inode # 0
    BY <1>4, <1>8, <2>2, <2>3, ListedAt
  <2>5. Entry(e, i, l) = d.blocks[x].entries[SlotOf(l)]
    BY <1>1 DEF Entry
  <2> HIDE DEF x
  <2>6. x = b => i = p /\ BlockOf(l) = BlockOf(k)
    BY <1>7, <2>1, <2>2 DEF x
  <2>7. x = b => l # k
    <3>1. SUFFICES ASSUME x = b, l = k PROVE FALSE
      OBVIOUS
    <3>2. Entry(g, i, l) = NoEntry
      BY <1>2, <1>4, <2>4, <3>1
    <3>3. QED
      BY <2>4, <3>2 DEF NoEntry
  <2>8. x = b => SlotOf(l) # SlotOf(k)
    BY <1>1, <2>2, <2>6, <2>7, EntryPlaces
  <2>9. Entry(g, i, l) = Entry(e, i, l)
    <3>1. CASE x = b
      BY <1>2, <1>4, <2>2, <2>4, <2>5, <2>8, <3>1
    <3>2. CASE x # b
      BY <1>4, <2>4, <2>5, <3>2
    <3>3. QED
      BY <3>1, <3>2
  <2>10. l \in Listed(e, i)
    <3>1. /\ l < g.inodes[i].size
          /\ \A j \in 0 .. BlockOf(l) : GetBlock(g, g.inodes[i], j) # 0
      BY <1>4, <1>8, <2>2, ListedAt
    <3>2. \A j \in 0 .. BlockOf(l) : GetBlock(e, e.inodes[i], j) # 0
      BY <2>2, <2>3, <3>1
    <3>3. QED
      BY <1>1, <1>4, <2>2, <2>4, <2>9, <3>1, <3>2, ListedAt
  <2>11. l \in Listed(d, i) /\ Entry(e, i, l) = Entry(d, i, l)
    BY <2>1, <2>10 DEF Emptied, v
  <2>12. ~(i = p /\ l = k)
    <3>1. SUFFICES ASSUME i = p, l = k PROVE FALSE
      OBVIOUS
    <3>2. x = b
      <4>1. e.inodes[p] = d.inodes[p]
        BY <2>1, <3>1 DEF Emptied, v
      <4>2. \A n, f : GetBlock(e, n, f) = GetBlock(d, n, f)
        BY <1>1 DEF GetBlock
      <4>3. QED
        BY <3>1, <4>1, <4>2 DEF x, b, EntryBlock
    <3>3. QED
      BY <2>7, <3>1, <3>2
  <2>13. Entry(e, i, l).inode # v
    BY <2>1, <2>11, <2>12 DEF Sound, NamedOnce, v
  <2>14. QED
    BY <1>1, <2>1, <2>9, <2>10, <2>13, ListedAt
<1>9. NamedOK(g, 0)
  <2>1. SUFFICES ASSUME NEW i \in Inodes, IsDir(g, i), NEW l \in Listed(g, i)
                 PROVE  LET de == Entry(g, i, l) IN
                        /\ de.inode # Root /\ de.type # "FREE"
                        /\ de.inode # 0 => de.type = g.inodes[de.inode].type
    BY DEF NamedOK
  <2>2. /\ IsDir(e, i) /\ l \in Listed(e, i) /\ Entry(g, i, l) = Entry(e, i, l)
        /\ Entry(e, i, l).inode # v
    BY <1>8, <2>1
  <2>3. LET de == Entry(e, i, l) IN
        /\ de.inode # Root /\ de.type # "FREE"
        /\ de.type = e.inodes[de.inode].type
    BY <1>1, <2>2 DEF Sound, NamedOK
  <2>4. QED
    BY <1>4, <2>2, <2>3
<1>10. NamedOnce(g)
  <2>1. SUFFICES ASSUME NEW i \in Inodes, NEW j \in Inodes, IsDir(g, i), IsDir(g, j),
                        NEW l \in Listed(g, i), NEW m \in Listed(g, j),
                        Entry(g, i, l).inode = Entry(g, j, m).inode
                 PROVE  i = j /\ l = m
    BY DEF NamedOnce
  <2>2. IsDir(e, i) /\ l \in Listed(e, i) /\ Entry(g, i, l) = Entry(e, i, l)
    BY <1>8, <2>1
  <2>3. IsDir(e, j) /\ m \in Listed(e, j) /\ Entry(g, j, m) = Entry(e, j, m)
    BY <1>8, <2>1
  <2>4. NamedOnce(e)
    BY <1>1 DEF Sound
  <2>5. Entry(e, i, l).inode = Entry(e, j, m).inode
    BY <2>1, <2>2, <2>3
  <2>6. QED
    BY <2>2, <2>3, <2>4, <2>5 DEF NamedOnce
<1>11. DirsOK(g)
  BY <1>1, <1>4 DEF Sound, DirsOK, NoHole, IsDir
<1>12. OwnedIn(RefMap(g), g.bitmap, 0)
  <2>1. OwnedIn(RefMap(e), e.bitmap, v)
    BY <1>1 DEF Sound
  <2>2. \A q \in Places : q[1] = v => RefMap(e)[q] = 0
    <3>1. SUFFICES ASSUME NEW q \in Places, q[1] = v PROVE RefMap(e)[q] = 0
      OBVIOUS
    <3>2. PICK i \in Inodes, f \in 0 .. Table : q = <<i, f>>
      BY DEF Places
    <3>3. QED
      BY <3>1, <3>2 DEF Emptied, v
  <2>3. QED
    BY <1>4, <2>1, <2>2 DEF OwnedIn
<1>13. g.inodes[Root].type = "DIR"
  BY <1>1, <1>4 DEF Sound
<1>14. Sound(g, 0)
  BY <1>4, <1>9, <1>10, <1>11, <1>12, <1>13 DEF Sound
<1>15. ASSUME NEW i \in Inodes, IsDir(e, i), NEW l \in Listed(e, i), Entry(e, i, l).inode # v
       PROVE  l \in Listed(g, i) /\ Entry(g, i, l) = Entry(e, i, l)
  <2> DEFINE x == GetBlock(e, e.inodes[i], BlockOf(l))
  <2>1. /\ l \in Nat /\ l < e.inodes[i].size /\ BlockOf(l) \in Nat /\ SlotOf(l) \in 1 .. EntriesPerBlock
        /\ x \in Blocks /\ Entry(e, i, l) = d.blocks[x].entries[SlotOf(l)] /\ Entry(e, i, l).inode # 0
        /\ \A j \in 0 .. BlockOf(l) : GetBlock(e, e.inodes[i], j) # 0
    BY <1>1, <1>15, ListedAt, EntryPlaces
  <2>2. \A f \in Nat : GetBlock(g, g.inodes[i], f) = GetBlock(e, e.inodes[i], f)
    BY <1>1, <1>4, SameBlocks
  <2>3. Entry(g, i, l) = g.blocks[x].entries[SlotOf(l)]
    BY <2>1, <2>2 DEF Entry
  <2>4. x = b => BlockOf(l) = BlockOf(k)
    BY <1>7, <1>15, <2>1
  <2> HIDE DEF x
  <2>5. x = b => SlotOf(l) # SlotOf(k)
    <3>1. SUFFICES ASSUME x = b, SlotOf(l) = SlotOf(k) PROVE FALSE
      OBVIOUS
    <3>2. Entry(e, i, l).inode = v
      BY <1>1, <2>1, <3>1 DEF v
    <3>3. QED
      BY <1>15, <3>2
  <2>6. Entry(g, i, l) = Entry(e, i, l)
    <3>1. CASE x = b
      BY <1>2, <1>4, <2>1, <2>3, <2>5, <3>1
    <3>2. CASE x # b
      BY <1>4, <2>1, <2>3, <3>2
    <3>3. QED
      BY <3>1, <3>2
  <2>7. \A j \in 0 .. BlockOf(l) : GetBlock(g, g.inodes[i], j) # 0
    BY <2>1, <2>2
  <2>8. QED
    BY <1>4, <2>1, <2>6, <2>7, ListedAt
<1>16. \A i \in Inodes : Children(e, i) \ {v} \subseteq Children(g, i)
  BY <1>5, <1>15 DEF Children
<1>17. NameGone(d, p, k, e, g)
  BY <1>4, <1>14, <1>16 DEF NameGone, v
<1>18. QED
  BY <1>17 DEF g, b, content

\* The entry of directory p at k is unlinked.
LEMMA UnlinkedSound ==
  ASSUME NEW p \in Inodes, NEW c \in Contexts, Sound(c.disk, 0), IsDir(c.disk, p),
         NEW k \in Listed(c.disk, p), NEW v, v = Entry(c.disk, p, k).inode, LogOK(c, v)
  PROVE  /\ Done(Unlinked(c, p, k), v)
         /\ LeakFree(c, Unlinked(c, p, k))
         /\ OrphanFree(c, Unlinked(c, p, k))
         /\ Counted(c) => Counted(Unlinked(c, p, k))
<1> DEFINE inode == c.disk.inodes[v]
           b == EntryBlock(c.disk, p, k)
           content == Deleted(c.disk, p, k)
           freed == Freed(c, inode)
           gone == FreeInode(freed, v)
           leak == IF Orphans(c.disk, v) THEN {"inodes"} ELSE {}
           told == [gone EXCEPT !.lost = @ \cup leak]
           all == WriteBlock(told, b, content)
<1>1. Unlinked(c, p, k) = all
  BY DEF Unlinked, EntryBlock, Deleted
<1>2. c.disk \in Disk /\ v \in Inodes /\ b \in Blocks /\ SlotOf(k) \in 1 .. EntriesPerBlock
  BY ListedAt, EntryPlaces DEF Contexts, EntryBlock
<1>3. v # Root /\ Sound(c.disk, v)
  BY SoundForAny DEF Sound, NamedOK
<1>4. Freeing(c, freed, v) /\ BlocksKept(c, freed) /\ GivenBack(c, freed, v, Table + 1)
  BY <1>2, FreedGoesOn
<1>5. content \in Content
  <2>1. c.disk.blocks[b] \in Content
    BY <1>2 DEF Disk
  <2>2. QED
    BY <1>2, <2>1, ZeroTypes DEF Content, Deleted
<1> HIDE DEF freed
<1> DEFINE e == [freed.disk EXCEPT !.inodes[v] = ZeroInode]
<1>6. Leaves(freed, gone, e) /\ gone.ram.bitmap = freed.ram.bitmap
  BY <1>2, <1>4, FreeInodeFacts DEF Freeing
<1>7. Replaced(freed.disk, v, v, ZeroInode, e)
  <2>1. Blank(ZeroInode)
    BY ZeroTypes DEF Blank, ZeroInode
  <2>2. Sound(freed.disk, v)
    BY <1>4 DEF Freeing
  <2>3. QED
    BY <1>2, <1>3, <2>1, <2>2, SoundReplaced
<1> HIDE DEF e, gone
<1>8. Emptied(c.disk, v, e)
  BY <1>4, <1>7 DEF Emptied, Replaced, Freeing, Alike, NamesKept
<1>9. gone.ram.bitmap = e.bitmap /\ Sound(e, v)
  BY <1>4, <1>6, <1>7 DEF Freeing, LogOK, Replaced
<1>10. LogOK(gone, v) /\ gone \in Contexts /\ gone.disk = e
  BY <1>4, <1>6, <1>9, LogImage DEF Freeing, Leaves
<1>11. /\ told \in Contexts /\ told.disk = e /\ told.log = gone.log /\ told.ram = gone.ram
       /\ told.lost = gone.lost \cup leak
  <2>1. leak \subseteq {"blocks", "inodes"}
    OBVIOUS
  <2> HIDE DEF leak
  <2>2. QED
    BY <1>10, <2>1 DEF Contexts
<1> HIDE DEF told
<1>12. LogOK(told, v)
  BY <1>10, <1>11 DEF LogOK
<1> DEFINE g == [e EXCEPT !.blocks[b] = content]
<1>13. /\ Sound(g, 0) /\ g.bitmap = e.bitmap /\ g.inodes = e.inodes /\ RefMap(g) = RefMap(e)
       /\ \A i \in Inodes : Children(e, i) \ {v} \subseteq Children(g, i)
  <2>1. NameGone(c.disk, p, k, e, g)
    BY <1>8, SoundDropped
  <2>2. QED
    BY <2>1 DEF NameGone
<1>14. Leaves(told, all, g) /\ all.ram = told.ram
  <2> HIDE DEF b, content
  <2>1. QED
    BY <1>2, <1>5, <1>11, WritesLeave
<1> HIDE DEF all, g
<1>15. Sound(g, v) /\ all.ram.bitmap = g.bitmap
  BY <1>9, <1>11, <1>13, <1>14, SoundForAny
<1>16. LogOK(all, v)
  BY <1>11, <1>12, <1>14, <1>15, LogImage
<1>17. Counted(c) => Counted(all)
  <2>1. c.disk.inodes[v].type # "FREE" /\ freed.disk.inodes = c.disk.inodes
    <3>1. NamedOK(c.disk, 0) /\ v # 0
      BY <1>2, Constants DEF Sound
    <3>2. freed.disk.inodes = c.disk.inodes
      BY <1>4 DEF Freeing, Alike
    <3>3. QED
      BY <3>1, <3>2 DEF NamedOK
  <2>2. Counted(c) => Counted(freed)
    BY <1>4, <2>1, CountsEnd
  <2>3. Counted(freed) => Counted(gone)
    BY <1>2, <1>4, <2>1, FreeInodeCounts DEF Freeing, gone
  <2>4. Counted(gone) => Counted(all)
    <3>1. all.disk.inodes = gone.disk.inodes /\ all.ram = gone.ram
      BY <1>2, <1>8, <1>10, <1>11, <1>14 DEF Emptied, Sound, Disk, Leaves, g
    <3>2. QED
      BY <3>1 DEF Counted, BlocksCounted, InodesCounted, FreeInodes
  <2>5. QED
    BY <2>2, <2>3, <2>4
<1>18. LeakFree(c, all)
  <2>1. SUFFICES ASSUME Tight(c.disk) PROVE Tight(g)
    BY <1>14 DEF LeakFree, Leaves
  <2>2. TightBut(freed.disk, v)
    BY <1>2, <1>4, <2>1, FreedTight
  <2>3. Tight(e)
    BY <1>2, <1>7, <2>2, TightReplaced DEF ZeroInode
  <2>4. QED
    BY <1>13, <2>3, TightSame
<1>19. OrphanFree(c, all)
  <2>1. SUFFICES ASSUME Whole(c.disk, 0), "inodes" \notin all.lost PROVE Whole(g, 0)
    BY <1>14 DEF OrphanFree, Leaves
  <2>2. ~Orphans(c.disk, v)
    BY <1>11, <1>14, <2>1 DEF Leaves
  <2>3. Children(c.disk, v) = {}
    BY <2>2 DEF Children, Orphans
  <2>4. Alike(c.disk, freed.disk) /\ freed.disk \in Disk
    BY <1>4 DEF Freeing, Alike
  <2>5. Whole(freed.disk, 0) /\ Children(freed.disk, v) = {}
    BY <1>2, <2>1, <2>3, <2>4, WholeAlike, KeptChildren DEF Alike
  <2>6. Blank(ZeroInode) /\ ZeroInode.type = "FREE"
    BY ZeroTypes DEF Blank, ZeroInode
  <2>7. Whole(e, v)
    BY <1>2, <1>7, <2>4, <2>5, <2>6, WholeReplaced
  <2>8. e \in Disk /\ e.inodes[v].type = "FREE" /\ g \in Disk
    BY <1>8, <1>13, <2>6 DEF Emptied, Sound
  <2>9. Whole(e, 0)
    BY <2>7, <2>8, WholeFree
  <2>10. QED
    BY <1>2, <1>13, <2>8, <2>9, WholeDropped
<1>20. QED
  BY <1>1, <1>13, <1>14, <1>16, <1>17, <1>18, <1>19 DEF Done, Leaves

-----------------------------------------------------------------------------
(* dorifs_vfs_truncate                                                      *)

\* A file loses blocks: the local inode refers to what the one on the disk does, or
\* to nothing, and what it still refers to is marked.
Shrinking(c, ino) ==
  /\ c \in Contexts /\ LogOK(c, ino) /\ Sound(c.disk, ino) /\ NamedOK(c.disk, 0)
  /\ ~IsDir(c.disk, ino)
  /\ c.inode.type = c.disk.inodes[ino].type /\ c.inode.indirect = c.disk.inodes[ino].indirect
  /\ Within(RefMap(Eff(c, ino)), RefMap(c.disk))
  /\ OwnedIn(RefMap(Eff(c, ino)), c.ram.bitmap, 0)

\* From c to a the inode table is what it was, the count of free blocks right, and
\* no path cut.
TableKept(c, a) ==
  a.disk.inodes = c.disk.inodes /\ BlocksKept(c, a) /\ (Whole(c.disk, 0) => Whole(a.disk, 0))

\* So it is from c by way of a to b.
LEMMA TableKeptTrans ==
  ASSUME NEW c, NEW a, NEW b, TableKept(c, a), TableKept(a, b)
  PROVE  TableKept(c, b)
BY BlocksKeptTrans DEF TableKept

\* What is listed with its type stays so.
LEMMA NamedKept ==
  ASSUME NEW d, NEW w, NamedOK(d, w), NEW e, e.inodes = d.inodes, NamesKept(d, e)
  PROVE  NamedOK(e, w)
<1>1. SUFFICES ASSUME NEW i \in Inodes, IsDir(e, i), NEW k \in Listed(e, i)
               PROVE  LET de == Entry(e, i, k) IN
                      /\ de.inode # Root /\ de.type # "FREE"
                      /\ de.inode # w => de.type = e.inodes[de.inode].type
  BY DEF NamedOK
<1>2. IsDir(d, i) /\ k \in Listed(d, i) /\ Entry(e, i, k) = Entry(d, i, k)
  BY <1>1 DEF NamesKept
<1>3. QED
  BY <1>2 DEF NamedOK

\* A block given back is marked no more, and referred to no more.
LEMMA RefCleared ==
  ASSUME NEW R, R \in [Places -> Block0], NEW bitmap, OwnedIn(R, bitmap, 0), NEW p \in Places,
         R[p] # 0, NEW S, S \in [Places -> Block0], Within(R, S)
  PROVE  /\ OwnedIn(RefSet(R, p, 0), bitmap \ {R[p]}, 0)
         /\ Within(RefSet(R, p, 0), S) /\ Within(RefSet(R, p, 0), RefSet(S, p, 0))
<1> DEFINE Z == RefSet(R, p, 0)
<1>1. Z[p] = 0 /\ \A q \in Places : q # p => Z[q] = R[q]
  BY DEF RefSet
<1>2. RefSet(S, p, 0)[p] = 0 /\ \A q \in Places : q # p => RefSet(S, p, 0)[q] = S[q]
  BY DEF RefSet
<1> HIDE DEF Z
<1>3. OwnedIn(Z, bitmap \ {R[p]}, 0)
  BY <1>1 DEF OwnedIn
<1>4. Within(Z, S) /\ Within(Z, RefSet(S, p, 0))
  BY <1>1, <1>2 DEF Within
<1>5. QED
  BY <1>3, <1>4 DEF Z

\* A file may lose a reference on the disk.
LEMMA SoundCleared ==
  ASSUME NEW d, NEW v, Sound(d, v), NEW ino \in Inodes, ~IsDir(d, ino), NEW e \in Disk,
         e.inodes = d.inodes, NamesKept(d, e), e.bitmap = d.bitmap, NEW f \in 0 .. Table,
         RefMap(e) = RefSet(RefMap(d), <<ino, f>>, 0)
  PROVE  Sound(e, v)
<1>1. d \in Disk /\ RefMap(d) \in [Places -> Block0] /\ <<ino, f>> \in Places
  BY RefMapFacts DEF Sound, Places
<1>2. RefMap(e)[<<ino, f>>] = 0 /\ \A q \in Places : q # <<ino, f>> => RefMap(e)[q] = RefMap(d)[q]
  BY <1>1 DEF RefSet
<1>3. OwnedIn(RefMap(e), e.bitmap, v)
  BY <1>2 DEF Sound, OwnedIn
<1>4. DirsOK(e)
  <2>1. SUFFICES ASSUME NEW i \in Inodes, IsDir(e, i)
                 PROVE  e.inodes[i].size <= MaxEntries /\ NoHole(e, i)
    BY DEF DirsOK
  <2>2. IsDir(d, i) /\ i # ino /\ d.inodes[i].size <= MaxEntries /\ NoHole(d, i)
    BY <2>1 DEF NamesKept, Sound, DirsOK
  <2>3. d.inodes[i].size \in Nat
    BY <1>1 DEF Disk, Inode
  <2>4. BlockOf(d.inodes[i].size) \in Nat
    BY <2>3, EntryPlaces
  <2>5. BlockOf(d.inodes[i].size) < Table => <<i, BlockOf(d.inodes[i].size)>> \in Places
    BY <2>4, Constants DEF Table, Places
  <2>6. NoHole(e, i)
    BY <1>2, <2>2, <2>5 DEF NoHole
  <2>7. QED
    BY <2>2, <2>6
<1>5. NamedOK(e, v)
  BY NamedKept DEF Sound
<1>6. NamedOnce(e)
  <2>1. SUFFICES ASSUME NEW i \in Inodes, NEW j \in Inodes, IsDir(e, i), IsDir(e, j),
                        NEW k \in Listed(e, i), NEW l \in Listed(e, j),
                        Entry(e, i, k).inode = Entry(e, j, l).inode
                 PROVE  i = j /\ k = l
    BY DEF NamedOnce
  <2>2. /\ IsDir(d, i) /\ k \in Listed(d, i) /\ Entry(e, i, k) = Entry(d, i, k)
        /\ IsDir(d, j) /\ l \in Listed(d, j) /\ Entry(e, j, l) = Entry(d, j, l)
    BY <2>1 DEF NamesKept
  <2>3. QED
    BY <2>1, <2>2 DEF Sound, NamedOnce
<1>7. e.inodes[Root].type = "DIR"
  BY DEF Sound
<1>8. QED
  BY <1>3, <1>4, <1>5, <1>6, <1>7 DEF Sound

\* No path leads by way of it.
LEMMA WholeCleared ==
  ASSUME NEW d \in Disk, NEW v, Whole(d, v), NEW ino \in Inodes, ~IsDir(d, ino), NEW e \in Disk,
         e.inodes = d.inodes, NamesKept(d, e), NEW f \in 0 .. Table,
         RefMap(e) = RefSet(RefMap(d), <<ino, f>>, 0)
  PROVE  Whole(e, v)
<1>1. RefMap(d) \in [Places -> Block0]
  BY RefMapFacts
<1>2. \A q \in Places : q # <<ino, f>> => RefMap(e)[q] = RefMap(d)[q]
  BY <1>1 DEF RefSet
<1>3. ASSUME NEW i \in Inodes
      PROVE  e.inodes[i].type = d.inodes[i].type /\ Children(d, i) \subseteq Children(e, i)
  BY KeptChildren
<1>4. ASSUME NEW i \in Inodes, IsDir(d, i), NEW g \in 0 .. Table
      PROVE  RefMap(e)[<<i, g>>] = RefMap(d)[<<i, g>>]
  <2>1. <<i, g>> \in Places /\ <<i, g>> # <<ino, f>>
    BY <1>4 DEF Places
  <2>2. QED
    BY <1>2, <2>1
<1>5. QED
  BY <1>3, <1>4, WholeLike

\* A block of ino that the local inode has is on the disk at the same place.
LEMMA ShrinkingHere ==
  ASSUME NEW ino \in Inodes, NEW c, Shrinking(c, ino), NEW fb \in Nat,
         NEW b, b = GetBlock(c.disk, c.inode, fb), b # 0
  PROVE  /\ fb < Table /\ fb \in 0 .. Table /\ <<ino, fb>> \in Places
         /\ RefMap(Eff(c, ino))[<<ino, fb>>] = b /\ RefMap(c.disk)[<<ino, fb>>] = b
<1>1. c \in Contexts /\ c.disk \in Disk /\ c.inode \in Inode
  BY DEF Shrinking, Contexts
<1>2. fb < Table
  BY <1>1, GetBlockPlace
<1>3. fb \in 0 .. Table /\ b = OwnedBlock(c.disk, c.inode, fb)
  BY <1>1, <1>2, GetBlockPlace
<1>4. <<ino, fb>> \in Places
  BY <1>3 DEF Places
<1>5. RefMap(Eff(c, ino))[<<ino, fb>>] = b
  BY <1>1, <1>3, EffFacts
<1>6. QED
  BY <1>2, <1>3, <1>4, <1>5 DEF Shrinking, Within

\* Its block fb is marked no more, and its pointer is still to be cleared.
Unmarked(a, ino, fb) ==
  /\ a \in Contexts /\ LogOK(a, ino) /\ Sound(a.disk, ino) /\ NamedOK(a.disk, 0)
  /\ ~IsDir(a.disk, ino)
  /\ a.inode.type = a.disk.inodes[ino].type /\ a.inode.indirect = a.disk.inodes[ino].indirect
  /\ GetBlock(a.disk, a.inode, fb) # 0 /\ fb < Table
  /\ \E bitmap : OwnedIn(RefMap(Eff(a, ino)), bitmap, 0)
  /\ LET R == RefSet(RefMap(Eff(a, ino)), <<ino, fb>>, 0)
         S == RefMap(a.disk)
     IN  /\ OwnedIn(R, a.ram.bitmap, 0)
         /\ Within(R, S) /\ Within(R, RefSet(S, <<ino, fb>>, 0))

\* From c to a block b is marked no more, and nothing else changes.
Unmarks(c, a, ino, b) ==
  /\ a.lost = c.lost /\ a.inode = c.inode /\ a.disk.inodes = c.disk.inodes
  /\ a.ram.bitmap = c.ram.bitmap \ {b} /\ RefMap(Eff(a, ino)) = RefMap(Eff(c, ino))

\* From a to s the local inode gives up its file block fb, and nothing else changes.
GivesUp(a, s, ino, fb) ==
  /\ s.lost = a.lost /\ s.disk.inodes = a.disk.inodes /\ s.ram.bitmap = a.ram.bitmap
  /\ s.inode.block_count = a.inode.block_count
  /\ RefMap(Eff(s, ino)) = RefSet(RefMap(Eff(a, ino)), <<ino, fb>>, 0)

\* dorifs_free_block of it.
LEMMA FreeUnmarks ==
  ASSUME NEW ino \in Inodes, NEW c, Shrinking(c, ino), NEW fb \in Nat,
         NEW b, b = GetBlock(c.disk, c.inode, fb), b # 0
  PROVE  /\ Unmarked(FreeBlock(c, b), ino, fb) /\ TableKept(c, FreeBlock(c, b))
         /\ Unmarks(c, FreeBlock(c, b), ino, b)
<1> DEFINE a == FreeBlock(c, b)
           bitmap == c.ram.bitmap \ {b}
           d == [c.disk EXCEPT !.bitmap = bitmap]
<1>1. /\ c \in Contexts /\ c.disk \in Disk /\ c.inode \in Inode /\ bitmap \in SUBSET Blocks
      /\ c.ram.bitmap = c.disk.bitmap
  BY DEF Shrinking, Contexts, Ram, LogOK
<1>2. Leaves(c, a, d) /\ a.ram.bitmap = bitmap
  BY <1>1, FreeBlockFacts
<1>3. Alike(c.disk, d)
  <2> HIDE DEF bitmap
  <2>1. QED
    BY <1>1, BitmapImage
<1>4. d.bitmap = bitmap /\ d.blocks = c.disk.blocks /\ d.inodes = c.disk.inodes
  BY <1>1 DEF Disk
<1> HIDE DEF a, d
<1>5. /\ fb < Table /\ fb \in 0 .. Table /\ <<ino, fb>> \in Places
      /\ RefMap(Eff(c, ino))[<<ino, fb>>] = b /\ RefMap(c.disk)[<<ino, fb>>] = b
  BY ShrinkingHere
<1>6. Sound(d, ino)
  <2>1. OwnedIn(RefMap(c.disk), c.disk.bitmap \ {b}, ino)
    <3>1. <<ino, fb>>[1] = ino /\ OwnedIn(RefMap(c.disk), c.disk.bitmap, ino)
      BY DEF Shrinking, Sound
    <3>2. QED
      BY <1>5, <3>1, OwnedGivenBack
  <2>2. OwnedIn(RefMap(d), d.bitmap, ino) /\ Within(RefMap(c.disk), RefMap(d)) /\ d \in Disk
        /\ NamesKept(c.disk, d)
    BY <1>1, <1>3, <1>4, <2>1 DEF Alike, Within
  <2>3. QED
    BY <1>4, <2>2, SoundKept DEF Shrinking
<1>7. LogOK(a, ino) /\ a \in Contexts /\ a.disk = d /\ a.inode = c.inode
  BY <1>1, <1>2, <1>4, <1>6, LogImage DEF Shrinking, Leaves
<1>8. NamedOK(d, 0) /\ ~IsDir(d, ino)
  BY <1>3, <1>4, NamedKept DEF Shrinking, Alike, IsDir
<1>9. \A f : GetBlock(d, c.inode, f) = GetBlock(c.disk, c.inode, f)
  BY <1>4 DEF GetBlock
<1>10. RefMap(Eff(a, ino)) = RefMap(Eff(c, ino))
  <2>1. RefMap(a.disk) = RefMap(c.disk)
    BY <1>3, <1>7 DEF Alike
  <2>2. \A f \in 0 .. Table : OwnedBlock(a.disk, a.inode, f) = OwnedBlock(c.disk, c.inode, f)
    BY <1>7, <1>9 DEF OwnedBlock
  <2>3. QED
    BY <1>1, <1>7, <2>1, <2>2, EffSame
<1>11. LET R == RefSet(RefMap(Eff(c, ino)), <<ino, fb>>, 0)
           S == RefMap(c.disk)
       IN  OwnedIn(R, bitmap, 0) /\ Within(R, S) /\ Within(R, RefSet(S, <<ino, fb>>, 0))
  <2>1. /\ RefMap(Eff(c, ino)) \in [Places -> Block0] /\ RefMap(c.disk) \in [Places -> Block0]
    BY <1>1, EffFacts, RefMapFacts
  <2>2. OwnedIn(RefMap(Eff(c, ino)), c.ram.bitmap, 0) /\ Within(RefMap(Eff(c, ino)), RefMap(c.disk))
    BY DEF Shrinking
  <2>3. QED
    BY <1>5, <2>1, <2>2, RefCleared
<1>12. \E m : OwnedIn(RefMap(Eff(a, ino)), m, 0)
  BY <1>10 DEF Shrinking
<1>13. RefMap(a.disk) = RefMap(c.disk)
  BY <1>3, <1>7 DEF Alike
<1>14. LET R == RefSet(RefMap(Eff(a, ino)), <<ino, fb>>, 0)
           S == RefMap(a.disk)
       IN  /\ OwnedIn(R, a.ram.bitmap, 0)
           /\ Within(R, S) /\ Within(R, RefSet(S, <<ino, fb>>, 0))
  BY <1>2, <1>10, <1>11, <1>13
<1>15. a.inode.type = a.disk.inodes[ino].type /\ a.inode.indirect = a.disk.inodes[ino].indirect
  BY <1>4, <1>7 DEF Shrinking
<1>16. Unmarked(a, ino, fb)
  BY <1>5, <1>6, <1>7, <1>8, <1>9, <1>12, <1>14, <1>15 DEF Unmarked
<1>17. TableKept(c, a)
  <2>1. OwnedIn(RefMap(Eff(c, ino)), c.ram.bitmap, 0) /\ <<ino, fb>>[1] # 0
    BY Constants DEF Shrinking
  <2>2. b \in c.ram.bitmap
    BY <1>5, <2>1 DEF OwnedIn
  <2>3. BlocksKept(c, FreeBlock(c, b))
    BY <1>1, <2>2, FreeCounts
  <2>4. Whole(c.disk, 0) => Whole(a.disk, 0)
    BY <1>1, <1>3, <1>7, WholeAlike
  <2>5. QED
    BY <1>4, <1>7, <2>3, <2>4 DEF TableKept, a
<1>18. Unmarks(c, a, ino, b)
  BY <1>2, <1>4, <1>10 DEF Unmarks, Leaves
<1>19. QED
  BY <1>16, <1>17, <1>18 DEF a

\* dorifs_set_block with no block: the pointer is in the inode ...
LEMMA ClearsDirect ==
  ASSUME NEW ino \in Inodes, NEW fb \in Nat, fb < NDirect, NEW a, Unmarked(a, ino, fb)
  PROVE  /\ Shrinking(SetBlock(a, fb, 0), ino) /\ TableKept(a, SetBlock(a, fb, 0))
         /\ GivesUp(a, SetBlock(a, fb, 0), ino, fb)
<1> DEFINE s == SetBlock(a, fb, 0)
           e == [a EXCEPT !.inode.direct[fb + 1] = 0]
<1>1. a \in Contexts /\ 0 \in Block0
  BY Constants DEF Unmarked
<1>2. s = e
  BY DEF SetBlock
<1>3. DirectSet(a, e, ino, fb, 0)
  BY <1>1, SetDirect
<1> HIDE DEF s, e
<1>4. DirectSet(a, s, ino, fb, 0)
  BY <1>2, <1>3
<1>5. Shrinking(s, ino)
  BY <1>4 DEF DirectSet, Shrinking, Unmarked, LogOK
<1>6. TableKept(a, s)
  BY <1>4, SameRam DEF DirectSet, TableKept
<1>7. s.lost = a.lost /\ s.inode.block_count = a.inode.block_count
  BY <1>1, <1>2 DEF Contexts, Inode, e
<1>8. GivesUp(a, s, ino, fb)
  BY <1>4, <1>7 DEF GivesUp, DirectSet
<1>9. QED
  BY <1>5, <1>6, <1>8 DEF s

\* ... or in the indirect block, and there it is cleared on the disk.
LEMMA ClearsPointer ==
  ASSUME NEW ino \in Inodes, NEW fb \in Nat, ~(fb < NDirect), NEW a, Unmarked(a, ino, fb)
  PROVE  /\ Shrinking(SetBlock(a, fb, 0), ino) /\ TableKept(a, SetBlock(a, fb, 0))
         /\ GivesUp(a, SetBlock(a, fb, 0), ino, fb)
<1> DEFINE s == SetBlock(a, fb, 0)
           x == a.inode.indirect
           m == fb - NDirect + 1
           d == [a.disk EXCEPT !.blocks[x] = [a.disk.blocks[x] EXCEPT !.ptrs[m] = 0]]
           e == Eff(a, ino)
<1>1. /\ a \in Contexts /\ a.disk \in Disk /\ a.inode \in Inode /\ 0 \in Block0
      /\ fb < Table /\ fb \in 0 .. Table /\ GetBlock(a.disk, a.inode, fb) # 0
      /\ <<ino, fb>> \in Places
  BY Constants DEF Unmarked, Contexts, Table, Places
<1>2. x # 0 /\ x = a.disk.inodes[ino].indirect /\ ~(fb - NDirect >= NIndirect)
  BY <1>1 DEF GetBlock, Unmarked
<1>3. WithIndirect(a) = a
  BY <1>2 DEF WithIndirect
<1>4. /\ Leaves(a, s, d) /\ s.ram = a.ram
  <2>1. WithIndirect(a).inode.indirect # 0
    BY <1>2, <1>3
  <2>2. LET w == WithIndirect(a)
            y == w.inode.indirect
        IN  /\ Leaves(w, s, [w.disk EXCEPT !.blocks[y] = [w.disk.blocks[y] EXCEPT !.ptrs[m] = 0]])
            /\ s.ram = w.ram
    BY <1>1, <1>2, <2>1, SetBlockFacts
  <2>3. QED
    BY <1>3, <2>2
<1> HIDE DEF s
<1>5. PointerImaged(a.disk, ino, fb, 0, d)
  <2> HIDE DEF x
  <2>1. x = a.disk.inodes[ino].indirect /\ x # 0
    BY <1>2 DEF x
  <2>2. OwnedIn(RefMap(a.disk), a.disk.bitmap, ino)
    BY DEF Unmarked, Sound
  <2>3. QED
    BY <1>1, <2>1, <2>2, PointerImage
<1>6. PointerImaged(e, ino, fb, 0, Eff(s, ino))
  <2>1. e \in Disk /\ e.blocks = a.disk.blocks /\ e.inodes[ino] = a.inode
    BY <1>1, EffFacts
  <2>2. Eff(s, ino) = [e EXCEPT !.blocks[x] = [e.blocks[x] EXCEPT !.ptrs[m] = 0]]
    <3> DEFINE content == [a.disk.blocks[x] EXCEPT !.ptrs[m] = 0]
    <3>1. e.blocks[x] = a.disk.blocks[x]
      BY <2>1
    <3>2. Eff(s, ino) = [e EXCEPT !.blocks[x] = content]
      <4>1. s.inode = a.inode /\ s.disk = [a.disk EXCEPT !.blocks[x] = content]
        BY <1>4 DEF Leaves
      <4> HIDE DEF content
      <4>2. QED
        BY <1>1, <4>1 DEF Eff, Disk
    <3> HIDE DEF e
    <3>3. QED
      BY <3>1, <3>2
  <2>3. PICK bitmap : OwnedIn(RefMap(e), bitmap, 0)
    BY DEF Unmarked
  <2> HIDE DEF e, x
  <2>4. x = e.inodes[ino].indirect /\ x # 0
    BY <1>2, <2>1 DEF x
  <2>5. PointerImaged(e, ino, fb, 0, [e EXCEPT !.blocks[x] = [e.blocks[x] EXCEPT !.ptrs[m] = 0]])
    BY <1>1, <2>1, <2>3, <2>4, PointerImage
  <2>6. QED
    BY <2>2, <2>5
<1>7. /\ d \in Disk /\ d.inodes = a.disk.inodes /\ d.bitmap = a.disk.bitmap /\ NamesKept(a.disk, d)
      /\ RefMap(d) = RefSet(RefMap(a.disk), <<ino, fb>>, 0)
  BY <1>5 DEF PointerImaged, Unmarked
<1> HIDE DEF d
<1>8. Sound(d, ino)
  BY <1>1, <1>7, SoundCleared DEF Unmarked
<1>9. s \in Contexts /\ s.disk = d /\ s.inode = a.inode
  BY <1>4 DEF Leaves
<1>10. LogOK(s, ino)
  <2>1. s.ram.bitmap = d.bitmap /\ LogOK(a, ino)
    BY <1>4, <1>7 DEF Unmarked, LogOK
  <2>2. QED
    BY <1>1, <1>4, <1>8, <2>1, LogImage
<1>11. NamedOK(d, 0) /\ ~IsDir(d, ino)
  BY <1>7, NamedKept DEF Unmarked, IsDir
<1>12. RefMap(Eff(s, ino)) = RefSet(RefMap(e), <<ino, fb>>, 0)
  BY <1>6 DEF PointerImaged
<1>13. Within(RefMap(Eff(s, ino)), RefMap(d)) /\ OwnedIn(RefMap(Eff(s, ino)), s.ram.bitmap, 0)
  BY <1>4, <1>7, <1>12 DEF Unmarked
<1>14. Shrinking(s, ino)
  BY <1>7, <1>8, <1>9, <1>10, <1>11, <1>13 DEF Shrinking, Unmarked
<1>15. TableKept(a, s)
  <2>1. Whole(a.disk, 0) => Whole(d, 0)
    BY <1>1, <1>7, WholeCleared DEF Unmarked
  <2>2. QED
    BY <1>4, <1>7, <1>9, <2>1, SameRam DEF TableKept
<1>16. GivesUp(a, s, ino, fb)
  BY <1>4, <1>7, <1>9, <1>12 DEF GivesUp, Leaves
<1>17. QED
  BY <1>14, <1>15, <1>16 DEF s

\* A file that has given up a block leaks no more than it did.
LEMMA GivenUpTight ==
  ASSUME NEW ino \in Inodes, NEW c, Shrinking(c, ino), NEW fb \in Nat,
         NEW b, b = GetBlock(c.disk, c.inode, fb), b # 0, NEW a, Unmarks(c, a, ino, b),
         NEW s, GivesUp(a, s, ino, fb), NEW x, Shrinking(x, ino),
         x.disk = s.disk, x.ram = s.ram, x.lost = s.lost, RefMap(Eff(x, ino)) = RefMap(Eff(s, ino)),
         x.inode.block_count = Minus(s.inode.block_count, 1)
  PROVE  Tightens(c, x, ino)
<1> DEFINE R == RefMap(Eff(c, ino))
           S == RefMap(Eff(x, ino))
           d == Eff(c, ino)
           e == Eff(x, ino)
<1>1. /\ fb < Table /\ <<ino, fb>> \in Places /\ R[<<ino, fb>>] = b /\ fb \in Nat
  BY ShrinkingHere
<1>2. fb \in 0 .. Table - 1
  BY <1>1, Constants DEF Table
<1>3. /\ c \in Contexts /\ x \in Contexts /\ c.ram.bitmap = c.disk.bitmap
      /\ x.ram.bitmap = x.disk.bitmap /\ OwnedIn(R, c.ram.bitmap, 0)
      /\ c.inode.type = c.disk.inodes[ino].type /\ x.inode.type = x.disk.inodes[ino].type
  BY DEF Shrinking, LogOK
<1>4. /\ x.lost = c.lost /\ x.disk.inodes = c.disk.inodes /\ x.ram.bitmap = c.ram.bitmap \ {b}
      /\ S = RefSet(R, <<ino, fb>>, 0) /\ x.inode.block_count = Minus(c.inode.block_count, 1)
  BY DEF Unmarks, GivesUp
<1>5. /\ e.bitmap = d.bitmap \ {b} /\ e.inodes[ino] = x.inode /\ d.inodes[ino] = c.inode
      /\ x.inode.type = c.inode.type
      /\ \A i \in Inodes \ {ino} : e.inodes[i] = d.inodes[i]
      /\ R \in [Places -> Block0]
  <2>1. /\ e.bitmap = x.disk.bitmap /\ e.inodes[ino] = x.inode
        /\ \A i \in Inodes \ {ino} : e.inodes[i] = x.disk.inodes[i]
    BY <1>3, EffFacts
  <2>2. /\ d \in Disk /\ d.bitmap = c.disk.bitmap /\ d.inodes[ino] = c.inode
        /\ \A i \in Inodes \ {ino} : d.inodes[i] = c.disk.inodes[i]
    BY <1>3, EffFacts
  <2>3. R \in [Places -> Block0]
    BY <2>2, RefMapFacts
  <2> HIDE DEF R, S, d, e
  <2>4. QED
    BY <1>3, <1>4, <2>1, <2>2, <2>3
<1>6. S[<<ino, fb>>] = 0 /\ \A p \in Places : p # <<ino, fb>> => S[p] = R[p]
  BY <1>1, <1>4, <1>5 DEF RefSet
<1>7. RefMap(d) = R /\ RefMap(e) = S
  OBVIOUS
<1>8. \A i \in Inodes, f \in 0 .. Table : <<i, f>> \in Places
  BY DEF Places
<1> HIDE DEF R, S, d, e
<1>9. SUFFICES ASSUME Tight(d) PROVE Tight(e)
  BY <1>4 DEF Tightens, TightIn, d, e
<1>10. ASSUME NEW y \in e.bitmap PROVE \E p \in Places : S[p] = y
  <2>1. PICK p \in Places : R[p] = y
    BY <1>5, <1>7, <1>9 DEF Tight
  <2>2. p # <<ino, fb>>
    BY <1>1, <1>5, <2>1
  <2>3. QED
    BY <1>6, <2>1, <2>2
<1>11. ASSUME NEW i \in Inodes, NEW f \in 0 .. Table, i # ino \/ f # fb
       PROVE  S[<<i, f>>] = R[<<i, f>>]
  <2>1. <<i, f>> # <<ino, fb>>
    BY <1>11
  <2>2. QED
    BY <1>6, <1>8, <2>1
<1>12. ASSUME NEW i \in Inodes PROVE e.inodes[i].block_count = Cardinality(DataOf(S, i))
  <2>1. CASE i # ino
    <3>1. DataOf(S, i) = DataOf(R, i)
      BY <1>11, <2>1, Constants DEF DataOf, Table
    <3>2. QED
      BY <1>5, <1>7, <1>9, <2>1, <3>1 DEF Tight
  <2>2. CASE i = ino
    <3>1. c.inode.block_count = Cardinality(DataOf(R, ino))
      BY <1>5, <1>7, <1>9 DEF Tight
    <3>2. \A f \in 0 .. Table - 1 : f # fb => S[<<ino, f>>] = R[<<ino, f>>]
      BY <1>11, Constants DEF Table
    <3>3. Minus(c.inode.block_count, 1) = Cardinality(DataOf(S, ino))
      BY <1>1, <1>2, <1>3, <1>5, <1>6, <3>1, <3>2, DataOut
    <3>4. QED
      BY <1>4, <1>5, <2>2, <3>3
  <2>3. QED
    BY <2>1, <2>2
<1>13. ASSUME NEW i \in Inodes, e.inodes[i].type = "FREE", NEW f \in 0 .. Table
       PROVE  S[<<i, f>>] = 0
  <2>1. d.inodes[i].type = "FREE"
    BY <1>5, <1>13
  <2>2. R[<<i, f>>] = 0
    BY <1>7, <1>9, <2>1 DEF Tight
  <2>3. QED
    BY <1>6, <1>8, <2>2
<1>14. QED
  BY <1>7, <1>10, <1>12, <1>13 DEF Tight

\* One file block is given back.
LEMMA FreeFileBlockShrinks ==
  ASSUME NEW ino \in Inodes, NEW c, Shrinking(c, ino), NEW fb \in Nat
  PROVE  /\ Shrinking(FreeFileBlock(c, fb), ino) /\ TableKept(c, FreeFileBlock(c, fb))
         /\ Tightens(c, FreeFileBlock(c, fb), ino)
<1> DEFINE b == GetBlock(c.disk, c.inode, fb)
           s == SetBlock(FreeBlock(c, b), fb, 0)
           n == Minus(s.inode.block_count, 1)
           x == [s EXCEPT !.inode.block_count = n]
<1>1. FreeFileBlock(c, fb) = IF b = 0 THEN c ELSE x
  BY DEF FreeFileBlock
<1>2. CASE b = 0
  BY <1>1, <1>2, SameRam DEF TableKept, Tightens
<1>3. CASE b # 0
  <2>1. /\ Unmarked(FreeBlock(c, b), ino, fb) /\ TableKept(c, FreeBlock(c, b))
        /\ Unmarks(c, FreeBlock(c, b), ino, b)
    BY <1>3, FreeUnmarks
  <2>2. Shrinking(s, ino) /\ TableKept(c, s) /\ GivesUp(FreeBlock(c, b), s, ino, fb)
    <3> DEFINE a == FreeBlock(c, b)
    <3> HIDE DEF a, b
    <3>1. Unmarked(a, ino, fb) /\ TableKept(c, a)
      BY <2>1 DEF a
    <3>2. /\ Shrinking(SetBlock(a, fb, 0), ino) /\ TableKept(a, SetBlock(a, fb, 0))
          /\ GivesUp(a, SetBlock(a, fb, 0), ino, fb)
      BY <3>1, ClearsDirect, ClearsPointer
    <3>3. QED
      BY <3>1, <3>2, TableKeptTrans DEF a
  <2> HIDE DEF s
  <2>3. s \in Contexts /\ s.inode \in Inode /\ s.disk \in Disk
    BY <2>2 DEF Shrinking, Contexts
  <2>4. n \in 0 .. Word - 1
    BY <2>3, CountTypes DEF Inode
  <2> HIDE DEF n
  <2> DEFINE i == [s.inode EXCEPT !.block_count = n]
  <2>5. /\ i \in Inode /\ i.direct = s.inode.direct /\ i.indirect = s.inode.indirect
        /\ i.type = s.inode.type /\ i.block_count = n
    BY <2>3, <2>4 DEF Inode
  <2>6. x = [s EXCEPT !.inode = i]
    OBVIOUS
  <2> HIDE DEF i
  <2>7. /\ x \in Contexts /\ x.disk = s.disk /\ x.log = s.log /\ x.ram = s.ram /\ x.inode = i
        /\ x.lost = s.lost
    BY <2>3, <2>5, <2>6 DEF Contexts
  <2> HIDE DEF x
  <2>8. RefMap(Eff(x, ino)) = RefMap(Eff(s, ino))
    BY <2>3, <2>5, <2>7, EffSamePointers
  <2>9. Shrinking(x, ino)
    BY <2>2, <2>5, <2>7, <2>8 DEF Shrinking, LogOK
  <2>10. TableKept(c, x)
    BY <2>2, <2>7, SameRam, TableKeptTrans DEF TableKept
  <2>11. Tightens(c, x, ino)
    <3>1. x.inode.block_count = Minus(s.inode.block_count, 1)
      BY <2>5, <2>7 DEF n
    <3> DEFINE a == FreeBlock(c, b)
    <3>2. Unmarks(c, a, ino, b) /\ GivesUp(a, s, ino, fb)
      BY <2>1, <2>2
    <3> HIDE DEF a
    <3>3. x.disk = s.disk /\ x.ram = s.ram /\ x.lost = s.lost
      BY <2>7
    <3>4. b = GetBlock(c.disk, c.inode, fb)
      OBVIOUS
    <3> HIDE DEF b
    <3>5. QED
      BY <1>3, <2>8, <2>9, <3>1, <3>2, <3>3, <3>4, GivenUpTight
  <2>12. QED
    BY <1>1, <1>3, <2>9, <2>10, <2>11
<1>4. QED
  BY <1>2, <1>3

\* So are the last ones of a file.
LEMMA CutShrinks ==
  ASSUME NEW ino \in Inodes, NEW c, Shrinking(c, ino), NEW first \in Nat, NEW end \in Nat, first <= end
  PROVE  /\ Shrinking(Cut(c, first, end), ino) /\ TableKept(c, Cut(c, first, end))
         /\ Tightens(c, Cut(c, first, end), ino)
<1> DEFINE N == end - first
           X == {a \in Contexts : Shrinking(a, ino) /\ TableKept(c, a) /\ Tightens(c, a, ino)}
           Good(f) == f = [n \in 0 .. N |->
                             IF n = 0 THEN c ELSE FreeFileBlock(f[n - 1], first + n - 1)]
           at == CHOOSE f : Good(f)
           next == [n \in 1 .. N |-> [a \in X |-> FreeFileBlock(a, first + n - 1)]]
<1>0. N \in Nat
  OBVIOUS
<1>1. c \in X
  BY SameRam DEF Shrinking, TableKept, Tightens
<1>2. ASSUME NEW a \in X, NEW n \in 1 .. N PROVE FreeFileBlock(a, first + n - 1) \in X
  <2>1. first + n - 1 \in Nat /\ Shrinking(a, ino) /\ TableKept(c, a) /\ Tightens(c, a, ino)
    BY <1>0
  <2> DEFINE x == FreeFileBlock(a, first + n - 1)
  <2>2. Shrinking(x, ino) /\ TableKept(a, x) /\ Tightens(a, x, ino)
    BY <2>1, FreeFileBlockShrinks
  <2> HIDE DEF x
  <2>3. TableKept(c, x) /\ x \in Contexts
    BY <2>1, <2>2, TableKeptTrans DEF Shrinking
  <2>4. Tightens(c, x, ino)
    BY <2>1, <2>2, TightensTrans DEF TableKept
  <2>5. QED
    BY <2>2, <2>3, <2>4 DEF x
<1> HIDE DEF X
<1>3. next \in [1 .. N -> [X -> X]]
  <2> HIDE DEF N
  <2>1. QED
    BY <1>2
<1>4. PICK f : IsRounds(f, X, c, N, next)
  <2> HIDE DEF next, N
  <2>1. QED
    BY <1>0, <1>1, <1>3, Rounds
<1>5. \A n \in 1 .. N : f[n] = FreeFileBlock(f[n - 1], first + n - 1)
  <2>1. SUFFICES ASSUME NEW n \in 1 .. N PROVE f[n] = FreeFileBlock(f[n - 1], first + n - 1)
    OBVIOUS
  <2>2. f[n - 1] \in X /\ f[n] = next[n][f[n - 1]]
    BY <1>4 DEF IsRounds
  <2> HIDE DEF N
  <2>3. QED
    BY <2>2
<1>6. Good(f)
  BY <1>4, <1>5 DEF IsRounds
<1>7. Good(at)
  <2> HIDE DEF Good
  <2>1. QED
    BY <1>6, Zenon
<1>8. Cut(c, first, end) = at[N]
  BY DEF Cut
<1> HIDE DEF at
<1>9. at[0] = c /\ \A n \in 1 .. N : at[n] = FreeFileBlock(at[n - 1], first + n - 1)
  BY <1>0, <1>7
<1> DEFINE T == {n \in 0 .. N : at[n] \in X}
<1> HIDE DEF N
<1>10. 0 \in T
  BY <1>0, <1>1, <1>9
<1>11. ASSUME NEW m \in 0 .. N - 1, m \in T PROVE m + 1 \in T
  <2>1. at[m + 1] = FreeFileBlock(at[(m + 1) - 1], first + (m + 1) - 1)
        /\ (m + 1) - 1 = m /\ m + 1 \in 1 .. N
    BY <1>0, <1>9
  <2>2. at[m] \in X
    BY <1>11
  <2>3. FreeFileBlock(at[m], first + (m + 1) - 1) \in X
    BY <1>2, <2>1, <2>2
  <2>4. QED
    BY <2>1, <2>3
<1> HIDE DEF T
<1>12. 0 .. N \subseteq T
  BY <1>0, <1>10, <1>11, UpTo
<1>13. at[N] \in X
  BY <1>0, <1>12 DEF T
<1>14. QED
  BY <1>8, <1>13 DEF X

\* A file is cut to size, or its size set beyond what it has.
LEMMA TruncatedSound ==
  ASSUME NEW ino \in Inodes, NEW c \in Contexts, LogOK(c, ino), Sound(c.disk, 0), ~IsDir(c.disk, ino),
         c.disk.inodes[ino].type # "FREE", NEW size \in Nat
  PROVE  /\ Done(Truncated(c, ino, size), ino)
         /\ Counted(c) => Counted(Truncated(c, ino, size))
         /\ LeakFree(c, Truncated(c, ino, size))
         /\ OrphanFree(c, Truncated(c, ino, size))
<1> DEFINE old == c.disk.inodes[ino]
           start == [c EXCEPT !.inode = old]
           freed == IF size >= old.size THEN start ELSE Cut(start, size, old.size)
           n == [freed.inode EXCEPT !.size = size]
           w == WriteInode(freed, ino, n)
<1>1. Truncated(c, ino, size) = w
  BY DEF Truncated
<1>2. c.disk \in Disk /\ old \in Inode /\ old.size \in Nat
  BY DEF Contexts, Disk, Inode
<1>3. /\ start \in Contexts /\ start.disk = c.disk /\ start.log = c.log /\ start.ram = c.ram
      /\ start.inode = old
  BY <1>2 DEF Contexts
<1> HIDE DEF start
<1>4. Eff(start, ino) = c.disk
  BY <1>2, <1>3 DEF Eff, Disk
<1>5. Shrinking(start, ino)
  <2>1. Eff(start, ino) = c.disk
    BY <1>4
  <2>2. OwnedIn(RefMap(c.disk), c.ram.bitmap, 0) /\ NamedOK(c.disk, 0) /\ Within(RefMap(c.disk), RefMap(c.disk))
    BY DEF Sound, LogOK, Within
  <2>3. Sound(c.disk, ino)
    BY SoundForAny
  <2>4. QED
    BY <1>3, <2>1, <2>2, <2>3 DEF Shrinking, LogOK
<1>6. Shrinking(freed, ino) /\ TableKept(start, freed) /\ Tightens(start, freed, ino)
  <2>1. CASE size >= old.size
    BY <1>5, <2>1, SameRam DEF TableKept, Tightens
  <2>2. CASE ~(size >= old.size)
    <3>1. size <= old.size
      BY <1>2, <2>2
    <3>2. /\ Shrinking(Cut(start, size, old.size), ino) /\ TableKept(start, Cut(start, size, old.size))
          /\ Tightens(start, Cut(start, size, old.size), ino)
      BY <1>2, <1>5, <3>1, CutShrinks
    <3>3. QED
      BY <2>2, <3>2
  <2>3. QED
    BY <2>1, <2>2
<1> HIDE DEF freed
<1>7. freed \in Contexts /\ freed.disk \in Disk /\ freed.inode \in Inode
  BY <1>6 DEF Shrinking, Contexts
<1>8. /\ n \in Inode /\ n.type = freed.inode.type /\ n.direct = freed.inode.direct
      /\ n.indirect = freed.inode.indirect /\ n.block_count = freed.inode.block_count
  BY <1>7 DEF Inode
<1> HIDE DEF n
<1> DEFINE d == [freed.disk EXCEPT !.inodes[ino] = n]
<1>9. Leaves(freed, w, d) /\ w.ram = freed.ram
  BY <1>7, <1>8, WritesLeave
<1>10. RefMap(d) = RefMap(Eff(freed, ino)) /\ d.bitmap = freed.disk.bitmap
  <2> DEFINE a == [freed EXCEPT !.inode = n]
  <2>1. a \in Contexts /\ a.disk = freed.disk /\ a.inode = n
    BY <1>7, <1>8 DEF Contexts
  <2>2. Eff(a, ino) = d
    BY <2>1 DEF Eff
  <2> HIDE DEF a
  <2>3. RefMap(Eff(a, ino)) = RefMap(Eff(freed, ino))
    BY <1>7, <1>8, <2>1, EffSamePointers
  <2>4. d.bitmap = freed.disk.bitmap
    BY <1>7 DEF Disk
  <2>5. QED
    BY <2>2, <2>3, <2>4
<1>11. \A i \in Inodes : d.inodes[i].type = c.disk.inodes[i].type
  BY <1>2, <1>3, <1>6, <1>7, <1>8 DEF TableKept, Shrinking, Disk
<1>12. Tight(c.disk) /\ "blocks" \notin freed.lost => Tight(d)
  <2>1. SUFFICES ASSUME Tight(c.disk), "blocks" \notin freed.lost PROVE Tight(d)
    OBVIOUS
  <2>2. TightIn(start, ino) /\ start.disk.inodes[ino].type # "FREE"
    BY <1>3, <1>4, <2>1 DEF TightIn
  <2>3. TightIn(freed, ino)
    BY <1>6, <2>2 DEF Tightens
  <2>4. QED
    BY <1>7, <1>8, <2>1, <2>3, TightEnd
<1>13. Sound(d, 0)
  <2>1. OwnedIn(RefMap(d), d.bitmap, 0) /\ NamedOK(freed.disk, 0) /\ Sound(freed.disk, ino)
        /\ n.type = freed.disk.inodes[ino].type /\ ~IsDir(freed.disk, ino)
    BY <1>6, <1>8, <1>10 DEF Shrinking, LogOK
  <2>2. QED
    BY <1>8, <2>1, SoundFile
<1> HIDE DEF d, w
<1>14. LogOK(w, ino)
  <2>1. w.ram.bitmap = d.bitmap /\ LogOK(freed, ino) /\ Sound(d, ino)
    BY <1>6, <1>9, <1>10, <1>13, SoundForAny DEF Shrinking, LogOK
  <2>2. QED
    BY <1>7, <1>9, <2>1, LogImage
<1>15. Done(w, ino)
  BY <1>9, <1>13, <1>14 DEF Done, Leaves
<1>16. Counted(c) => Counted(w)
  <2>1. BlocksKept(c, start) /\ BlocksKept(start, freed)
    BY <1>3, <1>6, SameRam DEF TableKept
  <2>2. w.ram = freed.ram /\ w.disk = d
    BY <1>9 DEF Leaves
  <2>3. QED
    BY <1>11, <2>1, <2>2, BlocksKeptTrans, CountsEnd
<1>17. LeakFree(c, w)
  BY <1>9, <1>12 DEF LeakFree, Leaves
<1>18. OrphanFree(c, w)
  <2>1. SUFFICES ASSUME Whole(c.disk, 0) PROVE Whole(d, 0)
    BY <1>9 DEF OrphanFree, Leaves
  <2>2. Whole(freed.disk, 0) /\ ~IsDir(freed.disk, ino) /\ n.type = freed.disk.inodes[ino].type
    BY <1>3, <1>6, <1>8, <2>1 DEF TableKept, Shrinking
  <2>3. QED
    BY <1>7, <1>8, <2>2, WholeFile DEF d
<1>19. QED
  BY <1>1, <1>15, <1>16, <1>17, <1>18 DEF w

-----------------------------------------------------------------------------
(* The state                                                                *)

\* The rest of a log.
LEMMA TailFacts ==
  ASSUME NEW log \in Seq(Disk), log # <<>>
  PROVE  LET rest == Tail(log) IN
         /\ rest \in Seq(Disk) /\ Len(log) \in Nat /\ Len(log) >= 1 /\ Len(rest) = Len(log) - 1
         /\ DOMAIN log = 1 .. Len(log) /\ DOMAIN rest = 1 .. Len(rest)
         /\ \A i \in 1 .. Len(rest) : rest[i] = log[i + 1]
         /\ rest = <<>> <=> Len(log) = 1
<1> DEFINE rest == Tail(log)
<1>1. rest \in Seq(Disk) /\ Len(rest) = Len(log) - 1 /\ \A i \in 1 .. Len(rest) : rest[i] = log[i + 1]
  BY HeadTailProperties
<1>2. Len(log) \in Nat /\ DOMAIN log = 1 .. Len(log) /\ Len(log) # 0
  BY EmptySeq
<1> HIDE DEF rest
<1>3. DOMAIN rest = 1 .. Len(rest) /\ (rest = <<>> <=> Len(rest) = 0)
  BY <1>1, EmptySeq
<1>4. QED
  BY <1>1, <1>2, <1>3 DEF rest

\* There is none in an empty one.
LEMMA NoneInEmpty == <<>> \in Seq(Disk) /\ \A i \in DOMAIN <<>> : FALSE
<1>1. <<>> \in Seq(Disk) /\ Len(<<>>) = 0
  BY EmptySeq
<1>2. DOMAIN <<>> = 1 .. Len(<<>>)
  BY <1>1, LenProperties
<1>3. QED
  BY <1>1, <1>2

\* What the images still to come are: the last one leaves no inode in hand.
PendingOK ==
  /\ pending \in Seq(Disk)
  /\ \A i \in DOMAIN pending : Sound(pending[i], IF i = Len(pending) THEN 0 ELSE victim)

\* The bitmap in memory is the one that will be on the disk when the operation is over.
RamOK ==
  /\ busy = "idle" /\ mounted => ram.bitmap = disk.bitmap
  /\ busy # "idle" => mounted /\ ram.bitmap = pending[Len(pending)].bitmap

\* The disk as it will be when the operation in progress is over.
Settled == IF busy = "idle" THEN disk ELSE pending[Len(pending)]

\* The counts in memory are those of the disk to be; unmounting writes them there.
CountsOK ==
  IF mounted
  THEN /\ ram.sb.free_blocks = Cardinality(Blocks \ ram.bitmap)
       /\ ram.sb.free_inodes = Cardinality(FreeInodes(Settled))
  ELSE /\ disk.sb.free_blocks = Cardinality(Blocks \ disk.bitmap)
       /\ disk.sb.free_inodes = Cardinality(FreeInodes(disk))

\* When the operation in progress is over, the disk has leaked no block, if none
\* has been lost before; and no inode is then left in hand.
LeakOK ==
  "blocks" \notin lost => Tight(Settled) /\ (busy = "idle" => victim = 0)

\* So it is with inodes and the paths to them.
OrphanOK == "inodes" \notin lost => Whole(Settled, 0)

\* The disk is sound now, and at every write to come; the counts are right until
\* the first crash, which loses those in memory.
Inv ==
  /\ TypeOK /\ Sound(disk, victim) /\ PendingOK /\ RamOK
  /\ ~crashed => CountsOK
  /\ LeakOK /\ OrphanOK

\* A disk just formatted refers to no block and lists nothing.
LEMMA FormattedSound ==
  Sound(FormattedDisk, 0) /\ \A p \in Places : RefMap(FormattedDisk)[p] = 0
<1> DEFINE d == FormattedDisk
<1>1. d \in Disk
  <2>1. NBlocks \in 0 .. Word - 1 /\ NInodes - 2 \in 0 .. Word - 1
    BY Constants
  <2>2. [ZeroInode EXCEPT !.type = "DIR"] \in Inode
    BY ZeroTypes DEF Inode, Types
  <2>3. QED
    BY <2>1, <2>2, ZeroTypes DEF FormattedDisk, Disk, Counts
<1>2. \A i \in Inodes : /\ d.inodes[i].size = 0 /\ d.inodes[i].indirect = 0
                        /\ \A m \in 1 .. NDirect : d.inodes[i].direct[m] = 0
                        /\ d.inodes[i].type = IF i = Root THEN "DIR" ELSE "FREE"
  BY DEF FormattedDisk, ZeroInode
<1> HIDE DEF d
<1>3. \A p \in Places : RefMap(d)[p] = 0
  <2>1. SUFFICES ASSUME NEW p \in Places PROVE RefMap(d)[p] = 0
    OBVIOUS
  <2>2. PICK i \in Inodes, f \in 0 .. Table : p = <<i, f>>
    BY DEF Places
  <2>3. d.inodes[i] \in Inode /\ RefMap(d)[p] = OwnedBlock(d, d.inodes[i], f)
    BY <1>1, <2>2, RefMapFacts DEF Disk
  <2>4. f < NDirect => f + 1 \in 1 .. NDirect
    BY Constants
  <2>5. QED
    BY <1>1, <1>2, <2>3, <2>4, OwnedBlockCases, Constants DEF Table
<1>4. \A i \in Inodes : Listed(d, i) = {}
  <2>1. SUFFICES ASSUME NEW i \in Inodes, NEW k \in Listed(d, i) PROVE FALSE
    OBVIOUS
  <2>2. k \in Nat /\ k < 0
    BY <1>1, <1>2, ListedAt
  <2>3. QED
    BY <2>2
<1>5. OwnedIn(RefMap(d), d.bitmap, 0)
  BY <1>3 DEF OwnedIn
<1>6. DirsOK(d)
  BY <1>2, Constants DEF DirsOK, NoHole
<1>7. NamedOK(d, 0) /\ NamedOnce(d)
  BY <1>4 DEF NamedOK, NamedOnce
<1>8. d.inodes[Root].type = "DIR"
  BY <1>2, Constants
<1>9. QED
  BY <1>1, <1>3, <1>5, <1>6, <1>7, <1>8 DEF Sound, d

\* Nor does it mark any: none leaks.
LEMMA FormattedTight == Tight(FormattedDisk)
<1> DEFINE d == FormattedDisk
<1>1. d.bitmap = {} /\ \A i \in Inodes : d.inodes[i].block_count = 0
  BY DEF FormattedDisk, ZeroInode
<1> HIDE DEF d
<1>2. \A i \in Inodes, f \in 0 .. Table : RefMap(d)[<<i, f>>] = 0
  <2>1. \A i \in Inodes, f \in 0 .. Table : <<i, f>> \in Places
    BY DEF Places
  <2>2. QED
    BY <2>1, FormattedSound DEF d
<1>3. \A i \in Inodes : Cardinality(DataOf(RefMap(d), i)) = 0
  <2>1. SUFFICES ASSUME NEW i \in Inodes PROVE Cardinality(DataOf(RefMap(d), i)) = 0
    OBVIOUS
  <2>2. DataOf(RefMap(d), i) = {}
    BY <1>2, Constants DEF DataOf, Table
  <2>3. QED
    BY <2>2, FS_EmptySet
<1>4. QED
  BY <1>1, <1>2, <1>3 DEF Tight, d

\* Its only inode is the root, and that is empty.
LEMMA FormattedWhole == Whole(FormattedDisk, 0)
<1> DEFINE d == FormattedDisk
<1>1. d \in Disk
  BY FormattedSound DEF Sound
<1>2. Live(d) = {Root} /\ \A i \in Inodes : d.inodes[i].size = 0
  BY Constants DEF Live, FormattedDisk, ZeroInode
<1> HIDE DEF d
<1>3. Live(d) \subseteq Reachable(d)
  BY <1>1, <1>2, ReachClosed
<1>4. Full(d)
  BY <1>2 DEF Full
<1>5. QED
  BY <1>3, <1>4 DEF Whole, d

\* Its superblock says so: all blocks are free, and all inodes but the root.
LEMMA FormattedCounts ==
  /\ FormattedDisk.sb.free_blocks = Cardinality(Blocks \ FormattedDisk.bitmap)
  /\ FormattedDisk.sb.free_inodes = Cardinality(FreeInodes(FormattedDisk))
<1>1. Blocks \ FormattedDisk.bitmap = Blocks
  BY DEF FormattedDisk
<1>2. FreeInodes(FormattedDisk) = Inodes \ {Root}
  BY DEF FreeInodes, FormattedDisk, ZeroInode
<1>3. Cardinality(Inodes \ {Root}) = NInodes - 2
  <2>1. Root \in Inodes /\ IsFiniteSet(Inodes) /\ Cardinality(Inodes) = NInodes - 1 /\ NInodes \in Nat
    BY FiniteParts, Constants
  <2>2. Cardinality(Inodes \ {Root}) = Cardinality(Inodes) - 1
    BY <2>1, FS_RemoveElement
  <2>3. QED
    BY <2>1, <2>2
<1>4. QED
  BY <1>1, <1>2, <1>3, FiniteParts DEF FormattedDisk

\* An operation that is done starts to be written.
LEMMA RunKeeps ==
  ASSUME Inv, Ready, NEW op \in {"create", "write", "unlink", "truncate"},
         NEW v \in 0 .. NInodes - 1, NEW c, Done(c, v), ~crashed => Counted(c), LeakFree(Context, c),
         OrphanFree(Context, c), Run(op, v, c)
  PROVE  Inv'
<1> DEFINE log == c.log
           rest == Tail(log)
<1>1. /\ log \in Seq(Disk) /\ log # <<>> /\ c.ram \in Ram /\ c.lost \subseteq {"blocks", "inodes"}
      /\ Sound(c.disk, 0) /\ log[Len(log)] = c.disk /\ c.ram.bitmap = c.disk.bitmap
      /\ \A n \in DOMAIN log : Sound(log[n], v)
  BY DEF Done, LogOK, Contexts, Run
<1>2. /\ disk' = log[1] /\ pending' = rest /\ ram' = c.ram /\ lost' = lost \cup c.lost
      /\ busy' = (IF rest = <<>> THEN "idle" ELSE op) /\ victim' = (IF rest = <<>> THEN 0 ELSE v)
      /\ mounted' = mounted /\ restarts' = restarts /\ crashed' = crashed
  BY <1>1 DEF Run
<1> HIDE DEF log
<1>3. /\ rest \in Seq(Disk) /\ Len(log) \in Nat /\ Len(log) >= 1 /\ Len(rest) = Len(log) - 1
      /\ DOMAIN log = 1 .. Len(log) /\ DOMAIN rest = 1 .. Len(rest)
      /\ \A i \in 1 .. Len(rest) : rest[i] = log[i + 1]
      /\ (rest = <<>> <=> Len(log) = 1)
  BY <1>1, TailFacts
<1> HIDE DEF rest
<1>4. \A i \in DOMAIN rest : Sound(rest[i], IF i = Len(rest) THEN 0 ELSE v)
  <2>1. SUFFICES ASSUME NEW i \in DOMAIN rest PROVE Sound(rest[i], IF i = Len(rest) THEN 0 ELSE v)
    OBVIOUS
  <2>2. rest[i] = log[i + 1] /\ i + 1 \in DOMAIN log /\ (i = Len(rest) <=> i + 1 = Len(log))
    BY <1>3
  <2>3. QED
    BY <1>1, <2>2
<1>5. rest # <<>> => rest[Len(rest)] = c.disk
  <2>1. SUFFICES ASSUME rest # <<>> PROVE rest[Len(rest)] = c.disk
    OBVIOUS
  <2>2. Len(rest) \in 1 .. Len(rest) /\ Len(rest) + 1 = Len(log)
    BY <1>3, <2>1
  <2>3. QED
    BY <1>1, <1>3, <2>2
<1>6. Sound(log[1], IF rest = <<>> THEN 0 ELSE v) /\ (rest = <<>> => log[1] = c.disk)
  <2>1. 1 \in DOMAIN log
    BY <1>3
  <2>2. QED
    BY <1>1, <1>3, <2>1
<1>7. log[1] \in Disk /\ \A i \in DOMAIN rest : rest[i] \in Disk
  BY <1>4, <1>6 DEF Sound
<1>8. Sound(disk, victim)'
  BY <1>2, <1>6
<1>9. PendingOK'
  <2>1. CASE rest = <<>>
    BY <1>2, <1>3, <2>1 DEF PendingOK
  <2>2. CASE rest # <<>>
    BY <1>2, <1>3, <1>4, <2>2 DEF PendingOK
  <2>3. QED
    BY <2>1, <2>2
<1>10. RamOK'
  BY <1>1, <1>2, <1>5, <1>6 DEF RamOK, Ready
<1>11. TypeOK'
  <2>1. 0 \in 0 .. NInodes - 1
    BY Constants
  <2>2. QED
    BY <1>1, <1>2, <1>7, <2>1 DEF Inv, TypeOK, Ram
<1>12. Settled' = c.disk
  <2>1. op # "idle"
    OBVIOUS
  <2>2. QED
    BY <1>2, <1>5, <1>6, <2>1 DEF Settled
<1>13. (~crashed => CountsOK)'
  BY <1>2, <1>12 DEF CountsOK, Counted, BlocksCounted, InodesCounted, Ready
<1>14. LeakOK'
  <2>1. SUFFICES ASSUME "blocks" \notin lost' PROVE Tight(Settled') /\ (busy' = "idle" => victim' = 0)
    BY DEF LeakOK
  <2>2. "blocks" \notin lost /\ "blocks" \notin c.lost
    BY <1>2, <2>1
  <2>3. Settled = disk /\ Context.disk = disk
    BY DEF Ready, Settled, Context
  <2>4. Tight(c.disk)
    BY <2>2, <2>3 DEF Inv, LeakOK, LeakFree
  <2>5. busy' = "idle" => victim' = 0
    BY <1>2
  <2>6. QED
    BY <1>12, <2>4, <2>5
<1>15. OrphanOK'
  <2>1. SUFFICES ASSUME "inodes" \notin lost' PROVE Whole(c.disk, 0)
    BY <1>12 DEF OrphanOK
  <2>2. "inodes" \notin lost /\ "inodes" \notin c.lost
    BY <1>2, <2>1
  <2>3. Settled = disk /\ Context.disk = disk
    BY DEF Ready, Settled, Context
  <2>4. QED
    BY <2>2, <2>3 DEF Inv, OrphanOK, OrphanFree
<1>16. QED
  BY <1>8, <1>9, <1>10, <1>11, <1>13, <1>14, <1>15 DEF Inv

\* What an operation starts with.
LEMMA ContextReady ==
  ASSUME Inv, Ready
  PROVE  /\ Context \in Contexts /\ Context.disk = disk /\ Sound(disk, 0) /\ disk \in Disk
         /\ \A v : LogOK(Context, v)
         /\ ~crashed => Counted(Context)
<1>1. disk \in Disk /\ Sound(disk, 0) /\ ram.bitmap = disk.bitmap
  BY DEF Inv, Ready, RamOK, Sound
<1>2. ram \in Ram /\ <<>> \in Seq(Disk)
  BY DEF Inv, TypeOK, Ram
<1>3. Context \in Contexts /\ Context.disk = disk /\ Context.ram = ram /\ Context.log = <<>>
  BY <1>1, <1>2, ZeroTypes DEF Context, Contexts
<1>4. \A v : LogOK(Context, v)
  BY <1>1, <1>3 DEF LogOK
<1>5. ~crashed => Counted(Context)
  BY <1>3 DEF Inv, Ready, CountsOK, Settled, Counted, BlocksCounted, InodesCounted
<1>6. QED
  BY <1>1, <1>3, <1>4, <1>5

\* A create or a symlink starts.
LEMMA CreateKeeps ==
  ASSUME Inv, Ready, NEW p \in Dirs, NEW name \in Names, NEW type \in Types \ {"FREE"},
         Create(p, name, type)
  PROVE  Inv'
<1>1. p \in Inodes /\ IsDir(disk, p)
  BY ContextReady, ReachableInodes DEF Dirs, IsDir
<1>2. /\ Done(Created(Context, p, name, type), 0) /\ LeakFree(Context, Created(Context, p, name, type))
      /\ OrphanFree(Context, Created(Context, p, name, type))
      /\ ~crashed => Counted(Created(Context, p, name, type))
  BY <1>1, ContextReady, CreatedSound DEF Create
<1>3. 0 \in 0 .. NInodes - 1
  BY Constants
<1>4. QED
  BY <1>2, <1>3, RunKeeps DEF Create

\* A write of a file starts.
LEMMA WriteKeeps ==
  ASSUME Inv, Ready, NEW ino \in Files, NEW offset \in 0 .. MaxFileSize, NEW n \in 1 .. MaxFileSize,
         Write(ino, offset, n)
  PROVE  Inv'
<1>1. /\ ino \in Inodes /\ ~IsDir(disk, ino) /\ disk.inodes[ino].type # "FREE"
      /\ offset \in Nat /\ n \in Nat
  BY ContextReady, ReachableInodes, Constants DEF Files, IsDir
<1>2. /\ Done(Written(Context, ino, offset, n), 0) /\ LeakFree(Context, Written(Context, ino, offset, n))
      /\ OrphanFree(Context, Written(Context, ino, offset, n))
      /\ ~crashed => Counted(Written(Context, ino, offset, n))
  BY <1>1, ContextReady, WrittenSound
<1>3. 0 \in 0 .. NInodes - 1
  BY Constants
<1>4. QED
  BY <1>2, <1>3, RunKeeps DEF Write

\* An unlink starts.
LEMMA UnlinkKeeps ==
  ASSUME Inv, Ready, NEW p \in Dirs, NEW name \in Names, Unlink(p, name)
  PROVE  Inv'
<1> DEFINE k == Min(Hits(disk, p, name))
           v == Entry(disk, p, k).inode
<1>1. p \in Inodes /\ IsDir(disk, p) /\ disk \in Disk
  BY ContextReady, ReachableInodes DEF Dirs, IsDir
<1>2. k \in Listed(disk, p)
  <2>1. Hits(disk, p, name) \subseteq Listed(disk, p) /\ Hits(disk, p, name) # {}
    BY DEF Hits, Unlink
  <2>2. Listed(disk, p) \subseteq Nat
    BY <1>1, ListedAt
  <2>3. QED
    BY <2>1, <2>2, MinLeast
<1>3. Run("unlink", v, Unlinked(Context, p, k))
  BY DEF Unlink
<1> HIDE DEF k
<1>4. v \in 0 .. NInodes - 1
  BY <1>1, <1>2, ListedAt DEF Inodes
<1>5. /\ Done(Unlinked(Context, p, k), v) /\ LeakFree(Context, Unlinked(Context, p, k))
      /\ OrphanFree(Context, Unlinked(Context, p, k))
      /\ ~crashed => Counted(Unlinked(Context, p, k))
  BY <1>1, <1>2, ContextReady, UnlinkedSound
<1> HIDE DEF v
<1>6. QED
  BY <1>3, <1>4, <1>5, RunKeeps

\* A truncate starts.
LEMMA TruncateKeeps ==
  ASSUME Inv, Ready, NEW ino \in Files, NEW size \in TruncateSizes, Truncate(ino, size)
  PROVE  Inv'
<1>1. ino \in Inodes /\ ~IsDir(disk, ino) /\ disk.inodes[ino].type # "FREE" /\ size \in Nat
  BY ContextReady, ReachableInodes, Constants DEF Files, IsDir
<1>2. /\ Done(Truncated(Context, ino, size), ino) /\ LeakFree(Context, Truncated(Context, ino, size))
      /\ OrphanFree(Context, Truncated(Context, ino, size))
      /\ ~crashed => Counted(Truncated(Context, ino, size))
  BY <1>1, ContextReady, TruncatedSound
<1>3. ino \in 0 .. NInodes - 1
  BY <1>1 DEF Inodes
<1>4. QED
  BY <1>2, <1>3, RunKeeps DEF Truncate

\* The next block of an operation gets to the disk.
LEMMA DiskWriteKeeps ==
  ASSUME Inv, DiskWrite
  PROVE  Inv'
<1> DEFINE rest == Tail(pending)
<1>1. /\ pending \in Seq(Disk) /\ pending # <<>> /\ busy # "idle"
      /\ \A i \in DOMAIN pending : Sound(pending[i], IF i = Len(pending) THEN 0 ELSE victim)
      /\ mounted /\ ram.bitmap = pending[Len(pending)].bitmap
  BY DEF Inv, PendingOK, RamOK, TypeOK, DiskWrite
<1>2. /\ disk' = pending[1] /\ pending' = rest
      /\ busy' = (IF rest = <<>> THEN "idle" ELSE busy) /\ victim' = (IF rest = <<>> THEN 0 ELSE victim)
      /\ UNCHANGED <<mounted, ram, restarts, crashed, lost>>
  BY <1>1 DEF DiskWrite
<1>3. /\ rest \in Seq(Disk) /\ Len(pending) \in Nat /\ Len(pending) >= 1
      /\ Len(rest) = Len(pending) - 1
      /\ DOMAIN pending = 1 .. Len(pending) /\ DOMAIN rest = 1 .. Len(rest)
      /\ \A i \in 1 .. Len(rest) : rest[i] = pending[i + 1]
      /\ (rest = <<>> <=> Len(pending) = 1)
  BY <1>1, TailFacts
<1> HIDE DEF rest
<1>4. \A i \in DOMAIN rest : Sound(rest[i], IF i = Len(rest) THEN 0 ELSE victim)
  <2>1. SUFFICES ASSUME NEW i \in DOMAIN rest
                 PROVE  Sound(rest[i], IF i = Len(rest) THEN 0 ELSE victim)
    OBVIOUS
  <2>2. rest[i] = pending[i + 1] /\ i + 1 \in DOMAIN pending /\ (i = Len(rest) <=> i + 1 = Len(pending))
    BY <1>3
  <2>3. QED
    BY <1>1, <2>2
<1>5. rest # <<>> => rest[Len(rest)] = pending[Len(pending)]
  <2>1. SUFFICES ASSUME rest # <<>> PROVE rest[Len(rest)] = pending[Len(pending)]
    OBVIOUS
  <2>2. Len(rest) \in 1 .. Len(rest) /\ Len(rest) + 1 = Len(pending)
    BY <1>3, <2>1
  <2>3. QED
    BY <1>3, <2>2
<1>6. /\ Sound(pending[1], IF rest = <<>> THEN 0 ELSE victim)
      /\ rest = <<>> => pending[1] = pending[Len(pending)]
  <2>1. 1 \in DOMAIN pending
    BY <1>3
  <2>2. QED
    BY <1>1, <1>3, <2>1
<1>7. pending[1] \in Disk /\ \A i \in DOMAIN rest : rest[i] \in Disk
  BY <1>4, <1>6 DEF Sound
<1>8. Sound(disk, victim)'
  BY <1>2, <1>6
<1>9. PendingOK'
  <2>1. CASE rest = <<>>
    BY <1>2, <1>3, <2>1 DEF PendingOK
  <2>2. CASE rest # <<>>
    BY <1>2, <1>3, <1>4, <2>2 DEF PendingOK
  <2>3. QED
    BY <2>1, <2>2
<1>10. RamOK'
  BY <1>1, <1>2, <1>5, <1>6 DEF RamOK
<1>11. TypeOK'
  <2>1. 0 \in 0 .. NInodes - 1
    BY Constants
  <2>2. QED
    BY <1>1, <1>2, <1>7, <2>1 DEF Inv, TypeOK
<1>12. Settled' = Settled
  BY <1>1, <1>2, <1>5, <1>6 DEF Settled
<1>13. (~crashed => CountsOK)'
  BY <1>1, <1>2, <1>12 DEF Inv, CountsOK
<1>14. LeakOK'
  BY <1>1, <1>2, <1>12 DEF Inv, LeakOK
<1>15. OrphanOK'
  BY <1>2, <1>12 DEF Inv, OrphanOK
<1>16. QED
  BY <1>8, <1>9, <1>10, <1>11, <1>13, <1>14, <1>15 DEF Inv

\* Unmount writes the counts, which no directory and no inode knows of.
LEMMA UnmountKeeps ==
  ASSUME Inv, Unmount
  PROVE  Inv'
<1>1. /\ disk \in Disk /\ Sound(disk, 0) /\ busy = "idle" /\ victim = 0 /\ pending = <<>>
      /\ ram.sb \in Counts
  BY DEF Inv, TypeOK, Unmount, Ready, Sound, Counts
<1>2. /\ disk' \in Disk /\ disk'.inodes = disk.inodes /\ disk'.blocks = disk.blocks
      /\ disk'.bitmap = disk.bitmap
  BY <1>1 DEF Unmount, Disk
<1>3. Alike(disk, disk')
  BY <1>1, <1>2, OtherImage
<1>4. Sound(disk', 0)
  <2>1. OwnedIn(RefMap(disk'), disk'.bitmap, 0) /\ Within(RefMap(disk), RefMap(disk'))
        /\ NamesKept(disk, disk')
    BY <1>1, <1>2, <1>3 DEF Alike, Sound, Within
  <2>2. QED
    BY <1>1, <1>2, <2>1, SoundKept
<1>5. NoRam \in [bitmap : SUBSET Blocks, sb : Counts] /\ restarts' \in 0 .. MaxRestarts
  <2>1. NoRam \in [bitmap : SUBSET Blocks, sb : Counts]
    BY Constants DEF NoRam, Counts
  <2>2. restarts' \in 0 .. MaxRestarts
    BY Constants DEF Inv, TypeOK, Unmount
  <2>3. QED
    BY <2>1, <2>2
<1>6. (TypeOK /\ Sound(disk, victim) /\ PendingOK /\ RamOK)'
  BY <1>1, <1>2, <1>4, <1>5 DEF Inv, TypeOK, PendingOK, RamOK, Unmount
<1>7. (~crashed => CountsOK)'
  <2>1. SUFFICES ASSUME ~crashed PROVE CountsOK'
    BY DEF Unmount
  <2>2. mounted /\ ram.bitmap = disk.bitmap /\ Settled = disk
    BY <1>1 DEF Inv, RamOK, Unmount, Ready, Settled
  <2>3. disk'.sb = ram.sb /\ mounted' = FALSE
    BY <1>1 DEF Unmount, Disk
  <2>4. FreeInodes(disk') = FreeInodes(disk)
    BY <1>2 DEF FreeInodes
  <2>5. QED
    BY <1>2, <2>1, <2>2, <2>3, <2>4 DEF Inv, CountsOK
<1>8. LeakOK'
  <2>1. SUFFICES ASSUME "blocks" \notin lost' PROVE Tight(Settled') /\ victim' = 0
    BY DEF LeakOK
  <2>2. Tight(disk) /\ Settled' = disk'
    BY <1>1, <2>1 DEF Inv, LeakOK, Settled, Unmount
  <2>3. Tight(disk')
    BY <1>2, <1>3, <2>2, TightSame DEF Alike
  <2>4. QED
    BY <1>1, <2>2, <2>3 DEF Unmount
<1>9. OrphanOK'
  <2>1. SUFFICES ASSUME "inodes" \notin lost' PROVE Whole(Settled', 0)
    BY DEF OrphanOK
  <2>2. Whole(disk, 0) /\ Settled' = disk'
    BY <1>1, <2>1 DEF Inv, OrphanOK, Settled, Unmount
  <2>3. QED
    BY <1>1, <1>3, <2>2, WholeAlike
<1>10. QED
  BY <1>6, <1>7, <1>8, <1>9 DEF Inv

\* A crash keeps the disk as it is, and mounting reads the bitmap.
LEMMA CrashMountKeep ==
  ASSUME Inv, Crash \/ Mount
  PROVE  Inv'
<1>1. CASE Crash
  <2>1. NoRam \in [bitmap : SUBSET Blocks, sb : Counts]
    BY Constants DEF NoRam, Counts
  <2>2. restarts' \in 0 .. MaxRestarts
    BY <1>1, Constants DEF Inv, TypeOK, Crash
  <2>3. lost' \subseteq {"blocks", "inodes"} /\ <<>> \in Seq(Disk)
    BY <1>1 DEF Inv, TypeOK, Crash
  <2>4. TypeOK'
    BY <1>1, <2>1, <2>2, <2>3, NoneInEmpty DEF Inv, TypeOK, Crash
  <2>5. PendingOK'
    BY <1>1, NoneInEmpty DEF PendingOK, Crash
  <2>6. LeakOK' /\ OrphanOK'
    BY <1>1 DEF Inv, LeakOK, OrphanOK, Settled, Crash
  <2>7. QED
    BY <1>1, <2>4, <2>5, <2>6 DEF Inv, RamOK, Crash
<1>2. CASE Mount
  <2>1. disk \in Disk /\ busy = "idle"
    BY <1>2 DEF Inv, TypeOK, RamOK, Mount
  <2>2. ram' \in [bitmap : SUBSET Blocks, sb : Counts] /\ ram'.bitmap = disk.bitmap
    BY <1>2, <2>1 DEF Mount, Disk
  <2>3. (~crashed => CountsOK)'
    BY <1>2, <2>1 DEF Inv, CountsOK, Settled, Mount
  <2>4. LeakOK' /\ OrphanOK'
    BY <1>2, <2>1 DEF Inv, LeakOK, OrphanOK, Settled, Mount
  <2>5. QED
    BY <1>2, <2>1, <2>2, <2>3, <2>4 DEF Inv, TypeOK, PendingOK, RamOK, Mount
<1>3. QED
  BY <1>1, <1>2

\* It starts sound, ...
LEMMA InitInv == Init => Inv
<1>1. SUFFICES ASSUME Init PROVE Inv
  OBVIOUS
<1>2. Sound(FormattedDisk, 0) /\ FormattedDisk \in Disk
  BY FormattedSound DEF Sound
<1>3. NoRam \in [bitmap : SUBSET Blocks, sb : Counts]
  BY Constants DEF NoRam, Counts
<1>4. 0 \in 0 .. MaxRestarts /\ 0 \in 0 .. NInodes - 1 /\ <<>> \in Seq(Disk)
  BY Constants
<1>5. TypeOK
  BY <1>1, <1>2, <1>3, <1>4, NoneInEmpty DEF Init, TypeOK
<1>6. CountsOK
  BY <1>1, FormattedCounts DEF Init, CountsOK
<1>7. LeakOK /\ OrphanOK
  BY <1>1, FormattedTight, FormattedWhole DEF Init, LeakOK, OrphanOK, Settled
<1>8. QED
  BY <1>1, <1>2, <1>5, <1>6, <1>7, NoneInEmpty DEF Inv, Init, PendingOK, RamOK

\* ... and every step keeps it so.
LEMMA StepInv == Inv /\ [Next]_vars => Inv'
<1>1. SUFFICES ASSUME Inv, [Next]_vars PROVE Inv'
  OBVIOUS
<1>2. CASE UNCHANGED vars
  BY <1>1, <1>2 DEF Inv, TypeOK, PendingOK, RamOK, CountsOK, LeakOK, OrphanOK, Settled, vars
<1>3. CASE Ready /\ \E p \in Dirs, name \in Names :
             (\E type \in Types \ {"FREE"} : Create(p, name, type)) \/ Unlink(p, name)
  BY <1>1, <1>3, CreateKeeps, UnlinkKeeps
<1>4. CASE Ready /\ \E ino \in Files :
             \/ \E offset \in 0 .. MaxFileSize, n \in 1 .. MaxFileSize : Write(ino, offset, n)
             \/ \E size \in TruncateSizes : Truncate(ino, size)
  BY <1>1, <1>4, WriteKeeps, TruncateKeeps
<1>5. CASE DiskWrite
  BY <1>1, <1>5, DiskWriteKeeps
<1>6. CASE Crash \/ Mount
  BY <1>1, <1>6, CrashMountKeep
<1>7. CASE Unmount
  BY <1>1, <1>7, UnmountKeeps
<1>8. QED
  BY <1>1, <1>2, <1>3, <1>4, <1>5, <1>6, <1>7 DEF Next

\* At every moment, after every block written and after every crash, the disk is
\* sound but for the inode in hand, and so are the images still to be written.
THEOREM Invariance == Spec => []Inv
<1>1. QED
  BY InitInv, StepInv, PTL DEF Spec

\* The types of the disk, of memory and of the images to come; the counts stay in
\* their width.
THEOREM TypeCorrect == Spec => []TypeOK
<1>1. Inv => TypeOK
  BY DEF Inv
<1>2. QED
  BY <1>1, Invariance, PTL

\* No block is referred to twice, none that is in use is free to be allocated, but
\* for those of the one inode being unlinked or truncated (dorifs_alloc_block,
\* dorifs_free_block, dorifs_set_block).
THEOREM BlocksOwnedHolds == Spec => []BlocksOwned
<1>1. ASSUME Inv PROVE BlocksOwned
  <2>1. disk \in Disk /\ OwnedIn(RefMap(disk), disk.bitmap, victim)
    BY <1>1 DEF Inv, Sound
  <2>2. ASSUME NEW r \in Refs(disk)
        PROVE  r \in Places /\ RefMap(disk)[r] = RefBlock(disk, r[1], r[2]) /\ RefMap(disk)[r] # 0
    <3>1. r \in Places
      BY DEF Refs, Live, Places, Table
    <3>2. QED
      BY <3>1 DEF Refs, RefMap
  <2>3. QED
    BY <2>1, <2>2 DEF BlocksOwned, OwnedIn
<1>2. QED
  BY <1>1, Invariance, PTL

\* What a directory lists exists, has the type the entry says and is listed once,
\* but for the inode being unlinked (AppendEntry's order of writes in
\* dorifs_vfs_create, and dorifs_vfs_unlink's).
THEOREM EntriesSoundHolds == Spec => []EntriesSound
<1>1. ASSUME Inv PROVE EntriesSound
  <2>1. disk \in Disk /\ NamedOK(disk, victim) /\ NamedOnce(disk)
    BY <1>1 DEF Inv, Sound
  <2>2. ASSUME NEW e \in Entries(disk)
        PROVE  /\ e[1] \in Inodes /\ IsDir(disk, e[1]) /\ e[2] \in Listed(disk, e[1])
               /\ e = <<e[1], e[2]>>
    BY DEF Entries, Live
  <2>3. ASSUME NEW e \in Entries(disk)
        PROVE  LET de == Entry(disk, e[1], e[2]) IN
               /\ de.inode # Root
               /\ de.inode # victim => de.type = disk.inodes[de.inode].type
    BY <2>1, <2>2 DEF NamedOK
  <2>4. ASSUME NEW e \in Entries(disk), NEW f \in Entries(disk),
               Entry(disk, e[1], e[2]).inode = Entry(disk, f[1], f[2]).inode
        PROVE  e = f
    <3>1. e[1] = f[1] /\ e[2] = f[2]
      BY <2>1, <2>2, <2>4 DEF NamedOnce
    <3>2. QED
      BY <2>2, <3>1
  <2>5. QED
    BY <2>3, <2>4 DEF EntriesSound
<1>2. QED
  BY <1>1, Invariance, PTL

\* The free blocks and inodes that fs_state counts are those of the disk, whatever
\* was created, written, truncated and unlinked, unmounted and mounted, until a
\* crash loses counts that only dorifs_unmount writes.
THEOREM CountsFollowHolds == Spec => []CountsFollow
<1>1. ASSUME Inv PROVE CountsFollow
  BY <1>1 DEF Inv, RamOK, CountsOK, Settled, CountsFollow, Ready
<1>2. QED
  BY <1>1, Invariance, PTL

\* Between operations every block marked in the bitmap is referred to by a file or
\* a directory, and block_count is the number of its blocks, unless a crash has cut
\* an operation short or a failure of dorifs_set_block, which none of its callers
\* looks at, has lost a block.
THEOREM NoBlockLeakHolds == Spec => []NoBlockLeak
<1>1. ASSUME Inv, busy = "idle", "blocks" \notin lost
      PROVE  /\ disk.bitmap = {RefBlock(disk, r[1], r[2]) : r \in Refs(disk)}
             /\ \A i \in Live(disk) :
                  disk.inodes[i].block_count
                    = Cardinality({fb \in 0 .. NDirect + NIndirect - 1 :
                                     GetBlock(disk, disk.inodes[i], fb) # 0})
  <2>1. Tight(disk) /\ disk \in Disk /\ OwnedIn(RefMap(disk), disk.bitmap, 0)
    BY <1>1 DEF Inv, LeakOK, Settled, Sound
  <2>2. ASSUME NEW i \in Inodes, NEW f \in 0 .. Table
        PROVE  RefMap(disk)[<<i, f>>] = RefBlock(disk, i, f) /\ <<i, f>> \in Places
    BY DEF RefMap, Places
  <2>3. ASSUME NEW r \in Refs(disk) PROVE RefBlock(disk, r[1], r[2]) \in disk.bitmap
    <3>1. PICK i \in Live(disk), f \in 0 .. Table : r = <<i, f>> /\ RefBlock(disk, i, f) # 0
      BY DEF Refs, Table
    <3>2. i \in Inodes /\ i # 0
      BY <3>1, Constants DEF Live
    <3>3. RefMap(disk)[<<i, f>>] = RefBlock(disk, i, f) /\ <<i, f>> \in Places /\ <<i, f>>[1] # 0
      BY <2>2, <3>2
    <3>4. QED
      BY <2>1, <3>1, <3>3 DEF OwnedIn
  <2>4. ASSUME NEW b \in disk.bitmap
        PROVE  \E r \in Refs(disk) : b = RefBlock(disk, r[1], r[2])
    <3>1. b # 0
      BY <2>1, Constants DEF Disk
    <3>2. PICK i \in Inodes, f \in 0 .. Table : RefMap(disk)[<<i, f>>] = b
      BY <2>1 DEF Tight, Places
    <3>3. RefBlock(disk, i, f) = b
      BY <2>2, <3>2
    <3>4. i \in Live(disk)
      BY <2>1, <3>1, <3>2 DEF Tight, Live
    <3>5. <<i, f>> \in Refs(disk)
      BY <3>1, <3>3, <3>4 DEF Refs, Table
    <3>6. QED
      BY <3>3, <3>5
  <2>5. ASSUME NEW i \in Live(disk)
        PROVE  disk.inodes[i].block_count
                 = Cardinality({fb \in 0 .. NDirect + NIndirect - 1 :
                                  GetBlock(disk, disk.inodes[i], fb) # 0})
    <3>1. i \in Inodes /\ disk.inodes[i] \in Inode
      BY <2>1 DEF Live, Disk
    <3>2. ASSUME NEW f \in 0 .. Table - 1
          PROVE  RefMap(disk)[<<i, f>>] = GetBlock(disk, disk.inodes[i], f)
      <4>1. f \in 0 .. Table /\ f # Table
        BY Constants DEF Table
      <4>2. QED
        BY <2>2, <3>1, <4>1 DEF RefBlock, Table
    <3>3. DataOf(RefMap(disk), i)
            = {fb \in 0 .. NDirect + NIndirect - 1 : GetBlock(disk, disk.inodes[i], fb) # 0}
      <4>1. DataOf(RefMap(disk), i) = {fb \in 0 .. Table - 1 : GetBlock(disk, disk.inodes[i], fb) # 0}
        BY <3>2, Zenon DEF DataOf
      <4>2. Table - 1 = NDirect + NIndirect - 1
        BY Constants DEF Table
      <4>3. QED
        BY <4>1, <4>2
    <3>4. QED
      BY <2>1, <3>1, <3>3 DEF Tight
  <2>6. QED
    BY <2>3, <2>4, <2>5
<1>2. Inv => NoBlockLeak
  BY <1>1 DEF NoBlockLeak
<1>3. QED
  BY <1>2, Invariance, PTL

\* Between operations every inode in use can be reached from the root by a path,
\* unless a crash has cut an operation short, dorifs_vfs_unlink has taken a directory
\* that was not empty, or dorifs_set_block has lost the block of an entry.
THEOREM NoInodeLeakHolds == Spec => []NoInodeLeak
<1>1. 0 \notin Inodes
  BY Constants
<1>2. Inv => NoInodeLeak
  BY <1>1 DEF Inv, OrphanOK, Settled, Whole, Live, NoInodeLeak
<1>3. QED
  BY <1>2, Invariance, PTL

=============================================================================
