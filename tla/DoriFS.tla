-------------------------------- MODULE DoriFS --------------------------------
(***************************************************************************)
(* The on-disk file system of kernel/dorifs.c: inode table, data bitmap,   *)
(* data blocks, and the copy of superblock and bitmap kept in RAM.         *)
(*                                                                         *)
(* An operation runs alone but is not atomic on disk: it is a sequence of  *)
(* block writes, and a crash keeps a prefix of them.  An operation is      *)
(* computed at once on a context c (the disk as the operation sees it, the *)
(* RAM copy, the C local "inode", and the log of the disk images its       *)
(* writes leave); the images then reach the disk one DiskWrite at a time.  *)
(*                                                                         *)
(* Abstracted: file data, time stamps, link counts and link targets; file  *)
(* sizes count blocks, directory sizes count entries; a block write is     *)
(* atomic and does not fail.                                               *)
(***************************************************************************)
EXTENDS Naturals, FiniteSets, SequencesExt

CONSTANTS
  NInodes,          \* total_inodes; inode 0 is reserved, inode 1 is the root
  NBlocks,          \* data blocks
  NDirect,          \* DORIFS_DIRECT_BLOCKS
  NIndirect,        \* DORIFS_INDIRECT_PTRS
  EntriesPerBlock,  \* directory entries in a block
  Names,
  NoName,           \* the name of a deleted entry, which nobody reads
  TruncateSizes,    \* sizes given to truncate; vfs_open, its caller, gives 0
  Word,             \* 2^32, the modulus of the superblock's counts
  MaxFileSize,      \* bound: blocks a write may reach
  MaxEntries,       \* bound: entries ever appended to one directory
  MaxRestarts       \* bound: crashes and unmounts

ASSUME InodesAssumption == NInodes \in Nat /\ NInodes >= 2
ASSUME BlocksAssumption == {NBlocks, NDirect, NIndirect} \subseteq Nat \ {0}
ASSUME EntriesAssumption == EntriesPerBlock \in Nat \ {0}
ASSUME WordAssumption == Word \in Nat /\ Word > NInodes /\ Word > NBlocks
ASSUME BoundsAssumption ==
  TruncateSizes \cup {MaxFileSize, MaxEntries, MaxRestarts} \subseteq Nat

VARIABLES
  disk,      \* what is on the disk
  pending,   \* the disk images the operation in progress has still to leave
  busy,      \* the operation in progress, or "idle"
  mounted,
  ram,       \* fs_state: data_bitmap and the counts of sb
  restarts,
  crashed,   \* ghost: whether there has been a crash
  lost,      \* ghost: what may have leaked, of "blocks" and "inodes"
  victim     \* ghost: the inode of the unlink or truncate in progress, or that a
             \* crash has cut short; 0 if none

vars == <<disk, pending, busy, mounted, ram, restarts, crashed, lost, victim>>

Root == 1
Inodes == 1 .. NInodes - 1
Blocks == 1 .. NBlocks
Block0 == 0 .. NBlocks         \* 0 is "no block"

Types == {"FREE", "FILE", "DIR", "SYMLINK"}

\* A directory entry is deleted when its inode number is 0; its name and type
\* stay on the disk unread.
NoEntry == [inode |-> 0, type |-> "FREE", name |-> NoName]
DirEntry == [inode : 0 .. NInodes - 1, type : Types, name : Names \cup {NoName}]

Inode ==
  [type : Types, size : Nat, block_count : 0 .. Word - 1,
   direct : [1 .. NDirect -> Block0], indirect : Block0]

ZeroInode ==
  [type |-> "FREE", size |-> 0, block_count |-> 0,
   direct |-> [i \in 1 .. NDirect |-> 0], indirect |-> 0]

\* A block seen as directory data and as an indirect table; file data is zero
\* in both.
Content ==
  [entries : [1 .. EntriesPerBlock -> DirEntry], ptrs : [1 .. NIndirect -> Block0]]

ZeroBlock ==
  [entries |-> [i \in 1 .. EntriesPerBlock |-> NoEntry],
   ptrs |-> [i \in 1 .. NIndirect |-> 0]]

Counts == [free_blocks : 0 .. Word - 1, free_inodes : 0 .. Word - 1]
Disk ==
  [inodes : [Inodes -> Inode], bitmap : SUBSET Blocks,
   blocks : [Blocks -> Content], sb : Counts]
NoRam == [bitmap |-> {}, sb |-> [free_blocks |-> 0, free_inodes |-> 0]]

TypeOK ==
  /\ disk \in Disk
  /\ \A i \in DOMAIN pending : pending[i] \in Disk
  /\ busy \in {"idle", "create", "write", "unlink", "truncate"}
  /\ (busy = "idle") <=> (pending = <<>>)
  /\ mounted \in BOOLEAN
  /\ ram \in [bitmap : SUBSET Blocks, sb : Counts]
  /\ restarts \in 0 .. MaxRestarts
  /\ crashed \in BOOLEAN
  /\ lost \subseteq {"blocks", "inodes"}
  /\ victim \in 0 .. NInodes - 1

-----------------------------------------------------------------------------
(* Block writes, each of which leaves one more image of the disk *)

Put(c, d) == [c EXCEPT !.disk = d, !.log = Append(@, d)]

WriteInode(c, ino, inode) == Put(c, [c.disk EXCEPT !.inodes[ino] = inode])

WriteBlock(c, b, content) == Put(c, [c.disk EXCEPT !.blocks[b] = content])

WriteBitmap(c) == Put(c, [c.disk EXCEPT !.bitmap = c.ram.bitmap])

Plus(n, k) == (n + k) % Word
Minus(n, k) == (n + Word - k) % Word

(* Inodes *)

FreeInodes(d) == {i \in Inodes : d.inodes[i].type = "FREE"}

\* dorifs_alloc_inode's choice, 0 if there is none.  The scan starts at 1; the
\* write it makes only sets the link count.
FirstFreeInode(d) == IF FreeInodes(d) = {} THEN 0 ELSE Min(FreeInodes(d))

\* Mutant: the count is left alone.
TakeInodeUncounted(c) == c

TakeInode(c) == [c EXCEPT !.ram.sb.free_inodes = Minus(@, 1)]

FreeInode(c, ino) ==
  LET w == WriteInode(c, ino, ZeroInode)
  IN  [w EXCEPT !.ram.sb.free_inodes = Plus(@, 1)]

(* Data blocks *)

\* Mutant: the scan goes one too far.
NextBlockPastEnd(c) ==
  LET free == (1 .. NBlocks + 1) \ c.ram.bitmap
  IN  IF free = {} THEN 0 ELSE Min(free)

\* dorifs_alloc_block's result, 0 if the bitmap is full ...
NextBlock(c) ==
  LET free == Blocks \ c.ram.bitmap IN IF free = {} THEN 0 ELSE Min(free)

\* Mutant: the bitmap stays in memory.
AllocBlockInRam(c) ==
  IF NextBlock(c) = 0 THEN c
  ELSE [c EXCEPT !.ram.bitmap = @ \cup {NextBlock(c)},
                 !.ram.sb.free_blocks = Minus(@, 1)]

\* ... and its effect.
AllocBlock(c) ==
  IF NextBlock(c) = 0 THEN c
  ELSE WriteBitmap([c EXCEPT !.ram.bitmap = @ \cup {NextBlock(c)},
                             !.ram.sb.free_blocks = Minus(@, 1)])

FreeBlock(c, b) ==
  WriteBitmap([c EXCEPT !.ram.bitmap = @ \ {b},
                        !.ram.sb.free_blocks = Plus(@, 1)])

\* File block fb counts from 0.
GetBlock(d, inode, fb) ==
  IF fb < NDirect THEN inode.direct[fb + 1]
  ELSE IF fb - NDirect >= NIndirect \/ inode.indirect = 0 THEN 0
  ELSE d.blocks[inode.indirect].ptrs[fb - NDirect + 1]

\* The indirect block of the local inode, allocated and zeroed if need be.
WithIndirect(c) ==
  LET b == NextBlock(c) IN
  IF c.inode.indirect # 0 \/ b = 0 THEN c
  ELSE WriteBlock([AllocBlock(c) EXCEPT !.inode.indirect = b], b, ZeroBlock)

\* dorifs_set_block.  Its callers ignore that it may fail, for want of a block
\* or because the file is too long: the data block is then referenced nowhere.
SetBlock(c, fb, b) ==
  IF fb < NDirect THEN [c EXCEPT !.inode.direct[fb + 1] = b]
  ELSE LET w == WithIndirect(c) IN
       IF fb - NDirect >= NIndirect THEN [c EXCEPT !.lost = @ \cup {"blocks"}]
       ELSE IF w.inode.indirect = 0 THEN [w EXCEPT !.lost = @ \cup {"blocks"}]
       ELSE WriteBlock(w, w.inode.indirect,
              [w.disk.blocks[w.inode.indirect] EXCEPT !.ptrs[fb - NDirect + 1] = b])

\* A new data block b, just allocated, as file block fb of the local inode.
Grow(c, fb, b) ==
  LET s == SetBlock(c, fb, b)
  IN  [s EXCEPT !.inode.block_count = Plus(@, 1)]

-----------------------------------------------------------------------------
(* Directories *)

\* Where in a directory its k-th entry is: file block, place in it.
BlockOf(k) == k \div EntriesPerBlock
SlotOf(k) == (k % EntriesPerBlock) + 1

\* Scans of a directory stop at its size or at a file block it does not have.
Visible(d, dir) ==
  {k \in 0 .. d.inodes[dir].size - 1 :
     \A j \in 0 .. BlockOf(k) : GetBlock(d, d.inodes[dir], j) # 0}

Entry(d, dir, k) ==
  LET b == GetBlock(d, d.inodes[dir], BlockOf(k))
  IN  d.blocks[b].entries[SlotOf(k)]

\* The entries readdir lists.
Listed(d, dir) == {k \in Visible(d, dir) : Entry(d, dir, k).inode # 0}

Hits(d, dir, name) == {k \in Listed(d, dir) : Entry(d, dir, k).name = name}

IsDir(d, i) == d.inodes[i].type = "DIR"

\* What dorifs_vfs_finddir may find in a directory.
Children(d, dir) ==
  IF IsDir(d, dir) THEN {Entry(d, dir, k).inode : k \in Listed(d, dir)} ELSE {}

\* The inodes some path leads to.
Reachable(d) ==
  LET reach[n \in 0 .. NInodes] ==
        IF n = 0 THEN {Root} ELSE UNION {{i} \cup Children(d, i) : i \in reach[n - 1]}
  IN  reach[NInodes]

Dirs == {i \in Reachable(disk) : disk.inodes[i].type = "DIR"}
Files == {i \in Reachable(disk) : disk.inodes[i].type = "FILE"}

-----------------------------------------------------------------------------
(* The operations, on the context c *)

\* Mutant: without room for the entry the new inode is not given back.
AppendEntryNoUndo(c, p, e) ==
  LET old == c.disk.inodes[p]
      k == old.size
      b == GetBlock(c.disk, old, BlockOf(k))
      b1 == IF b = 0 THEN NextBlock(c) ELSE b
      c0 == [c EXCEPT !.inode = old]
      grown == IF b # 0 THEN c0 ELSE Grow(AllocBlock(c0), BlockOf(k), b1)
      was == IF b = 0 THEN ZeroBlock ELSE grown.disk.blocks[b]
      written == WriteBlock(grown, b1, [was EXCEPT !.entries[SlotOf(k)] = e])
  IN  IF b1 = 0 THEN c0
      ELSE WriteInode(written, p, [written.inode EXCEPT !.size = @ + 1])

\* create's and symlink's second half: entry e goes to the end of directory p.
AppendEntry(c, p, e) ==
  LET old == c.disk.inodes[p]
      k == old.size
      b == GetBlock(c.disk, old, BlockOf(k))
      b1 == IF b = 0 THEN NextBlock(c) ELSE b
      c0 == [c EXCEPT !.inode = old]
      grown == IF b # 0 THEN c0 ELSE Grow(AllocBlock(c0), BlockOf(k), b1)
      was == IF b = 0 THEN ZeroBlock ELSE grown.disk.blocks[b]
      written == WriteBlock(grown, b1, [was EXCEPT !.entries[SlotOf(k)] = e])
  IN  IF b1 = 0 THEN FreeInode(c0, e.inode)
      ELSE WriteInode(written, p, [written.inode EXCEPT !.size = @ + 1])

\* Mutant: the entry is written before the inode it names.
CreatedEntryFirst(c, p, name, type) ==
  LET ino == FirstFreeInode(c.disk)
      inode == [ZeroInode EXCEPT !.type = type]
      entered == AppendEntry(TakeInode(c), p,
                             [inode |-> ino, type |-> type, name |-> name])
  IN  IF ino = 0 THEN c ELSE WriteInode(entered, ino, inode)

\* dorifs_vfs_create and dorifs_vfs_symlink: the same writes; only a symlink's
\* size is not 0.
Created(c, p, name, type) ==
  LET ino == FirstFreeInode(c.disk)
      inode == [ZeroInode EXCEPT !.type = type,
                                 !.size = IF type = "SYMLINK" THEN 1 ELSE 0]
      made == WriteInode(TakeInode(c), ino, inode)
      done == AppendEntry(made, p, [inode |-> ino, type |-> type, name |-> name])
      leak == IF "blocks" \in done.lost THEN {"inodes"} ELSE {}
  IN  IF ino = 0 THEN c ELSE [done EXCEPT !.lost = @ \cup leak]

\* One round of dorifs_vfs_write's loop; "at" is the file block it has reached,
\* and a round whose block is not the one reached comes after the break.
WriteOne(c, fb) ==
  LET b == GetBlock(c.disk, c.inode, fb)
      b1 == IF b = 0 THEN NextBlock(c) ELSE b
      grown == IF b # 0 THEN c ELSE Grow(AllocBlock(c), fb, b1)
  IN  IF c.at # fb \/ b1 = 0 THEN c
      ELSE [WriteBlock(grown, b1, ZeroBlock) EXCEPT !.at = fb + 1]

\* n rounds of it from file block offset on.
Looped(c, offset, n) ==
  LET round[k \in 0 .. n] ==
        IF k = 0 THEN c ELSE WriteOne(round[k - 1], offset + k - 1)
  IN  round[n]

Written(c, ino, offset, n) ==
  LET start == [c EXCEPT !.inode = c.disk.inodes[ino], !.at = offset]
      end == Looped(start, offset, n)
      size == IF end.at > end.inode.size THEN end.at ELSE end.inode.size
  IN  WriteInode(end, ino, [end.inode EXCEPT !.size = size])

\* Mutant: the indirect block is forgotten.
OwnedBlockNoIndirect(d, inode, n) ==
  IF n = NDirect + NIndirect THEN 0 ELSE GetBlock(d, inode, n)

\* The blocks unlink frees, in its order: direct, those of the indirect table,
\* the indirect block; 0 where there is none.
OwnedBlock(d, inode, n) ==
  IF n = NDirect + NIndirect THEN inode.indirect ELSE GetBlock(d, inode, n)

\* The blocks of inode, as they are on the disk, given back one by one.
Freed(c, inode) ==
  LET Held(n) == OwnedBlock(c.disk, inode, n)
      freed[n \in 0 .. NDirect + NIndirect + 1] ==
        IF n = 0 THEN c
        ELSE IF Held(n - 1) = 0 THEN freed[n - 1]
        ELSE FreeBlock(freed[n - 1], Held(n - 1))
  IN  freed[NDirect + NIndirect + 1]

Orphans(d, ino) == IsDir(d, ino) /\ Listed(d, ino) # {}

\* Mutant: the indirect table is read over the directory's block.
UnlinkedOverBuffer(c, p, k) ==
  LET ino == Entry(c.disk, p, k).inode
      inode == c.disk.inodes[ino]
      b == GetBlock(c.disk, c.disk.inodes[p], BlockOf(k))
      freed == Freed(c, inode)
  IN  WriteBlock(FreeInode(freed, ino), b, ZeroBlock)

\* dorifs_vfs_unlink, once the entry is found at k: a directory goes like a
\* file, with whatever it lists.
Unlinked(c, p, k) ==
  LET ino == Entry(c.disk, p, k).inode
      inode == c.disk.inodes[ino]
      b == GetBlock(c.disk, c.disk.inodes[p], BlockOf(k))
      buf == c.disk.blocks[b]        \* read before anything is freed
      freed == Freed(c, inode)
      leak == IF Orphans(c.disk, ino) THEN {"inodes"} ELSE {}
  IN  WriteBlock([FreeInode(freed, ino) EXCEPT !.lost = @ \cup leak], b,
        [buf EXCEPT !.entries[SlotOf(k)] = NoEntry])

FreeFileBlock(c, fb) ==
  LET b == GetBlock(c.disk, c.inode, fb)
      cleared == SetBlock(FreeBlock(c, b), fb, 0)
  IN  IF b = 0 THEN c ELSE [cleared EXCEPT !.inode.block_count = Minus(@, 1)]

\* The file blocks from first to the one before end, given back one by one.
Cut(c, first, end) ==
  LET cut[n \in 0 .. end - first] ==
        IF n = 0 THEN c ELSE FreeFileBlock(cut[n - 1], first + n - 1)
  IN  cut[end - first]

Truncated(c, ino, size) ==
  LET old == c.disk.inodes[ino]
      start == [c EXCEPT !.inode = old]
      freed == IF size >= old.size THEN start ELSE Cut(start, size, old.size)
  IN  WriteInode(freed, ino, [freed.inode EXCEPT !.size = size])

-----------------------------------------------------------------------------
(* Actions *)

\* dorifs_format.
FormattedDisk ==
  [inodes |-> [i \in Inodes |->
                 IF i = Root THEN [ZeroInode EXCEPT !.type = "DIR"] ELSE ZeroInode],
   bitmap |-> {},
   blocks |-> [b \in Blocks |-> ZeroBlock],
   sb |-> [free_blocks |-> NBlocks, free_inodes |-> NInodes - 2]]

Init ==
  /\ disk = FormattedDisk
  /\ pending = <<>>
  /\ busy = "idle"
  /\ mounted = FALSE
  /\ ram = NoRam
  /\ restarts = 0
  /\ crashed = FALSE
  /\ lost = {}
  /\ victim = 0

\* Nothing is promised of what is done with a disk that a crash has torn, and
\* the model goes no further with it.
Ready == mounted /\ busy = "idle" /\ victim = 0

Context ==
  [disk |-> disk, ram |-> ram, inode |-> ZeroInode, at |-> 0, log |-> <<>>,
   lost |-> {}]

\* The operation op, computed to c, that endangers inode v: its first block
\* write, with the rest pending.
Run(op, v, c) ==
  /\ c.log # <<>>
  /\ disk' = Head(c.log)
  /\ pending' = Tail(c.log)
  /\ busy' = IF Tail(c.log) = <<>> THEN "idle" ELSE op
  /\ victim' = IF Tail(c.log) = <<>> THEN 0 ELSE v
  /\ ram' = c.ram
  /\ lost' = lost \cup c.lost
  /\ UNCHANGED <<mounted, restarts, crashed>>

Create(p, name, type) ==
  /\ disk.inodes[p].size < MaxEntries
  /\ Run("create", 0, Created(Context, p, name, type))

Write(ino, offset, n) ==
  /\ offset + n <= MaxFileSize
  /\ Run("write", 0, Written(Context, ino, offset, n))

\* The first entry of that name, if the scan gets to one.
Unlink(p, name) ==
  /\ Hits(disk, p, name) # {}
  /\ LET k == Min(Hits(disk, p, name)) IN
     Run("unlink", Entry(disk, p, k).inode, Unlinked(Context, p, k))

Truncate(ino, size) ==
  /\ Run("truncate", ino, Truncated(Context, ino, size))

DiskWrite ==
  /\ pending # <<>>
  /\ disk' = Head(pending)
  /\ pending' = Tail(pending)
  /\ busy' = IF Tail(pending) = <<>> THEN "idle" ELSE busy
  /\ victim' = IF Tail(pending) = <<>> THEN 0 ELSE victim
  /\ UNCHANGED <<mounted, ram, restarts, crashed, lost>>

Crash ==
  /\ restarts < MaxRestarts
  /\ mounted
  /\ restarts' = restarts + 1
  /\ crashed' = TRUE
  /\ pending' = <<>>
  /\ busy' = "idle"
  /\ mounted' = FALSE
  /\ ram' = NoRam
  /\ lost' = IF busy = "idle" THEN lost ELSE {"blocks", "inodes"}
  /\ UNCHANGED <<disk, victim>>

Mount ==
  /\ ~mounted
  /\ mounted' = TRUE
  /\ ram' = [bitmap |-> disk.bitmap, sb |-> disk.sb]
  /\ UNCHANGED <<disk, pending, busy, restarts, crashed, lost, victim>>

\* dorifs_unmount, which nothing in the kernel calls.
Unmount ==
  /\ Ready
  /\ restarts < MaxRestarts
  /\ restarts' = restarts + 1
  /\ disk' = [disk EXCEPT !.sb = ram.sb]
  /\ mounted' = FALSE
  /\ ram' = NoRam
  /\ UNCHANGED <<pending, busy, crashed, lost, victim>>

\* The caller has found the inode by a path, in the directory or as the file: a
\* descriptor kept across an unlink is not modelled.
Next ==
  \/ /\ Ready
     /\ \E p \in Dirs, name \in Names :
          \/ \E type \in Types \ {"FREE"} : Create(p, name, type)
          \/ Unlink(p, name)
  \/ /\ Ready
     /\ \E ino \in Files :
          \/ \E offset \in 0 .. MaxFileSize, n \in 1 .. MaxFileSize :
               Write(ino, offset, n)
          \/ \E size \in TruncateSizes : Truncate(ino, size)
  \/ DiskWrite
  \/ Crash
  \/ Mount
  \/ Unmount

Spec == Init /\ [][Next]_vars

-----------------------------------------------------------------------------
(* Properties *)

Live(d) == {i \in Inodes : d.inodes[i].type # "FREE"}

\* Every place that refers to a data block: <<inode, file block>>, with
\* NDirect + NIndirect standing for the indirect block itself.
RefBlock(d, i, fb) ==
  IF fb = NDirect + NIndirect THEN d.inodes[i].indirect
  ELSE GetBlock(d, d.inodes[i], fb)

Refs(d) ==
  {r \in Live(d) \X (0 .. NDirect + NIndirect) : RefBlock(d, r[1], r[2]) # 0}

\* No data block belongs to two places, and none in use is free to be allocated
\* again, at any time and after any crash; only the blocks of the one file being
\* unlinked or truncated are given back while its inode still holds them.
BlocksOwned ==
  /\ \A r \in Refs(disk) :
       r[1] # victim => RefBlock(disk, r[1], r[2]) \in disk.bitmap
  /\ \A r, s \in Refs(disk) :
       RefBlock(disk, r[1], r[2]) = RefBlock(disk, s[1], s[2]) => r = s

\* Nothing leaks: between operations every block marked in the bitmap is
\* referenced, and a file's block_count is the number of its data blocks, but
\* for a crash in mid-operation and the failures of set_block nobody looks at.
NoBlockLeak ==
  busy = "idle" /\ "blocks" \notin lost =>
    /\ disk.bitmap = {RefBlock(disk, r[1], r[2]) : r \in Refs(disk)}
    /\ \A i \in Live(disk) :
         disk.inodes[i].block_count
           = Cardinality({fb \in 0 .. NDirect + NIndirect - 1 :
                            GetBlock(disk, disk.inodes[i], fb) # 0})

\* Directory entries, <<directory, position>>.
Entries(d) ==
  {e \in Live(d) \X (0 .. MaxEntries) : IsDir(d, e[1]) /\ e[2] \in Listed(d, e[1])}

\* What a directory lists exists, is of the type it says and is listed once, and
\* the root nowhere: at any time and after any crash; only the entry being
\* unlinked outlives its inode.
EntriesSound ==
  /\ \A e \in Entries(disk) :
       LET de == Entry(disk, e[1], e[2]) IN
       /\ de.inode # Root
       /\ de.inode # victim => de.type = disk.inodes[de.inode].type
  /\ \A e, f \in Entries(disk) :
       Entry(disk, e[1], e[2]).inode = Entry(disk, f[1], f[2]).inode => e = f

\* No inode leaks: between operations every inode in use can be reached from the
\* root, but for a crash in mid-operation, the unlink of a directory that is not
\* empty and an entry whose block set_block lost.
NoInodeLeak ==
  busy = "idle" /\ "inodes" \notin lost => Live(disk) \subseteq Reachable(disk)

\* The entries that some path leads along.
Tree(d) ==
  LET dirs == {i \in Reachable(d) : IsDir(d, i)}
      Named(p, de) == [dir |-> p, name |-> de.name, inode |-> de.inode, type |-> de.type]
  IN  UNION {{Named(p, Entry(d, p, k)) : k \in Listed(d, p)} : p \in dirs}

\* The names on the disk are a tree that changes by one entry at a time, whatever
\* an operation writes besides, and outlives every crash (module FSTree).
Promise ==
  INSTANCE FSTree WITH Root <- Root, Inodes <- Inodes, Names <- Names, tree <- Tree(disk)
KeepsTree == Promise!Spec

\* The counts are right until the first crash, across unmount and mount.
CountsFollow ==
  Ready /\ ~crashed =>
    /\ ram.sb.free_blocks = Cardinality(Blocks \ disk.bitmap)
    /\ ram.sb.free_inodes = Cardinality(FreeInodes(disk))

=============================================================================
