------------------------------ MODULE DoriLayout ------------------------------
(***************************************************************************)
(* Where kernel/dorifs.c puts inodes: the inode table dorifs_format lays   *)
(* out and the place of an inode in it, in the units of the code (bytes    *)
(* and blocks), for the scan of dorifs_alloc_inode on a disk whose inodes  *)
(* are all taken.                                                          *)
(***************************************************************************)
EXTENDS Naturals

CONSTANTS
  BlockSize,     \* DORIFS_BLOCK_SIZE
  InodeSize,     \* sizeof(dorifs_inode_t)
  MaxInodes      \* DORIFS_MAX_INODES, the superblock's total_inodes

VARIABLE ino     \* the inode the scan looks at

UpDiv(a, b) == (a + b - 1) \div b

\* dorifs_format.
inode_table_start == 1
inode_table_blocks == UpDiv(MaxInodes * InodeSize, BlockSize)
data_bitmap_start == inode_table_start + inode_table_blocks

\* An inode does not straddle blocks.
inodes_per_block == BlockSize \div InodeSize
InodeBlock(i) == inode_table_start + (i \div inodes_per_block)

Init == ino = 1

ScanOn ==
  /\ ino + 1 < MaxInodes
  /\ ino' = ino + 1

Spec == Init /\ [][ScanOn]_ino

\* dorifs.h:12-14 lays the disk out as inode table, then data bitmap, then data
\* blocks: an inode that may be allocated lies in the inode table.
InodesInTable == InodeBlock(ino) < data_bitmap_start

=============================================================================
