# Verification of MonoOS

MonoOS is a 32-bit x86 hobby kernel ("Dori") with a process table, a heap, a
file system of its own (DoriFS), a desktop (Oki), a small C library and a few
user programs. It has no tests. This directory holds TLA+ models of the parts
of it whose correctness depends on order, interleaving or failure, the TLC runs
that check them, and proofs about them.

    tlc -config MCProcess.cfg MCProcess     # one run; PROJECT.json lists all
    tlapm ProcessProofs.tla                 # and the other *Proofs.tla

## The system

The kernel runs on one CPU. Kernel code is preempted only by interrupt
handlers (timer, keyboard, mouse); processes change places only where they call
`process_yield`. Components interact by direct calls; what is shared between
the main flow and interrupt handlers is the tick counter, the two keyboard
rings, and, through the mouse callback, the whole desktop and the heap.

| Component | State it keeps | Operations | What is hard | What makes it correct |
|---|---|---|---|---|
| process manager `kernel/process.c` | table of slots, current_pid, next_pid, scheduler flag | create, exit, yield, block, unblock, wait | pointers kept across a context switch, zombies, slot reuse, wakeups | one runner; live stacks; no stale child pointer; no lost wakeup; every ready process runs |
| DoriFS `kernel/dorifs.c` | on disk: superblock, inode table, bitmap, blocks; in RAM: superblock, bitmap | format, mount, unmount, create, symlink, write, unlink, truncate, readdir, finddir | crash between block writes, full disk, counts cached in RAM | blocks owned once; entries name what exists; no leak |
| VFS `kernel/vfs.c` | root, descriptor table, mount table | open, read, write, seek, close, unlink, mount ... | cached sizes, descriptors that outlive files, symlink recursion, wrapping positions | a descriptor stands for one inode; no data behind the end of a file; commands close what they open |
| heap `kernel/heap.c` | list of blocks in a fixed region | kmalloc, kfree | split and coalesce; kfree inside IRQ12; a fixed place in memory that it asked nobody for | blocks tile the heap; no overlap |
| PMM, VMM `kernel/pmm.c`, `vmm.c` | bitmap and counter; page tables | alloc, free, map, unmap | counter against bitmap; failure value 0; tables in recycled frames; frames of the heap | who asks for a frame is the only one who gets it; pages lead where they were asked to |
| keyboard `drivers/keyboard.c` | two rings, modifier flags | IRQ1, get_char, get_scancode | full ring; an interrupt between the fetch and the move of the tail | keys in order, each once |
| mouse and Oki `drivers/mouse.c`, `kernel/oki.c` | packet, windows, focus, redraw flag | IRQ12, create, destroy, switch, compose | handler inside the main loop | focus names a window; no redraw lost; keys and redraws are served |
| shell `kernel/kshell.c` | line buffer | run, commands | a read that does not wait | the line that is typed is run |
| PIT `kernel/pit.c` | tick counter | sleep | wrap | a sleep lasts as long as asked |
| ATA `drivers/ata.c` | controller status | read, write, flush | error bit against DRQ wait | transfers end |
| ELF `kernel/elf.c` | none | load | headers nobody checks, sums that wrap, shared pages, partial failure | success only for a complete program |
| system calls `kernel/syscall.c` | none | dispatch | descriptors 1 and 2 go to the screen | the call reaches its operation |
| libc `libc/*.c` | malloc list | malloc, free, formatting | sbrk fails always | blocks do not overlap |
| nix-env `userland/nix-env.c` | manifest file | install, remove, rollback | crash while the manifest is rewritten | old or new manifest |
| boot, GDT, IDT, PIC, framebuffer, VGA, serial | hardware tables, pixels | | | not modelled: written once, or pure output |

`PROJECT.json` lists the hazards, each at its line, with the properties that
would fail if it went wrong, or the reason why there is none. Several of them do
go wrong in the code as it is; the properties make exceptions for that (`victim`,
`stale`, `touched`, `lost`, `missed`, `SharedTable` ...), and the hazard's note
says which part of it they do not catch.

## Modules

**`Process`** is `kernel/process.c`. `table`, `current_pid`, `next_pid` and
`scheduler_enabled` are the file's static variables. `cpu` is the slot on whose
stack the processor is: `context_switch` moves it. `frame` is what a suspended
stack remembers: a process is in its own code, inside `process_wait` (with the
pointer to the child's slot and the pid it was called with), or in the `hlt`
loop of libc's `_exit`. One action per operation: `Create` and
`CreateNoMemory`, `Yield`, `Exit`, `Block`, `Unblock`, `Wait` (entered) and
`WaitAgain` (resumed). An operation up to the context switch it may make is one
step, because nothing preempts it; interrupt handlers call at most
`process_unblock`, which is a step of its own whoever has the CPU. The helper
`YieldTo(tbl, n)` is process_yield called on the table `tbl` its caller has
already changed, so that exit and wait contain the whole yield.
`process_schedule`, which nothing calls, is a call of `process_yield`.
Contract: a process waits for its own child, as `Block until child exits`
intends, and `process_block`, which has no caller in the tree, is applied to
processes in the states `BlockStates`. `MCProcess` gives the instances.

**`ProcessProofs`** holds the theorems (below).

**`DoriFS`** is `kernel/dorifs.c`. An operation runs alone but reaches the disk
as a sequence of block writes. It is computed at once on a context: the disk as
the operation sees it, the RAM copy, the C local `inode`, and the log of disk
images, one per block write. `Create` (with `type` DIR, FILE or SYMLINK),
`Write`, `Unlink` and `Truncate` leave the log in `pending`; `DiskWrite` lets
the next image reach the disk; `Crash` drops the rest, together with the RAM.
`Mount` and `Unmount` copy the superblock and the bitmap. So the disk after a
crash holds exactly a prefix of the operation's writes in the order of the
code. Helpers carry the C names without the prefix: `GetBlock`, `SetBlock`,
`AllocBlock`, `FreeBlock`, `FreeInode`. Sizes count blocks for files and
entries for directories. Contract: the inode was found by a path, as
`vfs_resolve_path` does, files are written and truncated, directories are not;
a descriptor kept across an unlink is left to the VFS module.
The write of `dorifs_alloc_inode` (link count only) is invisible at this level.
Three ghosts keep score: `lost` says which leaks have happened where the code
leaks knowingly or not (a failure of `set_block`, the unlink of a directory that
is not empty, a crash inside an operation), `victim` names the inode that an
unlink or truncate has in its hands, `crashed` that RAM was lost once. A disk
whose unlink or truncate was cut short is *torn*: nothing is promised of what
later operations do with it, and the model stops there.

**`FSTree`** is what DoriFS promises of names: the entries that paths lead along
form a tree; create adds one entry, in one instant; unlink takes one away, with
all that lies below it, though what lay in the directory may go an instant
earlier (its blocks are freed before its entry is wiped); nothing else changes
the tree. `DoriFS` implements it (`KeepsTree`) with the tree read off the disk
at every block write, so that a crash leaves the tree before the operation or
the one after it, except between the two instants of an unlink.

**`DoriLayout`** is the arithmetic of the inode table in the code's own units.

**`Heap`** is `kernel/heap.c`, in bytes. `hdr` is the memory seen as block
headers; a header that coalesce absorbed stays where it was, as in the code.
The ghost `chain` is the set of blocks on the list, `held` what callers have
been given and not freed. kmalloc is `CallMalloc`, one `Search` per block of
the list (the last one with `split_block` in it) and `Mark`, which sets
`free = false` and returns; kfree is `CallFree` and one `Merge` per step of
`coalesce`. Each step is thus small enough for an interrupt to come before and
after it, and no step needs a recursive definition. There are two flows,
`main` and `irq`; the handler runs with interrupts off, so `main` stands still
while it is in kfree (`Running`). `IrqFrees` says whether the handler frees: it
does when the mouse closes a window (`oki_handle_mouse`,
`oki_destroy_window`). Callers free what they hold, once, and ask for sizes
whose rounding does not wrap. **`Allocator`** is the promise: an allocation
is a piece of the heap that overlaps no other one, until it is freed.

**`VFS`** is `kernel/vfs.c` as the system calls (`syscall.c`) and the shell's
commands (`kshell.c`) use it. DoriFS is reduced to a table of inodes
(`inodes`: type, entries, size, link target, and which units of data it has);
`fd_table` is the code's, each descriptor with its own node that caches the
inode's size. Calls run to their end before another one starts, so each is one
action; it is computed on a record of both tables (`Opened`, `Created`,
`Unlinked`, `WrittenBy`, named after the functions) and committed by `Commit`.
`Walk` is `vfs_resolve_path`, links included: `Step` is one round of its loop,
`Along` the loop, and `Leads` its recursion on the targets of links, level by
level. A recursion deeper than there are inodes does not end
(`halted = "recursion"`). kmalloc may refuse one node in
each call (`Ooms`). Positions are words, `% Word`. A write that lands in a
directory, through a descriptor of a directory or one whose inode was freed and
reused, leaves entries nobody wrote; the model ends there (`"wrecked"`). The
comment at vfs.c:82 says "single level, no recursive resolution for now", and
vfs.c:90 recurses, without a limit: on a circle of links a path is never resolved.
The model is of the code; `HangsOnlyOnCircle` permits that hang and no other. The
ghosts `stale` and `touched` are the descriptors whose inode was freed, or
changed by somebody else, since. **`OpenFiles`** is what holders of descriptors
rely on. **`VFSProofs`** holds the theorems, over the lemmas on natural numbers of
**`NatLemmas`**.

**`Memory`** is `kernel/pmm.c`, `vmm.c` and `elf.c`, with the boot that sets
them up (`kernel.c`, init_memory) and the frame buffer's pages (`framebuffer.c`).
The heap's pages (`Heap`) are part of it: `init_memory` leaves their frames free,
since nobody calls `pmm_deinit_region`, so `pmm_alloc_frame` hands them out like
any others, and `HeapWrite` writes to them at any time, an interrupt handler in
the middle of a load included. They lie behind the kernel and its bitmap, which
end below 2 MiB, and inside the 16 MiB that `vmm_init` maps (`HeapAssumption`).
Frames and pages are numbers. `ptab` reads every frame as a page table, so that
a table made of a recycled frame begins with what is left in it; `content` reads
it as program memory. `vmm_init` and `elf_load` take one step per page,
everybody else is one action per call. `Allocates(f, u, n)` is pmm_alloc_frame
as a relation, f = 0 for failure; `MapPage` goes on with that 0 as the code
does. With paging on a table is reached through the page of the same number
(`Reached`); where that page is not mapped to itself the page fault handler
halts, `pc = "stopped"`. When two page tables are wanted and no frame is left
they are both made at frame 0 (`SharedTable`), and the second wipes out the
pages of the first; the properties say what holds then, and what without it.
A program header is what the file says: any offset, sizes and address. Addresses
are of 32 bits (`Word` is the size of the address space), and `elf_load` computes
with them as the code does: the test on the bounds of the file (`Checked`) and the
rounded end of a segment (`PageEnd`) wrap. `Written` are the pages that memcpy and
memset write to, whether the load has mapped them or not: a filesz larger than
memsz goes on behind the segment. A write that faults, or hits the kernel, the
bitmap or a page table, is `Fatal` and ends the model; what is read from outside
the file is other bytes, or a fault. What the kernel does once its heap is
overwritten or its pages lead elsewhere is not modelled, and a program's file
is taken to stay in place while it is loaded.
**`MemoryProofs`** holds the theorems.

**`Keyboard`** is `drivers/keyboard.c`: IRQ1 (`Press`, `Release`, with shift,
ctrl, caps lock and suppressed auto-repeat) and the two reads, each in two steps, the
fetch and the move of the tail, between which interrupts come. A cell that was
read is blanked in the model, since it is not read again. **`Mouse`** is the
decoding of a packet in `drivers/mouse.c`. It is a module of operators and one
half of an action; the interrupts that only put bytes 1 and 2 aside are left
out, and what a packet says is arbitrary, as it is once a byte was lost.
**`KeyQueue`** is the promise of a key ring: a bounded queue.

**`Desktop`** is `kernel/oki.c`, composed with `Keyboard` and `Mouse`. `desktop`,
`win` and `term` are the code's structures. The main flow creates two windows,
draws a first frame and goes round the loop of `oki_run`: `PollCode`,
`OtherKey` or `SwitchWorkspace` and `SwitchFocus`, `PollChar`, `CheckFocus`,
`TypeChar`, `Compose`, `Swap`, `ClearRedraw` or `NoFrame`, and `hlt`. `KeyIrq`,
`MouseIrq` (with the whole of `oki_handle_mouse` in it), `MouseQuiet` and `Tick`
may come between any two of these steps: kernel.c:271 installs the callback
before `oki_init` runs. Where the code reads `desktop` and stores an index into
it later, these are two steps (`CreateWindow` and `InsertWindow`,
`SwitchWorkspace` and `SwitchFocus`); the three stores of an insertion are one.
Three ghosts: `missed`, a redraw was asked for while a frame was being
composed; `overtaken`, IRQ12 closed a window under an index in use; `shown`,
what is on the screen. The two exceptions that the properties make are what the
code does: such a redraw is lost until the next one, and such an index names
another window or none. **`DesktopProofs`** (the rings, with the lemmas about a
ring and its content) and **`OkiProofs`** (the windows and the screen) hold the
theorems.

**`Shell`** is the line editor of `kernel/kshell.c` over `Keyboard`.

## Runs

| Run | Shows |
|---|---|
| `process` | three slots, four pids, stacks refused at will: `TypeOK`, `OneRunner`, `StackLive`, `ChildPointerFresh`, `NoLostWakeup`, `LifeCycle`, `ReadyRunsIfAligned` |
| `round_robin` | the scheduler is not round-robin once a slot is reused (process.c:41) |
| `exit_never_returns` | the last process to exit returns from process_exit (process.c:171) |
| `dorifs` | `TypeOK`, `BlocksOwned`, `NoBlockLeak`, `EntriesSound`, `NoInodeLeak`, `CountsFollow`, at every point between two block writes and after any crash, and `KeepsTree`: `DoriFS` implements `FSTree` |
| `heap` | no frees in interrupts: `TypeOK`, `Tiling`, `NothingLost`, `Coalesced`, `NullOnlyWhenFull`, `CallsReturn`, and `KeepsPromise`: `Heap` implements `Allocator` |
| `heap_irq` | a free in IRQ12 in the middle of a kmalloc makes two allocations overlap |
| `inodes_in_table` | inode 946 and above lie outside the inode table |
| `vfs` | `TypeOK`, `EntriesSound`, `SizeCoversData`, `DescriptorsKeepTheirFile`, `HangsOnlyOnCircle`, `AppendAtEnd`, `FullTableHarmless`, `CommandsCloseTheirs`, and `KeepsPromise`: `VFS` implements `OpenFiles` |
| `memory` | `TypeOK`, `CounterMatches`, `FramesApart`, `TranslationsAsAsked`, `LoadComplete`, also when frames run out inside a load or a mapping |
| `heap_apart` | frames of the live heap are handed out as page tables and program memory (heap.h:8 calls its address safe) |
| `desktop` | `TypeOK`, `FocusSound`, `ShownOrAsked`, `KeysInOrder` (both rings implement `KeyQueue`), `EverythingServed` |
| `shell_line` | the shell runs another line than the one typed (kshell.c:546) |

Six runs end in a violation because the code does; `PROJECT.json` quotes the
text it contradicts. Five more disagreements have no run: the recursion over links
(above); the counts that dorifs.c:734 reports, stale after any restart, since
nothing calls dorifs_unmount; frames behind the last whole word of the bitmap,
which are free for the counter and never found, so that pmm_alloc_frame fails
(pmm.c:84, "Out of memory") before memory is full; the pages of the heap, which
heap.h:7 and vmm.c:103 say are mapped to themselves, and which a program linked at
4 MiB (libc/user.ld) takes away when it is loaded; and the "Validate file bounds"
of elf.c:100, whose sum wraps. All are modelled as the code does them. In the other direction, README.md:618 of the repository
warns that the bitmap is not written through; the code does write it through,
and `BlocksOwned` would fail after a restart if it did not.

Bounds. Process: three slots are the fewest in which a parent, a child and a
bystander meet, and four pids (after the kernel's 0) let a slot be reused with
a pid that does not lead to it; the same properties were also checked with four
slots and five pids. DoriFS: root and two inodes, so that a file and a
directory, or a directory in a directory, coexist; three blocks, so that the
disk fills up in the middle of an operation; one direct and one indirect
pointer and files of up to three blocks, so that the indirect block is
allocated, fails to be, and the file gets too long; two entries to a block and
three to a directory, so that directories need the indirect block too; two
names, interchangeable (symmetry); one crash or unmount, since a crash leaves
nothing behind but the disk. Heap: headers of four bytes and 36 bytes in all,
so that up to four blocks of the smallest size exist at once, a remainder is
sometimes too small to be split off, and requests (1 and 6, rounded to 4 and 8)
meet blocks that are too small, exact and too large. VFS: a root and two
inodes, two names (interchangeable), paths of up to two names and two
descriptors are the fewest in which a file is open twice, a link leads through
another, a freed inode is reused under an open descriptor and the table of
descriptors fills up; files of two units with positions modulo three make every
seek backwards wrap; five calls that change something. Memory: nine
frames, four to a word of the bitmap, so that the last one is never found; eight
pages mapped to themselves, two of them the heap, and tables of four entries, so
that the boot leaves three frames and tables above the mapped pages occur; pages
of two bytes and files of twenty, in an address space of forty; two loads of eight
images: in the heap, sharing a page, over the end of a table and mostly zeros, in
two tables that are shared when frames run out, cut short, and three whose headers
are unsound (a sum that wraps in the test on the file, one that wraps in the
rounding, filesz beyond memsz). Desktop: two
windows, as `oki_init` makes them, on a screen of six cells; rings of three
places, so that they fill up; three interrupts of keyboard and mouse together
(a click needs one, an interrupt under an index or a frame another); a terminal
of two rows and one character.

Fairness. `Process` assumes weak fairness of `Yield` and of a resumed
`process_wait`, for each process that has the CPU: the scheduler is cooperative
and promises nothing without it. Nobody is obliged to create, exit, block or
unblock. `ReadyRunsIfAligned` states exactly when readiness leads to the CPU:
while every pid is congruent to its slot and nobody sits in `_exit`'s loop.
`RoundRobin` is refuted under the same fairness. `Heap` assumes that a call
once entered goes on, which is all `CallsReturn` needs. `Desktop` assumes weak fairness of the
main flow, which nothing else keeps from running, and of the timer tick, which
ends every `hlt`; keys and the mouse owe nothing. `DoriFS`, `VFS` and `Memory`
have safety only.
`CHECK_DEADLOCK FALSE` where the machine may stop: the `hlt` loop, a full or
torn disk, a kernel stack eaten by recursion, a page fault.

## Proofs

`ProcessProofs` proves, for every number of slots and pids, whether or not
kmalloc may fail and whatever processes are blocked from outside:

- `TypeCorrect`, `OneRunnerHolds`, `StackLiveHolds`, `ChildPointerFreshHolds`:
  the four invariants of the same names;
- `LifeCycleHolds`: the action property, from the same invariant;
- `NoLostWakeupHolds`: `NoLostWakeup`, assuming that process_block is never
  applied to a READY process (`"READY" \notin BlockStates`). Without that
  assumption it is false: a parent that its child's exit has just woken could
  be put to sleep again, with nobody left to wake it;
- `Invariance`: the inductive invariant `IInv` they follow from.

The argument: pids are unique because all of them are below `next_pid`
(`PidsBelowNext`); hence `find_process` is a function (`FindFound`,
`FindResult`) and names the slot whose stack the CPU is on (`OneRunner`); hence
only the parent's own code can collect its zombie, so the pointer it keeps
stays good (`ChildPointerFresh`). `CpuNotDead` is what makes it inductive: who
executes its own code has not exited. `YieldStep` and `WakeStep` say what
process_yield and process_unblock may do to a table; each action has a lemma of
its own. `NoLostWakeup` is inductive together with `IInv`: by
`ChildPointerFresh` the parent that `Exit` finds and wakes is the only process
that may be waiting for the one that exits. The assumptions are the named ones of `Process`; the bound `MaxPid`
stands for "the 2^32 wrap of next_pid is not reached".

`HeapProofs` proves, for every size of heap, header and request, as long as no
interrupt handler frees (`~IrqFrees`, without which `heap_irq` refutes it):

- `TypeCorrect`, `TilingHolds`, `NothingLostHolds`, `CoalescedHolds` and
  `NullOnlyWhenFullHolds`: the properties of the run `heap` but liveness;
- `KeepsPromiseHolds`: the refinement, initial states to initial states and
  `Mark` to `Alloc`, `CallFree` to `Free`, everything else to a stutter.

The inductive invariant adds to the tiling `HeldBlocks` (what is held is a
block of the list, in use and large enough), `WalkOK` (kmalloc has passed only
blocks that do not fit; the block to be marked fits) and `PairsOK` (a free pair
exists only where kmalloc has just split or ahead of coalesce).

`MemoryProofs` proves, for every size of memory, of its address space and of a
page table, and for all programs, `TypeCorrect` and `CounterMatchesHolds`: the
counter and the bitmap of the physical memory manager agree after any sequence
of calls, those that fail inside `vmm_map_page` or a load included. `Invariance`
adds to them that a frame in a caller's hand is marked, and that a load under
way stands at a segment of its program.

It further proves `FramesApartHolds`, `TranslationsAsAskedHolds` and
`LoadCompleteHolds`, each assuming that the boot leaves a frame for the
directory where pmm_alloc_frame looks (`KernelEnd \in Scanned`); without one the
directory itself would be at frame 0. None of them says that the heap is left
alone, which is false:

- `FramesApart` is about those who ask `pmm_alloc_frame`: the directory, the page
  tables, the pages of programs and other callers never share a frame, unless the
  table at frame 0 is shared. The heap has never asked (`HeapApart` is refuted).
- `TranslationsAsAsked` is about the pages no load has mapped: the first 16 MiB,
  the devices' pages and those nobody mapped, unless their table is a shared one.
- `LoadComplete` is about an `elf_load` that returns 0 for a program whose headers
  are `WellFormed`, with no shared table: every page of every segment leads to a
  frame that this load has copied the segment's bytes to, and that nobody has
  written to since but the heap, where the page or the frame is one of its own.
  Pages that a later segment shares are left out, because the later one maps them
  anew. Of other headers it says nothing: a segment whose
  end in the file wraps is loaded with other bytes (`CopySegment`), and elf_load
  still returns 0.

The argument: what pmm_alloc_frame
returns belonged to none of those who asked, so a new table shares its frame with
no other table unless it is the one at frame 0; hence vmm_map_page changes what
one page leads to, and
another page only if the table at frame 0 is shared (`MapPagePhys`); hence the
pages a load has mapped stay in place while it maps the others (`LoadSoFar`).
For a well-formed header the wrapping arithmetic of the code gives the bounds it
means, and what memcpy and memset write to are the segment's pages and no others
(`SoundHeader`, from `PageOf`, `AddressPages` and `SegmentPages`, which divide
addresses by pages); hence a copy leaves the pages of the other segments alone
(`CopyFrames`), and a write of the heap reaches only its own pages and what shares
a frame with them (`HeapWriteFrames`, `HoldsKept`).
The invariant `FInv` says this for the directory, the tables, the memory of
programs, the kernel's pages and the load under way; `FramesInvariance` proves
it, one lemma for each action.

`DesktopProofs` proves what a ring is: `PushAppends` (a push appends to
`Content`, or loses the key when the ring is full) and `DropTakesOldest`, for
rings of every size, with all the modular arithmetic. It concludes
`KeysInOrderHolds`: the desktop with its two rings implements `KeyQueue` twice,
initial states to initial states, `Press` and `Release` to `Offer`, the fetch
to the start of a read and the move of the tail to its end, everything else to
a stutter. Its invariant (`CharsOK`, `CodesOK`) is that the entry the reader has
fetched is still the oldest one when it moves the tail.

`OkiProofs` proves the rest of the desktop's safety, for every number of windows
and workspaces, every screen and terminal, and every order of keys, clicks and
ticks: `TypeCorrect`, `FocusSoundHolds` and `ShownOrAskedHolds`. For the focus
the invariant (`FocusInv`) is that the list is a gapless sequence of different
windows, all of them created, so that the next one to be entered is new; that
all windows are on workspace 0, since they are created before a key can switch;
and that the index the main flow holds is what it was read as, unless
`overtaken`. `ClickKeeps` says what a click may do to the list. For the screen
(`ShownInv`) it is which of screen, back buffer and flag is up to date at each
point of a frame; `TextUnseen` covers the terminal whose surface kmalloc
refused.

`VFSProofs` proves every property of the run `vfs`, for every number of inodes
and descriptors, every set of paths, link targets and values, and every length
of a write: `TypeCorrect`, `EntriesSoundHolds`, `SizeCoversDataHolds`,
`DescriptorsKeepTheirFileHolds`, `HangsOnlyOnCircleHolds`, the action properties
`AppendAtEndHolds`, `FullTableHarmlessHolds` and `CommandsCloseTheirsHolds`, and
`KeepsPromiseHolds`: initial states to initial states of `OpenFiles`, each call
to an open, a close or a stutter of it. Two assumptions are added to those on
the sizes: paths and targets are sequences of names (`PathsAssumption`), and a
write does not come round to where it began, `MaxFile + MaxWrite <= Word`
(`ReachAssumption`): the code writes byte by byte to files of at most 4 MB with
positions of 32 bits.

The argument: `Sound` says of the inode table alone that the root is a
directory and in no entry, that an entry names an inode in use, that no inode
has two entries, and that the size covers the data. Each function of the code
keeps it, from path resolution (`ResolveSound`) over entries (`EntryAdded`,
`EntryRemoved`), truncation and writing (`TruncatedSound`, `WriteSound`) to the
whole of open, close and the shell's commands (`OpenedSound`, `CommandSound`);
so it holds between two calls (`CommitOK`). `Current` says what an open
descriptor still knows of its inode: the type unless `stale`, the size unless
`touched`; this makes `AppendAtEnd` true. For `HangsOnlyOnCircle`
(`WalkHangs`), the set of links that do not end within n levels shrinks with n
and stays inside a finite set, so it stops shrinking before the levels are used
up; where it stops, each link of the set leads through another one of the set.
The loop over a path and the recursion over levels are recursive functions;
`Rounds` in `NatLemmas` shows that a function defined by rounds exists, and
`UpTo` is the induction, from least elements, that says what it computes.

`DoriFSProofs` proves, for every number of inodes and blocks, every number of
pointers in an inode and in an indirect block, every number of entries in a
block, and a crash between any two block writes: `TypeCorrect`,
`BlocksOwnedHolds`, `EntriesSoundHolds`, `CountsFollowHolds`, `NoBlockLeakHolds`
and `NoInodeLeakHolds`.
`Invariance` is the inductive invariant. The argument is about one disk image at a time. `Sound(d, v)` says of
an image `d`, with inode `v` in the hands of an unlink or truncate: the root is a
directory; every place that refers to a block refers to another one and to a
marked one, but for those of `v` (`OwnedIn`, over the map `RefMap` of all
places); directories have no hole where the next entry goes (`NoHole`); what is
listed exists, with its type, and once (`NamedOK`, `NamedOnce`). The lemmas
`BitmapImage`, `BlockImage`, `PointerImage` and `InodeImage` say what each kind
of block write does to references and listings. On them rest the operations:

- growing (`dorifs_alloc_block`, `dorifs_set_block`): the local C `inode` is
  ahead of the one on the disk, so what must stay sound is `Eff`, the disk as it
  would be were the local inode written now (`Growing`, `Grows`);
- create: the new inode is listed nowhere until its entry is counted by the size
  of the directory, and the entry is written before it is counted (`NewEntry`,
  `Entered`, `SoundAppended`), also into an indirect table that has just been made;
- write: the rounds of its loop (`LoopedGrows`);
- unlink: the bitmap goes ahead of the inode (`Freeing`), the inode ahead of the
  entry (`Emptied`), and the entry is wiped through a copy of the directory's
  block read before anything was freed (`SoundDropped`);
- truncate: the bitmap goes ahead of the pointer, the pointers in the indirect
  block ahead of the inode (`Unmarked`, `Shrinking`).

So every image in an operation's log is sound (`Done`); the images still to
come are (`PendingOK`); hence the disk is at every moment and after every crash,
and the bitmap that mount reads or the operation leaves in memory is the
disk's (`RamOK`).

The counts are a second layer on the same lemmas. `BlocksKept(c, a)` says that from
one point of an operation to another the count of free blocks has gone with the
bitmap, modulo 2^32. To allocate keeps it; to free does if the block is marked
(`FreeCounts`), and that it is follows from soundness: the blocks of the inode in
hand belong to nobody else, so those already given back are not among those to
come (`StillMarked`, `TableKept`). `dorifs_free_inode` counts right because what
it gives back was in use, `dorifs_alloc_inode` because what it takes was not. The
counts in memory are then those of the disk at the end of the operation
(`CountsOK`, `Settled`), and unmount and mount carry them over. A crash ends
this: hence "until the first crash"; after it the counts are those of the last
format or unmount.

What leaks is a third layer, the converse of the first: `Tight(d)` says that every
marked block is referred to, that `block_count` is the number of file blocks an
inode has, and that a free inode refers to none. Within an operation it is not
kept step by step, since an allocated block is marked before anything refers to
it; it is kept from the point before `dorifs_alloc_block` to the one after
`dorifs_set_block` (`Filled`, `FilledTight`), on the disk with the local inode
written (`TightIn`, `Tightens`), unless `dorifs_set_block` failed on the way. Blocks
given back leave with their pointers: one by one in truncate (`Unmarks`, `GivesUp`,
`GivenUpTight`), all at once in unlink, where between the bitmap and the inode it
holds but for the inode in hand (`TightBut`, `FreedTight`). Of the state it says
that the disk the operation in progress ends with is tight (`LeakOK`).

The fourth layer is about inodes. `Reachable` counts rounds from the root; that
there are enough of them is a pigeonhole argument, so that the inodes it finds are
the least set that holds the root and is closed under entries (`ReachRounds`,
`ReachClosed`, `ReachLeast`), and an operation that takes no entry away but those
of one inode, itself without entries, loses at most that inode (`ReachMore`).
`Whole(d, v)` says that every inode in use but `v` is reachable, and that a
directory has all the blocks its size says (`Full`): without that an entry could
be counted and still not be seen (`FullListed`). What does not touch a directory
keeps it (`WholeLike`, `WholeFile`, `WholeGrown`); a create makes its inode while
nothing lists it and ends with an entry for it or with the inode given back
(`WholeAppended`, `AppendEntrySound`); an unlink removes the entry of an inode
that is free by then (`WholeDropped`, `UnlinkedSound`). Of the operation as a
whole it is `OrphanFree`, of the state `OrphanOK`.

Only model-checked: liveness (`CallsReturn`, `ReadyRunsIfAligned`,
`EverythingServed`), which the prover does not do under fairness; of `DoriFS`
the refinement `KeepsTree`; and `Shell`.

## Plan

Done, in this order: `Process`, `DoriFS` with `FSTree`, `DoriLayout`,
`Heap` with `Allocator`, `VFS` with `OpenFiles`, `Memory`, `Keyboard` with `KeyQueue`,
`Mouse`, `Desktop`, `Shell`, and the theorems above.

What would come next:

1. `VFS` over `FSTree` instead of over its own inodes. It is not a matter of
   renaming: an open with TRUNC of a directory empties it, be it the root, which
   no operation of DoriFS that the model of it contains does.
2. The drawing of a frame window by window, so that IRQ12 may free what is just
   being drawn (oki.c:457).
3. `Profile`: nix-env's rewriting of its manifest, with crashes, once a program
   can be started at all.
4. Theorems: `KeepsTree` of `DoriFS`, step by step; that the entries of `FSTree` form a tree; that the inode table suffices exactly when
   `MaxInodes <= inodes_per_block * inode_table_blocks`.

## Not modelled

Rendering (framebuffer, VGA, serial), descriptor tables of the CPU, the
straight-line part of the boot, the text of messages, and the x86_64 migration
plans under `docs/`.

User programs, nix-env among them, cannot be started: exec returns -1
whatever it is asked. For the same kind of reason libc's malloc is left out: it
grows by sbrk, brk always fails, and so it never owns a block to manage.

Without callers in the tree: `pit_sleep`, `keyboard_getchar`,
`keyboard_has_input`, `oki_move_window`, `oki_resize_window`,
`pmm_deinit_region`. `elf_load` has none either, but is modelled, as what a
working exec would call. Mounts other than the root's are made by nobody and would
not be seen by path resolution.

Abstracted: registers and stack contents in `Process`; file data, time stamps,
link counts, the byte layout of directories and failing disk transfers in
`DoriFS`; the TLB, page flags, the checks of `elf_validate` and the bytes of a
frame (only who wrote them is kept) in `Memory`;
pixels in `Desktop`, where the drawing of all windows of a frame is one step;
the first two bytes of a packet in `Mouse`; the ports and polls of the ATA
driver, of which only the write of a block is left.

A remark on `vfs_readlink`: it resolves its path with `vfs_resolve_path`, which
follows the link it was asked to read, although its comment says "Don't follow
symlinks": readlink of a link fails, or reads the link it leads to. Its only
caller is the system call of the same name.
