--------------------------------- MODULE VFS ---------------------------------
(***************************************************************************)
(* The virtual file system of kernel/vfs.c on top of the DoriFS operations *)
(* it calls, as its callers see it: path resolution with symbolic links,   *)
(* the descriptor table with the size each descriptor's node caches, the   *)
(* system calls and the shell commands that use it.  Kernel code is not    *)
(* preempted here, so a call is one step.                                  *)
(*                                                                         *)
(* Abstracted: DoriFS is reduced to its inodes (its blocks, and crashes,   *)
(* are in module DoriFS); a file is a few units of a block each; a path is *)
(* a sequence of names, "/" the empty one; the size of a directory is left *)
(* out, since nothing here depends on it; mounts on other paths than "/",  *)
(* which nobody makes.                                                     *)
(***************************************************************************)
EXTENDS Naturals, FiniteSets, SequencesExt

CONSTANTS
  NInodes,       \* inodes of the file system; 0 is "none", 1 the root
  NFds,          \* VFS_MAX_OPEN_FILES
  Names,
  Paths,         \* the paths callers use
  Targets,       \* the paths links are given
  Vals, Hole,    \* what a unit of a file may hold, and a unit without a block
  MaxFile,       \* units a file may have (direct and indirect pointers)
  Word,          \* 2^32, in units
  MaxWrite,      \* bound: units written by one call
  MaxEntries,    \* bound: entries of a directory
  MaxCalls       \* bound: calls that change something

ASSUME InodesAssumption == NInodes \in Nat /\ NInodes >= 2
ASSUME SizesAssumption ==
  /\ {NFds, MaxFile, Word, MaxWrite, MaxEntries, MaxCalls} \subseteq Nat \ {0}
  /\ MaxFile < Word
\* A write gets no further than the disk is large, which is far from 4 GB.
ASSUME ReachAssumption == MaxFile + MaxWrite <= Word
ASSUME PathsAssumption == Paths \cup Targets \subseteq Seq(Names)
ASSUME HoleAssumption == Hole \notin Vals

VARIABLES
  inodes,    \* the inode table of the mounted DoriFS
  fd_table,
  halted,    \* why the kernel stands still: "no", "recursion" or "wrecked"
  stale,     \* ghost: descriptors whose inode was freed since they were opened
  touched,   \* ghost: descriptors whose inode somebody else has changed since
             \* their own last open or write
  calls      \* bound: calls made so far that changed something

vars == <<inodes, fd_table, halted, stale, touched, calls>>

Root == 1
None == 0
Inodes == 1 .. NInodes
Fds == 0 .. NFds - 1
Units == 0 .. MaxFile - 1
Flags == SUBSET {"CREAT", "TRUNC", "APPEND"}

Types == {"FREE", "FILE", "DIR", "SYMLINK"}
Entry == [name : Names, inode : Inodes]

\* A zeroed inode.
FreeInode ==
  [type |-> "FREE", entries |-> <<>>, size |-> 0, target |-> <<>>,
   data |-> [u \in Units |-> Hole]]

NewInode(type, target) == [FreeInode EXCEPT !.type = type, !.target = target]

Node == [inode : Inodes, type : Types, size : 0 .. Word - 1]
NoNode == [inode |-> None, type |-> "FREE", size |-> 0]
ClosedFd == [in_use |-> FALSE, node |-> NoNode, offset |-> 0, append |-> FALSE]
InUse(fds) == {fd \in Fds : fds[fd].in_use}

TypeOK ==
  /\ DOMAIN inodes = Inodes
  /\ \A i \in Inodes :
       /\ inodes[i].type \in Types
       /\ Len(inodes[i].entries) <= MaxEntries
       /\ \A k \in DOMAIN inodes[i].entries : inodes[i].entries[k] \in Entry
       /\ inodes[i].size \in 0 .. Word - 1
       /\ inodes[i].target \in Targets \cup {<<>>}
       /\ inodes[i].data \in [Units -> Vals \cup {Hole}]
  /\ fd_table \in [Fds -> [in_use : BOOLEAN, node : Node \cup {NoNode},
                           offset : 0 .. Word - 1, append : BOOLEAN]]
  /\ \A fd \in Fds : ~fd_table[fd].in_use => fd_table[fd] = ClosedFd
  /\ halted \in {"no", "recursion", "wrecked"}
  /\ stale \cup touched \subseteq InUse(fd_table)
  /\ calls \in 0 .. MaxCalls

Init ==
  /\ inodes = [i \in Inodes |->
                 IF i = Root THEN NewInode("DIR", <<>>) ELSE FreeInode]
  /\ fd_table = [fd \in Fds |-> ClosedFd]
  /\ halted = "no"
  /\ stale = {} /\ touched = {}
  /\ calls = 0

-----------------------------------------------------------------------------
(* Path resolution *)

Hits(ind, dir, name) == {k \in DOMAIN ind[dir].entries : ind[dir].entries[k].name = name}

\* The first entry of that name.
Hit(ind, dir, name) == Min(Hits(ind, dir, name))

\* finddir.
Find(ind, dir, name) ==
  IF Hits(ind, dir, name) = {} THEN None ELSE ind[dir].entries[Hit(ind, dir, name)].inode

Loop == NInodes + 1
Stops == {None, Loop}

\* Mutant: a link is taken for what it names.
StepNoFollow(ind, leads, dir, name) ==
  IF dir \in Stops THEN dir
  ELSE IF ind[dir].type # "DIR" THEN None
  ELSE Find(ind, dir, name)

\* One round of vfs_resolve_path's loop: name is looked up in dir.  leads[l] is
\* what link l leads to; Stops are final.
Step(ind, leads, dir, name) ==
  LET child == Find(ind, dir, name)
  IN  IF dir \in Stops THEN dir
      ELSE IF ind[dir].type # "DIR" THEN None
      ELSE IF child = None THEN None
      ELSE IF ind[child].type = "SYMLINK" THEN leads[child] ELSE child

\* The loop: all names of path from the root on, absolute or not.
Along(ind, leads, path) ==
  LET at[k \in 0 .. Len(path)] ==
        IF k = 0 THEN Root ELSE Step(ind, leads, at[k - 1], path[k])
  IN  at[Len(path)]

\* Mutant: a link that is also found where it leads to is followed once more.
LeadsStuck(ind) ==
  LET leads[n \in 0 .. Loop] ==
        [l \in Inodes |->
           IF n = 0 THEN Loop
           ELSE LET i == Along(ind, leads[n - 1], ind[l].target)
                IN  IF i \in Inodes
                       /\ \E k \in DOMAIN ind[i].entries : ind[i].entries[k].inode = l
                    THEN leads[n - 1][l] ELSE i]
  IN  leads[Loop]

\* What the links lead to, by the recursion of vfs_resolve_path on their
\* targets: leads[n] is what it finds n levels deep.  It does not end once it is
\* deeper than there are links.
Leads(ind) ==
  LET leads[n \in 0 .. Loop] ==
        [l \in Inodes |->
           IF n = 0 THEN Loop ELSE Along(ind, leads[n - 1], ind[l].target)]
  IN  leads[Loop]

\* vfs_resolve_path: the inode, None, or Loop if the recursion does not end.
Walk(ind, path) == Along(ind, Leads(ind), path)

\* A resolution in which kmalloc refuses the first node it asks for finds
\* nothing; the root has its node from the mount.
Resolve(ind, path, oom) ==
  IF oom /\ path # <<>> THEN None ELSE Walk(ind, path)

-----------------------------------------------------------------------------
(* Operations.  s is the state of the file system, s.ind and s.fds; each one *)
(* returns the next s with its result in s.r, and -1 where the code does.    *)

Fail == 0 - 1
S == [ind |-> inodes, fds |-> fd_table, r |-> 0, halt |-> halted]

FreeInodes(ind) == {i \in Inodes \ {Root} : ind[i].type = "FREE"}

\* Mutant: the lowest inode that is no directory is taken, in use or not.
AllocInodeInUse(ind) ==
  LET free == {i \in Inodes \ {Root} : ind[i].type \in {"FREE", "FILE"}}
  IN  IF free = {} THEN None ELSE Min(free)

AllocInode(ind) == IF FreeInodes(ind) = {} THEN None ELSE Min(FreeInodes(ind))

Returning(s, r) == [s EXCEPT !.r = r]
Hung(s) == [s EXCEPT !.halt = "recursion"]

\* vfs_create, vfs_mkdir, vfs_symlink and what they call.  Nobody looks whether
\* the name exists.  A link's target counts as one unit.
Created(s, path, inode, oom) ==
  LET dir == Resolve(s.ind, Front(path), oom)
      new == AllocInode(s.ind)
  IN  IF dir = Loop THEN Hung(s)
      ELSE IF dir = None THEN Returning(s, Fail)
      ELSE IF s.ind[dir].type # "DIR" \/ new = None THEN Returning(s, Fail)
      ELSE [s EXCEPT
              !.ind[new] = inode,
              !.ind[dir].entries = Append(@, [name |-> Last(path), inode |-> new]),
              !.r = 0]

\* vfs_unlink: the inode is zeroed whatever it is and whoever has it open.
Unlinked(s, path, oom) ==
  LET dir == Resolve(s.ind, Front(path), oom)
      i == Find(s.ind, dir, Last(path))
      rest == [s.ind EXCEPT ![dir].entries = RemoveAt(@, Hit(s.ind, dir, Last(path)))]
  IN  IF dir = Loop THEN Hung(s)
      ELSE IF dir = None THEN Returning(s, Fail)
      ELSE IF s.ind[dir].type # "DIR" \/ i = None THEN Returning(s, Fail)
      ELSE [s EXCEPT !.ind = [rest EXCEPT ![i] = FreeInode], !.r = 0]

\* dorifs_vfs_truncate to nothing, of a directory as well.
Truncated(ind, i) ==
  [ind EXCEPT ![i].data = FreeInode.data, ![i].size = 0, ![i].entries = <<>>]

\* Mutant: a number in use is handed out.
FdAllocAny(fds) == IF InUse(fds) = Fds THEN Fail ELSE 0

FdAlloc(fds) == IF InUse(fds) = Fds THEN Fail ELSE Min(Fds \ InUse(fds))

\* Mutant: the file is emptied before it is known that there is a descriptor.
OpenNodeEmptying(s, i, flags) ==
  LET fd == FdAlloc(s.fds)
      ind == IF "TRUNC" \in flags THEN Truncated(s.ind, i) ELSE s.ind
      node == [inode |-> i, type |-> ind[i].type, size |-> ind[i].size]
  IN  IF fd = Fail THEN [s EXCEPT !.ind = ind, !.r = Fail]
      ELSE [s EXCEPT
              !.ind = ind, !.r = fd,
              !.fds[fd] = [in_use |-> TRUE, node |-> node,
                           offset |-> IF "APPEND" \in flags THEN node.size ELSE 0,
                           append |-> "APPEND" \in flags]]

\* vfs_open once it has a node.
OpenNode(s, i, flags) ==
  LET fd == FdAlloc(s.fds)
      ind == IF "TRUNC" \in flags THEN Truncated(s.ind, i) ELSE s.ind
      node == [inode |-> i, type |-> ind[i].type, size |-> ind[i].size]
  IN  IF fd = Fail THEN Returning(s, Fail)
      ELSE [s EXCEPT
              !.ind = ind, !.r = fd,
              !.fds[fd] = [in_use |-> TRUE, node |-> node,
                           offset |-> IF "APPEND" \in flags THEN node.size ELSE 0,
                           append |-> "APPEND" \in flags]]

\* vfs_open.  oom says which of its three resolutions are refused a node: that
\* of the path, that of its parent, and that of the path again.
Opened(s, path, flags, oom) ==
  LET first == Resolve(s.ind, path, 1 \in oom)
      made == Created(s, path, NewInode("FILE", <<>>), 2 \in oom)
      again == Resolve(made.ind, path, 3 \in oom)
  IN  IF first = Loop THEN Hung(s)
      ELSE IF first # None THEN OpenNode(s, first, flags)
      ELSE IF "CREAT" \notin flags \/ path = <<>> THEN Returning(s, Fail)
      ELSE IF made.halt # "no" \/ made.r = Fail THEN made
      ELSE IF again = Loop THEN Hung(made)
      ELSE IF again = None THEN Returning(made, Fail)
      ELSE OpenNode(made, again, flags)

\* Mutant: the slot keeps its node.
ClosedKeepingNode(s, fd) == [s EXCEPT !.fds[fd].in_use = FALSE, !.r = 0]

ClosedOne(s, fd) == [s EXCEPT !.fds[fd] = ClosedFd, !.r = 0]

\* dorifs_vfs_read: how many units are read.  A read stops at the end of the
\* file, and at a unit without a block.
ReadCount(inode, offset, n) ==
  LET wanted == IF offset >= inode.size THEN 0
                ELSE IF (offset + n) % Word > inode.size THEN inode.size - offset
                ELSE n
      Present(k) == (offset + k) % Word \in Units
                    /\ inode.data[(offset + k) % Word] # Hole
  IN  Max({k \in 0 .. wanted : \A j \in 0 .. k - 1 : Present(j)})

ReadBy(s, fd, n) ==
  LET f == s.fds[fd]
      got == ReadCount(s.ind[f.node.inode], f.offset, n)
  IN  [s EXCEPT !.fds[fd].offset = (@ + got) % Word, !.r = got]

\* Mutant: the append flag is ignored once the file is open.
WritePosNoAppend(f) == f.offset

\* Where a write goes: in append mode to the end of the file that the node knows.
WritePos(f) == IF f.append THEN f.node.size ELSE f.offset

\* Mutant: the size is not updated.
GrownNot(size, end) == size

Grown(size, end) == IF end > size THEN end ELSE size

\* vfs_write and dorifs_vfs_write: v goes to the next n units, of which a full
\* disk lets only the first k be written.  Units past MaxFile get no pointer
\* and are lost.
WrittenBy(s, fd, v, k) ==
  LET f == s.fds[fd]
      i == f.node.inode
      pos == WritePos(f)
      end == (pos + k) % Word
      hit == {(pos + j) % Word : j \in 0 .. k - 1}
      size == Grown(s.ind[i].size, end)
      offset == IF k > 0 THEN end ELSE pos
  IN  [s EXCEPT
         !.ind[i].data = [u \in Units |-> IF u \in hit THEN v ELSE @[u]],
         !.ind[i].size = size,
         !.fds[fd].node.size = IF k > 0 /\ offset > size THEN offset ELSE size,
         !.fds[fd].offset = offset,
         !.r = k]

-----------------------------------------------------------------------------
(* Actions *)

\* Bound: kmalloc refuses at most one node in a call.
Ooms == {{}, {1}, {2}, {3}}

\* The state s becomes the next one; own is the descriptor that was written
\* through, whose node knows the new size.
Commit(s, own) ==
  LET On(is) == {fd \in InUse(fd_table) : fd_table[fd].node.inode \in is}
      freed == {i \in Inodes : inodes[i].type # "FREE" /\ s.ind[i].type = "FREE"}
      changed == {i \in Inodes : s.ind[i].size # inodes[i].size
                                  \/ s.ind[i].data # inodes[i].data}
  IN
  /\ inodes' = s.ind
  /\ fd_table' = s.fds
  /\ halted' = s.halt
  /\ calls' = IF <<s.ind, s.fds, s.halt>> = <<inodes, fd_table, halted>>
              THEN calls ELSE calls + 1
  /\ stale' = (stale \cup On(freed)) \cap InUse(s.fds)
  /\ touched' = ((touched \cup On(changed)) \ own) \cap InUse(s.fds)

RoomFor(s) == \A i \in Inodes : Len(s.ind[i].entries) <= MaxEntries

Ready == halted = "no" /\ calls < MaxCalls

Perform(s) == Ready /\ RoomFor(s) /\ Commit(s, {})

Open(path, flags) == \E oom \in Ooms : Perform(Opened(S, path, flags, oom))

Close(fd) == fd_table[fd].in_use /\ Perform(ClosedOne(S, fd))

\* Nobody reads a directory through a descriptor.
Read(fd, n) ==
  /\ fd_table[fd].in_use
  /\ inodes[fd_table[fd].node.inode].type # "DIR"
  /\ Perform(ReadBy(S, fd, n))

\* A write that hits a directory, open itself or in a reused inode, leaves
\* entries nobody wrote: the model ends there.
Write(fd, v, k) ==
  /\ Ready
  /\ fd_table[fd].in_use
  /\ IF inodes[fd_table[fd].node.inode].type = "DIR"
       THEN Commit([S EXCEPT !.halt = "wrecked"], {})
       ELSE Commit(WrittenBy(S, fd, v, k), {fd})

Console == {1, 2}

\* sys_write: what is for descriptors 1 and 2 goes to the screen, whether or
\* not vfs_open has handed them out.
SysWrite(fd, v, k) ==
  IF fd \in Console THEN UNCHANGED vars ELSE Write(fd, v, k)

\* vfs_seek, with the three origins and the distances forth and back.
Seek(fd, n) ==
  /\ fd_table[fd].in_use
  /\ \E from \in {0, fd_table[fd].offset, fd_table[fd].node.size} :
       Perform([S EXCEPT !.fds[fd].offset = (from + n) % Word])

Mkdir(path) ==
  \E oom \in BOOLEAN : Perform(Created(S, path, NewInode("DIR", <<>>), oom))

Symlink(target, path) ==
  \E oom \in BOOLEAN :
    Perform(Created(S, path, [NewInode("SYMLINK", target) EXCEPT !.size = 1], oom))

Unlink(path) == \E oom \in BOOLEAN : Perform(Unlinked(S, path, oom))

\* vfs_stat, vfs_readdir, vfs_readlink and the shell's ls: they only resolve.
Look(path) == Perform(IF Resolve(inodes, path, FALSE) = Loop THEN Hung(S) ELSE S)

\* Mutant: the descriptor stays open when nothing could be written.
CommandLeaving(s, v, k) ==
  IF s.r = Fail \/ s.halt # "no" THEN s
  ELSE IF k = 0 THEN s
  ELSE ClosedOne(WrittenBy(s, s.r, v, k), s.r)

\* What a shell command does with the descriptor it has opened: k units
\* written, none by cat, which reads, and touch.
Command(s, v, k) ==
  IF s.r = Fail \/ s.halt # "no" THEN s
  ELSE ClosedOne(IF k = 0 THEN s ELSE WrittenBy(s, s.r, v, k), s.r)

Cat(path) ==
  \E oom \in Ooms, v \in Vals : Perform(Command(Opened(S, path, {}, oom), v, 0))

Touch(path) ==
  \E oom \in Ooms, v \in Vals :
    Perform(Command(Opened(S, path, {"CREAT"}, oom), v, 0))

\* "write <file> <data>", of a file: a directory would be wrecked.
WriteFile(path, v, k) ==
  \E oom \in Ooms :
    LET opened == Opened(S, path, {"CREAT", "TRUNC"}, oom)
    IN  /\ Ready
        /\ opened.r # Fail /\ opened.halt = "no"
             => opened.fds[opened.r].node.type # "DIR"
        /\ Perform(Command(opened, v, k))

Named == Paths \ {<<>>}
Counts == 0 .. MaxWrite

Next ==
  \/ \E path \in Paths, flags \in Flags : Open(path, flags)
  \/ \E fd \in Fds : Close(fd)
  \/ \E fd \in Fds, n \in Counts : Read(fd, n)
  \/ \E fd \in Fds, v \in Vals, k \in Counts : Write(fd, v, k)
  \/ \E fd \in Fds, v \in Vals, k \in Counts : SysWrite(fd, v, k)
  \/ \E fd \in Fds, n \in {0, 1, Word - 1} : Seek(fd, n)
  \/ \E path \in Named : Mkdir(path)
  \/ \E path \in Named, target \in Targets : Symlink(target, path)
  \/ \E path \in Named : Unlink(path)
  \/ \E path \in Paths : Look(path)
  \/ \E path \in Named : Cat(path)
  \/ \E path \in Named : Touch(path)
  \/ \E path \in Named, v \in Vals, k \in Counts : WriteFile(path, v, k)

Spec == Init /\ [][Next]_vars

-----------------------------------------------------------------------------
(* Properties *)

\* Whatever is done through old descriptors and with doubled names, an entry
\* names an inode that is allocated, and no inode has two entries.
EntriesSound ==
  LET places == {p \in Inodes \X (1 .. MaxEntries) :
                   p[2] \in DOMAIN inodes[p[1]].entries}
      At(p) == inodes[p[1]].entries[p[2]].inode
  IN  /\ \A p \in places : inodes[At(p)].type # "FREE"
      /\ \A p, q \in places : At(p) = At(q) => p = q

\* No data lies behind the recorded end of a file, where reads could not reach
\* it and truncate would not free it: also after seeks that wrap around.
SizeCoversData ==
  \A i \in Inodes, u \in Units : inodes[i].data[u] # Hole => u < inodes[i].size

\* An append through a descriptor whose inode nobody else has changed since
\* lengthens the file by what was written and overwrites nothing, as long as the
\* 32-bit position does not wrap.
AppendAtEnd ==
  [][\A fd \in InUse(fd_table) \ touched :
       fd_table[fd].append /\ fd_table'[fd] # fd_table[fd] =>
         LET i == fd_table[fd].node.inode IN
         \A v \in Vals, k \in 1 .. MaxWrite :
           inodes[i].size + k < Word /\ Write(fd, v, k)
           => \/ halted' = "wrecked"
              \/ /\ inodes'[i].size = inodes[i].size + k
                 /\ \A u \in Units :
                      inodes[i].data[u] # Hole => inodes'[i].data[u] = inodes[i].data[u]]_vars

\* With no descriptor left, no open damages the file it was meant for: it must
\* find out before it truncates.
FullTableHarmless ==
  [][InUse(fd_table) = Fds
     => \A i \in Inodes :
          inodes[i].type = "FILE" /\ inodes'[i].type = "FILE"
          => inodes'[i].size >= inodes[i].size]_vars

\* Until its file is unlinked, a descriptor stands for the kind of inode it was
\* opened on, and never for a link.
DescriptorsKeepTheirFile ==
  \A fd \in InUse(fd_table) :
    LET node == fd_table[fd].node IN
    /\ node.type \in {"FILE", "DIR"}
    /\ fd \notin stale => inodes[node.inode].type = node.type

\* Links of which each one's target mentions the name of another one, or its own.
LinksInCircle(links) ==
  \A l \in links : \E m \in links, d \in Inodes :
    \E k \in DOMAIN inodes[d].entries :
      LET e == inodes[d].entries[k]
      IN  e.inode = m /\ \E j \in DOMAIN inodes[l].target : inodes[l].target[j] = e.name

\* The recursion of path resolution runs away only where links lead in a circle.
HangsOnlyOnCircle ==
  halted = "recursion" =>
    \E links \in SUBSET {i \in Inodes : inodes[i].type = "SYMLINK"} :
      links # {} /\ LinksInCircle(links)

\* A shell command closes what it opens, on every path through it.
CommandsCloseTheirs ==
  [][InUse(fd_table') # InUse(fd_table)
     => ~ \E path \in Named :
            \/ Cat(path) \/ Touch(path)
            \/ \E v \in Vals, k \in Counts : WriteFile(path, v, k)]_vars

\* What holders of descriptors rely on (module OpenFiles).
Promise ==
  INSTANCE OpenFiles WITH
    Closed <- None,
    file <- [fd \in Fds |-> IF fd_table[fd].in_use THEN fd_table[fd].node.inode
                            ELSE None]

\* A descriptor stands for the inode it was opened on until its close, and a close
\* frees it for whoever opens next (vfs_open, vfs_close).
KeepsPromise == Promise!Spec

=============================================================================
