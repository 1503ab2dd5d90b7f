------------------------------ MODULE VFSProofs ------------------------------
(***************************************************************************)
(* The virtual file system for every number of inodes, descriptors, names, *)
(* paths and units of a file: what path resolution finds, the entries and  *)
(* sizes of inodes, what a descriptor stands for, and that descriptors     *)
(* implement OpenFiles.                                                    *)
(***************************************************************************)
EXTENDS VFS, NatLemmas, FiniteSetTheorems

InodeRecord ==
  [type : Types, entries : Seq(Entry), size : 0 .. Word - 1,
   target : Targets \cup {<<>>}, data : [Units -> Vals \cup {Hole}]]

FdRecord ==
  [in_use : BOOLEAN, node : Node \cup {NoNode}, offset : 0 .. Word - 1, append : BOOLEAN]

\* The inode that the k-th entry of dir names.
At(ind, dir, k) == ind[dir].entries[k].inode

Listed(ind) ==
  \A d \in Inodes : \A k \in DOMAIN ind[d].entries :
    At(ind, d, k) # Root /\ ind[At(ind, d, k)].type # "FREE"

ListedOnce(ind) ==
  \A d, e \in Inodes : \A k \in DOMAIN ind[d].entries, l \in DOMAIN ind[e].entries :
    At(ind, d, k) = At(ind, e, l) => d = e /\ k = l

Covered(ind) == \A i \in Inodes, u \in Units : ind[i].data[u] # Hole => u < ind[i].size

\* What holds of the inode table at every moment, inside a call as well.
Sound(ind) ==
  /\ ind \in [Inodes -> InodeRecord]
  /\ ind[Root].type = "DIR"
  /\ Listed(ind) /\ ListedOnce(ind)
  /\ Covered(ind)

FdsOK(fds) ==
  /\ fds \in [Fds -> FdRecord]
  /\ \A fd \in Fds : ~fds[fd].in_use => fds[fd] = ClosedFd
  /\ \A fd \in InUse(fds) : fds[fd].node \in Node /\ fds[fd].node.type \in {"FILE", "DIR"}

StateRecord == [ind : [Inodes -> InodeRecord], fds : [Fds -> FdRecord],
                r : {Fail} \cup Nat, halt : {"no", "recursion", "wrecked"}]

StateOK(s) == s \in StateRecord /\ Sound(s.ind) /\ FdsOK(s.fds)

\* What an open descriptor knows of its inode, unless somebody else has been at it.
Current ==
  \A fd \in InUse(fd_table) :
    LET node == fd_table[fd].node IN
    /\ fd \notin stale => inodes[node.inode].type = node.type
    /\ fd \notin touched => inodes[node.inode].size = node.size

\* The kernel hangs only in front of a circle of links.
CircleIn(ind) ==
  \E links \in SUBSET {i \in Inodes : ind[i].type = "SYMLINK"} :
    /\ links # {}
    /\ \A l \in links : \E m \in links, d \in Inodes :
         \E k \in DOMAIN ind[d].entries :
           LET e == ind[d].entries[k]
           IN  e.inode = m /\ \E j \in DOMAIN ind[l].target : ind[l].target[j] = e.name

Inv ==
  /\ Sound(inodes)
  /\ \A i \in Inodes : Len(inodes[i].entries) <= MaxEntries
  /\ FdsOK(fd_table)
  /\ halted \in {"no", "recursion", "wrecked"}
  /\ stale \cup touched \subseteq InUse(fd_table)
  /\ calls \in 0 .. MaxCalls
  /\ Current
  /\ halted = "recursion" => CircleIn(inodes)

-----------------------------------------------------------------------------
(* Constants *)

\* What the assumptions say of the constants, in one place.
LEMMA Constants ==
  /\ NInodes \in Nat /\ NInodes >= 2 /\ Root \in Inodes /\ Loop \notin Inodes /\ None \notin Inodes
  /\ None # Loop /\ Loop \in Nat
  /\ NFds \in Nat /\ NFds >= 1 /\ MaxFile \in Nat /\ MaxFile >= 1 /\ Word \in Nat /\ MaxFile < Word
  /\ MaxWrite \in Nat /\ MaxEntries \in Nat /\ MaxEntries >= 1 /\ MaxCalls \in Nat
  /\ Counts \subseteq Nat
  /\ \A k \in Counts : MaxFile + k <= Word
<1>1. NInodes \in Nat /\ NInodes >= 2 /\ Root \in Inodes /\ Loop \notin Inodes /\ None \notin Inodes
      /\ None # Loop /\ Loop \in Nat
  BY InodesAssumption DEF Inodes, Root, Loop, None
<1>2. /\ NFds \in Nat \ {0} /\ MaxFile \in Nat \ {0} /\ Word \in Nat \ {0} /\ MaxFile < Word
      /\ MaxWrite \in Nat \ {0} /\ MaxEntries \in Nat \ {0} /\ MaxCalls \in Nat \ {0}
  BY SizesAssumption
<1>3. QED
  BY <1>1, <1>2, ReachAssumption DEF Counts

\* Paths and link targets are sequences of names, and a path that creates something
\* has a last name.
LEMMA PathTypes ==
  /\ Paths \subseteq Seq(Names) /\ Targets \subseteq Seq(Names)
  /\ \A path \in Named : path \in Seq(Names) /\ Front(path) \in Seq(Names) /\ Last(path) \in Names
<1>1. Paths \subseteq Seq(Names) /\ Targets \subseteq Seq(Names)
  BY PathsAssumption
<1>2. ASSUME NEW path \in Seq(Names), path # <<>>
      PROVE  Front(path) \in Seq(Names) /\ Last(path) \in Names
  BY <1>2 DEF Front, Last
<1>3. QED
  BY <1>1, <1>2 DEF Named

\* A zeroed inode, and a new one.
LEMMA FreshInodes ==
  /\ FreeInode \in InodeRecord
  /\ FreeInode.type = "FREE" /\ FreeInode.entries = <<>>
  /\ FreeInode.data = [u \in Units |-> Hole]
  /\ \A type \in Types, target \in Targets \cup {<<>>} :
       /\ NewInode(type, target) \in InodeRecord
       /\ NewInode(type, target).type = type
       /\ NewInode(type, target).entries = <<>>
       /\ NewInode(type, target).data = [u \in Units |-> Hole]
<1>1. 0 \in 0 .. Word - 1
  BY Constants
<1>2. FreeInode \in InodeRecord
  BY <1>1 DEF FreeInode, InodeRecord, Types
<1>3. QED
  BY <1>2 DEF FreeInode, InodeRecord, NewInode

-----------------------------------------------------------------------------
(* Directories *)

\* An entry of a directory names an inode.
LEMMA EntryTypes ==
  ASSUME NEW ind \in [Inodes -> InodeRecord], NEW d \in Inodes,
         NEW k \in DOMAIN ind[d].entries
  PROVE  At(ind, d, k) \in Inodes
<1>1. ind[d].entries \in Seq(Entry)
  BY DEF InodeRecord
<1>2. ind[d].entries[k] \in Entry
  BY <1>1
<1>3. QED
  BY <1>2 DEF Entry, At

\* The first hit of a scan is one of the entries of that name.
LEMMA HitFound ==
  ASSUME NEW ind \in [Inodes -> InodeRecord], NEW d \in Inodes, NEW name,
         Hits(ind, d, name) # {}
  PROVE  /\ Hit(ind, d, name) \in DOMAIN ind[d].entries
         /\ ind[d].entries[Hit(ind, d, name)].name = name
<1>1. ind[d].entries \in Seq(Entry)
  BY DEF InodeRecord
<1>2. Hits(ind, d, name) \subseteq Nat
  BY <1>1 DEF Hits
<1>3. Hit(ind, d, name) \in Hits(ind, d, name)
  BY <1>2, MinLeast DEF Hit
<1>4. QED
  BY <1>3 DEF Hits

\* finddir finds nothing, or something allocated that is not the root and that
\* an entry of that name leads to.
LEMMA FindSound ==
  ASSUME NEW ind, Sound(ind), NEW d \in Inodes, NEW name
  PROVE  \/ Find(ind, d, name) = None
         \/ /\ Hits(ind, d, name) # {}
            /\ Find(ind, d, name) = At(ind, d, Hit(ind, d, name))
            /\ Find(ind, d, name) \in Inodes \ {Root}
            /\ ind[Find(ind, d, name)].type # "FREE"
<1>1. CASE Hits(ind, d, name) = {}
  BY <1>1 DEF Find
<1>2. CASE Hits(ind, d, name) # {}
  <2>1. ind \in [Inodes -> InodeRecord]
    BY DEF Sound
  <2>2. Hit(ind, d, name) \in DOMAIN ind[d].entries
    BY <1>2, <2>1, HitFound
  <2>3. Find(ind, d, name) = At(ind, d, Hit(ind, d, name))
    BY <1>2 DEF Find, At
  <2>4. QED
    BY <1>2, <2>1, <2>2, <2>3, EntryTypes DEF Sound, Listed
<1>3. QED
  BY <1>1, <1>2

-----------------------------------------------------------------------------
(* Path resolution *)

\* What a resolution may come to: nothing, no end, or a file or directory.
Results(ind) == Stops \cup {i \in Inodes : ind[i].type \in {"FILE", "DIR"}}

\* One round of vfs_resolve_path's loop ends at a file, a directory or not at all:
\* a link was followed, a free inode is never listed.
LEMMA StepSound ==
  ASSUME NEW ind, Sound(ind), NEW leads \in [Inodes -> Results(ind)],
         NEW dir \in Results(ind), NEW name
  PROVE  Step(ind, leads, dir, name) \in Results(ind)
<1> DEFINE child == Find(ind, dir, name)
<1>1. CASE dir \in Stops
  BY <1>1 DEF Step
<1>2. CASE dir \notin Stops
  <2>1. dir \in Inodes /\ None \in Results(ind)
    BY <1>2 DEF Results, Stops
  <2>2. child = None \/ (child \in Inodes /\ ind[child].type # "FREE")
    BY <2>1, FindSound
  <2>3. \A i \in Inodes : ind[i].type \in Types
    BY DEF Sound, InodeRecord
  <2>4. CASE child = None \/ ind[dir].type # "DIR"
    BY <1>2, <2>1, <2>4 DEF Step
  <2>5. CASE child # None /\ ind[dir].type = "DIR" /\ ind[child].type = "SYMLINK"
    BY <1>2, <2>2, <2>5 DEF Step
  <2>6. CASE child # None /\ ind[dir].type = "DIR" /\ ind[child].type # "SYMLINK"
    <3>1. child \in Inodes /\ ind[child].type \in {"FILE", "DIR"}
      BY <2>2, <2>3, <2>6 DEF Types
    <3>2. Step(ind, leads, dir, name) = child
      BY <1>2, <2>6 DEF Step
    <3>3. QED
      BY <3>1, <3>2 DEF Results
  <2>7. QED
    BY <2>4, <2>5, <2>6
<1>3. QED
  BY <1>1, <1>2

\* The loop over the names of a path, as a function of the names it has passed.
LEMMA AlongRounds ==
  ASSUME NEW ind, Sound(ind), NEW leads \in [Inodes -> Results(ind)],
         NEW path \in Seq(Names)
  PROVE  \E at \in [0 .. Len(path) -> Results(ind)] :
           /\ at[0] = Root
           /\ \A k \in 1 .. Len(path) : at[k] = Step(ind, leads, at[k - 1], path[k])
           /\ Along(ind, leads, path) = at[Len(path)]
<1> DEFINE len == Len(path)
           X == Results(ind)
           Good(f) == f = [k \in 0 .. len |->
                             IF k = 0 THEN Root ELSE Step(ind, leads, f[k - 1], path[k])]
           at == CHOOSE f : Good(f)
           next == [k \in 1 .. len |-> [dir \in X |-> Step(ind, leads, dir, path[k])]]
<1>1. len \in Nat
  OBVIOUS
<1>2. Root \in X
  BY Constants DEF Results, Sound
<1>3. next \in [1 .. len -> [X -> X]]
  BY StepSound
<1>4. PICK f \in [0 .. len -> X] : f[0] = Root /\ \A k \in 1 .. len : f[k] = next[k][f[k - 1]]
  <2>1. \E f : IsRounds(f, X, Root, len, next)
    <3> HIDE DEF next, X, len
    <3>1. QED
      BY <1>1, <1>2, <1>3, Rounds
  <2>2. QED
    BY <2>1 DEF IsRounds
<1>5. \A k \in 1 .. len : f[k] = Step(ind, leads, f[k - 1], path[k])
  <2>1. SUFFICES ASSUME NEW k \in 1 .. len
                 PROVE  f[k] = Step(ind, leads, f[k - 1], path[k])
    OBVIOUS
  <2>2. f[k - 1] \in X
    OBVIOUS
  <2>3. f[k] = next[k][f[k - 1]]
    BY <1>4
  <2>4. QED
    BY <2>2, <2>3
<1>6. Good(f)
  BY <1>4, <1>5
<1>7. Good(at)
  <2> HIDE DEF Good
  <2>1. QED
    BY <1>6, Zenon
<1>8. Along(ind, leads, path) = at[len]
  BY DEF Along
<1> HIDE DEF at
<1>9. at[0] = Root /\ \A k \in 1 .. len : at[k] = Step(ind, leads, at[k - 1], path[k])
  BY <1>7, <1>1
<1>10. \A k \in 0 .. len : at[k] \in X
  <2> DEFINE T == {k \in 0 .. len : at[k] \in X}
  <2>1. 0 \in T
    BY <1>1, <1>2, <1>9
  <2>2. ASSUME NEW m \in 0 .. len - 1, m \in T
        PROVE  m + 1 \in T
    <3>1. at[m + 1] = Step(ind, leads, at[(m + 1) - 1], path[m + 1]) /\ (m + 1) - 1 = m
      BY <1>1, <1>9
    <3>2. QED
      BY <2>2, <3>1, <1>1, StepSound
  <2> HIDE DEF T
  <2>3. 0 .. len \subseteq T
    BY <1>1, <2>1, <2>2, UpTo
  <2>4. QED
    BY <2>3 DEF T
<1>11. at \in [0 .. len -> X]
  BY <1>7, <1>10
<1>12. QED
  BY <1>8, <1>9, <1>11

\* So does the whole loop.
LEMMA AlongSound ==
  ASSUME NEW ind, Sound(ind), NEW leads \in [Inodes -> Results(ind)],
         NEW path \in Seq(Names)
  PROVE  Along(ind, leads, path) \in Results(ind)
<1>1. Len(path) \in 0 .. Len(path)
  OBVIOUS
<1>2. QED
  BY <1>1, AlongRounds

\* The target of a link is a sequence of names.
LEMMA TargetTypes ==
  ASSUME NEW ind \in [Inodes -> InodeRecord], NEW l \in Inodes
  PROVE  ind[l].target \in Seq(Names)
<1>1. ind[l].target \in Targets \cup {<<>>}
  BY DEF InodeRecord
<1>2. <<>> \in Seq(Names)
  OBVIOUS
<1>3. QED
  BY <1>1, <1>2, PathTypes

\* The recursion on link targets, as a function of the levels left.
LEMMA LeadsRounds ==
  ASSUME NEW ind, Sound(ind)
  PROVE  \E leads \in [0 .. Loop -> [Inodes -> Results(ind)]] :
           /\ leads[0] = [l \in Inodes |-> Loop]
           /\ \A n \in 1 .. Loop :
                leads[n] = [l \in Inodes |-> Along(ind, leads[n - 1], ind[l].target)]
           /\ Leads(ind) = leads[Loop]
<1> DEFINE X == [Inodes -> Results(ind)]
           Deeper(ls) == [l \in Inodes |-> Along(ind, ls, ind[l].target)]
           Good(f) == f = [n \in 0 .. Loop |->
                             [l \in Inodes |->
                                IF n = 0 THEN Loop ELSE Along(ind, f[n - 1], ind[l].target)]]
           leads == CHOOSE f : Good(f)
           none == [l \in Inodes |-> Loop]
           next == [n \in 1 .. Loop |-> [ls \in X |-> Deeper(ls)]]
<1>1. none \in X
  BY DEF Results, Stops
<1>2. ASSUME NEW ls \in X
      PROVE  Deeper(ls) \in X
  <2>1. \A l \in Inodes : ind[l].target \in Seq(Names)
    BY TargetTypes DEF Sound
  <2>2. QED
    BY <2>1, AlongSound
<1>3. next \in [1 .. Loop -> [X -> X]]
  <2> HIDE DEF Deeper, X
  <2>1. QED
    BY <1>2
<1>4. PICK f \in [0 .. Loop -> X] : f[0] = none /\ \A n \in 1 .. Loop : f[n] = next[n][f[n - 1]]
  <2>1. \E f : IsRounds(f, X, none, Loop, next)
    <3> HIDE DEF next, X, none
    <3>1. QED
      BY <1>1, <1>3, Constants, Rounds
  <2> HIDE DEF next, X, none
  <2>2. QED
    BY <2>1 DEF IsRounds
<1>5. ASSUME NEW n \in 1 .. Loop
      PROVE  f[n] = Deeper(f[n - 1])
  <2>1. n - 1 \in 0 .. Loop
    BY Constants
  <2> HIDE DEF Deeper, X
  <2>2. f[n - 1] \in X
    BY <2>1
  <2>3. QED
    BY <1>4, <2>2
<1>6. Good(f)
  <2>1. ASSUME NEW n \in 0 .. Loop
        PROVE  f[n] = [l \in Inodes |->
                         IF n = 0 THEN Loop ELSE Along(ind, f[n - 1], ind[l].target)]
    <3>1. CASE n = 0
      BY <1>4, <3>1
    <3>2. CASE n # 0
      <4>1. n \in 1 .. Loop
        BY <3>2, Constants
      <4>2. QED
        BY <1>5, <3>2, <4>1
    <3>3. QED
      BY <3>1, <3>2
  <2>2. QED
    BY <2>1
<1>7. Good(leads)
  <2> HIDE DEF Good
  <2>1. QED
    BY <1>6, Zenon
<1>8. Leads(ind) = leads[Loop]
  BY DEF Leads
<1> HIDE DEF leads
<1>9. leads[0] = none
  BY <1>7, Constants
<1>10. ASSUME NEW n \in 1 .. Loop
       PROVE  leads[n] = Deeper(leads[n - 1])
  <2>1. n \in 0 .. Loop /\ n # 0
    BY Constants
  <2>2. QED
    BY <1>7, <2>1
<1>11. \A n \in 0 .. Loop : leads[n] \in X
  <2> DEFINE T == {n \in 0 .. Loop : leads[n] \in X}
  <2> HIDE DEF X, none, Deeper
  <2>1. 0 \in T
    BY <1>1, <1>9, Constants
  <2>2. ASSUME NEW m \in 0 .. Loop - 1, m \in T
        PROVE  m + 1 \in T
    <3>1. leads[m + 1] = Deeper(leads[(m + 1) - 1]) /\ (m + 1) - 1 = m /\ m + 1 \in 0 .. Loop
      BY <1>10, Constants
    <3>2. QED
      BY <1>2, <2>2, <3>1
  <2> HIDE DEF T
  <2>3. 0 .. Loop \subseteq T
    BY <2>1, <2>2, Constants, UpTo
  <2>4. QED
    BY <2>3 DEF T
<1>12. leads \in [0 .. Loop -> X]
  <2> HIDE DEF X
  <2>1. DOMAIN leads = 0 .. Loop /\ leads = [n \in 0 .. Loop |-> leads[n]]
    BY <1>7
  <2>2. QED
    BY <1>11, <2>1
<1>13. QED
  BY <1>8, <1>9, <1>10, <1>12

\* vfs_resolve_path finds nothing, or a file or directory, or does not end.
LEMMA ResolveSound ==
  ASSUME NEW ind, Sound(ind), NEW path \in Seq(Names), NEW oom
  PROVE  Resolve(ind, path, oom) \in Results(ind)
<1>1. Leads(ind) \in [Inodes -> Results(ind)]
  BY LeadsRounds, Constants
<1>2. Walk(ind, path) \in Results(ind)
  BY <1>1, AlongSound DEF Walk
<1>3. None \in Results(ind)
  BY DEF Results, Stops
<1>4. QED
  BY <1>2, <1>3 DEF Resolve

-----------------------------------------------------------------------------
(* What the operations do to the inode table *)

\* A new inode gets an entry at the end of a directory.
LEMMA EntryAdded ==
  ASSUME NEW ind, Sound(ind), NEW dir \in Inodes, ind[dir].type = "DIR",
         NEW new \in FreeInodes(ind), NEW name \in Names,
         NEW inode \in InodeRecord, inode.type # "FREE", inode.entries = <<>>,
         inode.data = [u \in Units |-> Hole],
         NEW after,
         after = [ind EXCEPT ![new] = inode,
                             ![dir].entries = Append(@, [name |-> name, inode |-> new])]
  PROVE  Sound(after)
<1> DEFINE e == [name |-> name, inode |-> new]
           n == Len(ind[dir].entries)
<1>1. new \in Inodes \ {Root} /\ ind[new].type = "FREE" /\ new # dir
  BY DEF FreeInodes
<1>2. ind \in [Inodes -> InodeRecord] /\ ind[dir].entries \in Seq(Entry) /\ n \in Nat
  BY DEF Sound, InodeRecord
<1>3. e \in Entry
  BY <1>1 DEF Entry
<1>4. Append(ind[dir].entries, e) \in Seq(Entry)
  BY <1>2, <1>3
<1>5. /\ DOMAIN after = Inodes
      /\ after[new] = inode
      /\ after[dir] = [ind[dir] EXCEPT !.entries = Append(@, e)]
      /\ \A i \in Inodes \ {new, dir} : after[i] = ind[i]
  BY <1>1, <1>2
<1>6. after[dir] \in InodeRecord /\ after[dir].type = ind[dir].type
      /\ after[dir].data = ind[dir].data /\ after[dir].size = ind[dir].size
      /\ after[dir].entries = Append(ind[dir].entries, e)
  BY <1>2, <1>4, <1>5 DEF InodeRecord
<1>7. after \in [Inodes -> InodeRecord]
  <2>1. \A i \in Inodes : after[i] \in InodeRecord
    BY <1>2, <1>5, <1>6
  <2>2. after = [i \in Inodes |-> after[i]]
    BY <1>1, <1>2
  <2>3. QED
    BY <2>1, <2>2
<1>8. after[Root].type = "DIR"
  BY <1>1, <1>5, <1>6, Constants DEF Sound
\* An entry is an old one, or the new one.
<1>9. ASSUME NEW d \in Inodes, NEW k \in DOMAIN after[d].entries
      PROVE  \/ k \in DOMAIN ind[d].entries /\ At(after, d, k) = At(ind, d, k)
                /\ At(ind, d, k) # new
             \/ d = dir /\ k = n + 1 /\ At(after, d, k) = new
  <2>1. \A m \in DOMAIN ind[d].entries : At(ind, d, m) # new
    BY <1>1 DEF Sound, Listed
  <2>2. CASE d = new
    <3>1. after[d].entries = inode.entries
      BY <1>5, <2>2
    <3>2. DOMAIN after[d].entries = {}
      BY <3>1
    <3>3. QED
      BY <3>2
  <2>3. CASE d = dir
    <3>1. k \in 1 .. n + 1
      BY <1>2, <1>4, <1>6, <2>3
    <3>2. CASE k = n + 1
      BY <1>2, <1>6, <2>3, <3>2 DEF At
    <3>3. CASE k # n + 1
      <4>1. k \in DOMAIN ind[d].entries /\ after[d].entries[k] = ind[d].entries[k]
        BY <1>2, <1>6, <2>3, <3>1, <3>3
      <4>2. QED
        BY <2>1, <4>1 DEF At
    <3>4. QED
      BY <3>2, <3>3
  <2>4. CASE d \notin {new, dir}
    BY <1>5, <2>1, <2>4 DEF At
  <2>5. QED
    BY <2>2, <2>3, <2>4
<1>10. Listed(after)
  <2>1. SUFFICES ASSUME NEW d \in Inodes, NEW k \in DOMAIN after[d].entries
                 PROVE  At(after, d, k) # Root /\ after[At(after, d, k)].type # "FREE"
    BY DEF Listed
  <2>2. CASE At(after, d, k) = new
    BY <1>1, <1>5, <2>2
  <2>3. CASE At(after, d, k) # new
    <3>1. k \in DOMAIN ind[d].entries /\ At(after, d, k) = At(ind, d, k)
      BY <1>9, <2>3
    <3>2. At(ind, d, k) \in Inodes
      BY <1>2, <3>1, EntryTypes
    <3>3. At(ind, d, k) # Root /\ ind[At(ind, d, k)].type # "FREE"
      BY <3>1 DEF Sound, Listed
    <3>4. QED
      BY <1>5, <1>6, <2>3, <3>1, <3>2, <3>3
  <2>4. QED
    BY <2>2, <2>3
<1>11. ListedOnce(after)
  <2>1. SUFFICES ASSUME NEW d \in Inodes, NEW f \in Inodes,
                        NEW k \in DOMAIN after[d].entries, NEW l \in DOMAIN after[f].entries,
                        At(after, d, k) = At(after, f, l)
                 PROVE  d = f /\ k = l
    BY DEF ListedOnce
  <2>2. QED
    BY <1>9, <2>1 DEF Sound, ListedOnce
<1>12. Covered(after)
  <2>1. SUFFICES ASSUME NEW i \in Inodes, NEW u \in Units, after[i].data[u] # Hole
                 PROVE  u < after[i].size
    BY DEF Covered
  <2>2. i # new
    BY <1>5, <2>1
  <2>3. QED
    BY <1>5, <1>6, <2>1, <2>2 DEF Sound, Covered
<1>13. QED
  BY <1>7, <1>8, <1>10, <1>11, <1>12 DEF Sound

\* t is s without its k-th element.
IsWithout(t, s, k) ==
  /\ Len(t) = Len(s) - 1
  /\ \A j \in DOMAIN t :
       LET o == IF j < k THEN j ELSE j + 1 IN
       o \in DOMAIN s /\ o # k /\ t[j] = s[o]

\* RemoveAt takes one element out of a sequence and keeps the others in order.
LEMMA Without ==
  ASSUME NEW X, NEW s \in Seq(X), NEW k \in DOMAIN s
  PROVE  RemoveAt(s, k) \in Seq(X) /\ IsWithout(RemoveAt(s, k), s, k)
<1> DEFINE a == SubSeq(s, 1, k - 1)
           b == SubSeq(s, k + 1, Len(s))
<1>1. k \in 1 .. Len(s) /\ Len(s) \in Nat
  OBVIOUS
<1>2. a \in Seq(X) /\ Len(a) = k - 1 /\ \A j \in 1 .. k - 1 : a[j] = s[j]
  BY <1>1
<1>3. b \in Seq(X) /\ Len(b) = Len(s) - k /\ \A j \in 1 .. Len(s) - k : b[j] = s[k + j]
  BY <1>1
<1>4. RemoveAt(s, k) = a \o b
  BY DEF RemoveAt
<1> HIDE DEF a, b
<1>5. /\ a \o b \in Seq(X) /\ Len(a \o b) = Len(s) - 1
      /\ \A j \in 1 .. Len(s) - 1 :
           (a \o b)[j] = IF j <= k - 1 THEN a[j] ELSE b[j - (k - 1)]
  BY <1>1, <1>2, <1>3
<1>6. ASSUME NEW j \in 1 .. Len(s) - 1
      PROVE  LET o == IF j < k THEN j ELSE j + 1 IN
             o \in 1 .. Len(s) /\ o # k /\ (a \o b)[j] = s[o]
  <2>1. CASE j < k
    BY <1>1, <1>2, <1>5, <2>1
  <2>2. CASE ~(j < k)
    <3>1. j - (k - 1) \in 1 .. Len(s) - k
      BY <1>1, <2>2
    <3>2. (a \o b)[j] = s[k + (j - (k - 1))]
      BY <1>1, <1>3, <1>5, <2>2, <3>1
    <3>3. k + (j - (k - 1)) = j + 1
      BY <1>1
    <3>4. QED
      BY <1>1, <2>2, <3>2, <3>3
  <2>3. QED
    BY <2>1, <2>2
<1>7. DOMAIN (a \o b) = 1 .. Len(s) - 1 /\ DOMAIN s = 1 .. Len(s)
  BY <1>1, <1>5
<1>8. QED
  BY <1>4, <1>5, <1>6, <1>7 DEF IsWithout

\* An entry goes, and its inode is zeroed, whatever it was.
LEMMA EntryRemoved ==
  ASSUME NEW ind, Sound(ind), NEW dir \in Inodes, NEW k \in DOMAIN ind[dir].entries,
         NEW after,
         after = [[ind EXCEPT ![dir].entries = RemoveAt(@, k)]
                    EXCEPT ![At(ind, dir, k)] = FreeInode]
  PROVE  Sound(after)
<1> DEFINE i == At(ind, dir, k)
           rest == RemoveAt(ind[dir].entries, k)
<1>1. ind \in [Inodes -> InodeRecord] /\ ind[dir].entries \in Seq(Entry)
  BY DEF Sound, InodeRecord
<1>2. i \in Inodes \ {Root}
  BY <1>1, EntryTypes DEF Sound, Listed
<1>3. rest \in Seq(Entry)
      /\ \A j \in DOMAIN rest :
           LET o == IF j < k THEN j ELSE j + 1 IN
           o \in DOMAIN ind[dir].entries /\ o # k /\ rest[j] = ind[dir].entries[o]
  <2>1. rest \in Seq(Entry) /\ IsWithout(rest, ind[dir].entries, k)
    BY <1>1, Without
  <2> HIDE DEF rest
  <2>2. QED
    BY <2>1 DEF IsWithout
<1> HIDE DEF rest
<1>4. /\ after[i] = FreeInode
      /\ \A d \in Inodes \ {i} : after[d] = IF d = dir THEN [ind[d] EXCEPT !.entries = rest]
                                            ELSE ind[d]
  BY <1>1, <1>2 DEF rest
<1>5. [ind[dir] EXCEPT !.entries = rest] \in InodeRecord
  BY <1>1, <1>3 DEF InodeRecord
<1>6. \A d \in Inodes \ {i} :
        /\ after[d] \in InodeRecord /\ after[d].type = ind[d].type
        /\ after[d].data = ind[d].data /\ after[d].size = ind[d].size
        /\ after[d].entries = IF d = dir THEN rest ELSE ind[d].entries
  BY <1>1, <1>4, <1>5 DEF InodeRecord
<1>7. after \in [Inodes -> InodeRecord]
  <2>1. \A d \in Inodes : after[d] \in InodeRecord
    BY <1>4, <1>6, FreshInodes
  <2>2. after = [d \in Inodes |-> after[d]]
    BY <1>1, <1>2
  <2>3. QED
    BY <2>1, <2>2
\* What is listed now was listed before, a place further on perhaps.
<1> DEFINE Old(d, j) == IF d = dir /\ j >= k THEN j + 1 ELSE j
<1>8. ASSUME NEW d \in Inodes, NEW j \in DOMAIN after[d].entries
      PROVE  /\ d # i
             /\ Old(d, j) \in DOMAIN ind[d].entries
             /\ At(after, d, j) = At(ind, d, Old(d, j))
             /\ At(after, d, j) # i
             /\ j \in Int
  <2>1. d # i
    BY <1>4, FreshInodes
  <2>2. after[d].entries = IF d = dir THEN rest ELSE ind[d].entries
    BY <1>6, <2>1
  <2>3. ind[d].entries \in Seq(Entry)
    BY <1>1 DEF InodeRecord
  <2>4. j \in Int /\ k \in Int
    BY <1>1, <1>3, <2>2, <2>3
  <2>5. Old(d, j) \in DOMAIN ind[d].entries /\ <<d, Old(d, j)>> # <<dir, k>>
        /\ after[d].entries[j] = ind[d].entries[Old(d, j)]
    <3>1. CASE d = dir
      BY <1>3, <2>2, <2>4, <3>1
    <3>2. CASE d # dir
      BY <2>2, <3>2
    <3>3. QED
      BY <3>1, <3>2
  <2> HIDE DEF Old
  <2>6. At(after, d, j) = At(ind, d, Old(d, j))
    BY <2>5 DEF At
  <2>7. At(after, d, j) # i
    BY <2>5, <2>6 DEF Sound, ListedOnce
  <2>8. QED
    BY <2>1, <2>4, <2>5, <2>6, <2>7
<1>9. after[Root].type = "DIR"
  BY <1>2, <1>6, Constants DEF Sound
<1>10. Listed(after)
  <2>1. SUFFICES ASSUME NEW d \in Inodes, NEW j \in DOMAIN after[d].entries
                 PROVE  At(after, d, j) # Root /\ after[At(after, d, j)].type # "FREE"
    BY DEF Listed
  <2> DEFINE m == Old(d, j)
  <2>2. m \in DOMAIN ind[d].entries /\ At(after, d, j) = At(ind, d, m) /\ At(ind, d, m) # i
    BY <1>8
  <2> HIDE DEF m
  <2>3. At(ind, d, m) \in Inodes /\ At(ind, d, m) # Root /\ ind[At(ind, d, m)].type # "FREE"
    BY <1>1, <2>2, EntryTypes DEF Sound, Listed
  <2>4. QED
    BY <1>6, <2>2, <2>3
<1>11. ListedOnce(after)
  <2>1. SUFFICES ASSUME NEW d \in Inodes, NEW f \in Inodes,
                        NEW j \in DOMAIN after[d].entries, NEW l \in DOMAIN after[f].entries,
                        At(after, d, j) = At(after, f, l)
                 PROVE  d = f /\ j = l
    BY DEF ListedOnce
  <2>2. d = f /\ Old(d, j) = Old(f, l)
    <3> HIDE DEF Old, i
    <3>1. QED
      BY <1>8, <2>1 DEF Sound, ListedOnce
  <2>3. j \in Int /\ l \in Int
    <3> HIDE DEF Old, i
    <3>1. QED
      BY <1>8
  <2>4. k \in Int
    BY <1>1
  <2>5. QED
    BY <2>2, <2>3, <2>4
<1>12. Covered(after)
  <2>1. SUFFICES ASSUME NEW d \in Inodes, NEW u \in Units, after[d].data[u] # Hole
                 PROVE  u < after[d].size
    BY DEF Covered
  <2>2. d # i
    BY <1>4, <2>1, FreshInodes
  <2>3. QED
    BY <1>6, <2>1, <2>2 DEF Sound, Covered
<1>13. QED
  BY <1>7, <1>9, <1>10, <1>11, <1>12 DEF Sound

\* Truncation leaves an empty inode of the same type.
LEMMA TruncatedSound ==
  ASSUME NEW ind, Sound(ind), NEW i \in Inodes
  PROVE  /\ Sound(Truncated(ind, i))
         /\ \A d \in Inodes : Truncated(ind, i)[d].type = ind[d].type
<1> DEFINE after == Truncated(ind, i)
<1>1. ind \in [Inodes -> InodeRecord]
  BY DEF Sound
<1>2. /\ after[i] = [ind[i] EXCEPT !.data = FreeInode.data, !.size = 0, !.entries = <<>>]
      /\ \A d \in Inodes \ {i} : after[d] = ind[d]
      /\ after = [d \in Inodes |-> after[d]]
  BY <1>1 DEF Truncated, InodeRecord
<1> HIDE DEF after
<1>3. after[i] \in InodeRecord /\ after[i].type = ind[i].type /\ after[i].entries = <<>>
      /\ after[i].data = [u \in Units |-> Hole]
  <2>1. 0 \in 0 .. Word - 1 /\ <<>> \in Seq(Entry)
    BY Constants
  <2>2. FreeInode.data = [u \in Units |-> Hole] /\ FreeInode.data \in [Units -> Vals \cup {Hole}]
    BY FreshInodes
  <2>3. ind[i] \in InodeRecord
    BY <1>1
  <2>4. after[i] \in InodeRecord
    BY <1>2, <2>1, <2>2, <2>3 DEF InodeRecord
  <2>5. QED
    BY <1>2, <2>2, <2>3, <2>4 DEF InodeRecord
<1>4. after \in [Inodes -> InodeRecord]
  <2>1. \A d \in Inodes : after[d] \in InodeRecord
    BY <1>1, <1>2, <1>3
  <2>2. QED
    BY <1>2, <2>1
<1>5. \A d \in Inodes : after[d].type = ind[d].type
  BY <1>2, <1>3
<1>6. ASSUME NEW d \in Inodes, NEW k \in DOMAIN after[d].entries
      PROVE  k \in DOMAIN ind[d].entries /\ At(after, d, k) = At(ind, d, k)
  <2>1. d # i
    BY <1>3
  <2>2. QED
    BY <1>2, <2>1 DEF At
<1>7. Listed(after)
  <2>1. SUFFICES ASSUME NEW d \in Inodes, NEW k \in DOMAIN after[d].entries
                 PROVE  At(after, d, k) # Root /\ after[At(after, d, k)].type # "FREE"
    BY DEF Listed
  <2>2. k \in DOMAIN ind[d].entries /\ At(after, d, k) = At(ind, d, k)
    BY <1>6
  <2>3. At(ind, d, k) \in Inodes
    BY <1>1, <2>2, EntryTypes
  <2>4. QED
    BY <1>5, <2>2, <2>3 DEF Sound, Listed
<1>8. ListedOnce(after)
  BY <1>6 DEF Sound, ListedOnce
<1>9. Covered(after)
  <2>1. SUFFICES ASSUME NEW d \in Inodes, NEW u \in Units, after[d].data[u] # Hole
                 PROVE  u < after[d].size
    BY DEF Covered
  <2>2. d # i
    BY <1>3, <2>1
  <2>3. QED
    BY <1>2, <2>1, <2>2 DEF Sound, Covered
<1>10. after[Root].type = "DIR"
  BY <1>5, Constants DEF Sound
<1>11. QED
  BY <1>4, <1>5, <1>7, <1>8, <1>9, <1>10 DEF Sound, after

\* Positions are words; nothing that is added to one wraps twice.
LEMMA Wraps ==
  ASSUME NEW n \in Nat, n < 2 * Word
  PROVE  n % Word = IF n < Word THEN n ELSE n - Word
<1>1. Word \in Nat /\ Word > 0
  BY Constants
<1>2. CASE n < Word
  BY <1>1, <1>2
<1>3. CASE n >= Word
  <2>1. n - Word \in 0 .. Word - 1 /\ n = 1 * Word + (n - Word)
    BY <1>1, <1>3
  <2>2. QED
    BY <1>1, <1>3, <2>1
<1>4. QED
  BY <1>1, <1>2, <1>3

\* Whichever way the position wraps, what is written lies before the new end.
LEMMA HitsCovered ==
  ASSUME NEW pos \in 0 .. Word - 1, NEW k \in Counts, NEW j \in 0 .. k - 1,
         (pos + j) % Word \in Units
  PROVE  (pos + j) % Word < (pos + k) % Word
<1>1. /\ Word \in Nat /\ MaxFile \in Nat /\ MaxFile >= 1 /\ k \in Nat
      /\ MaxFile + k <= Word /\ (pos + j) % Word < MaxFile
  BY Constants DEF Units
<1>2. pos + j \in Nat /\ pos + j < 2 * Word /\ pos + k \in Nat /\ pos + k < 2 * Word
  BY <1>1
<1>3. /\ (pos + j) % Word = IF pos + j < Word THEN pos + j ELSE pos + j - Word
      /\ (pos + k) % Word = IF pos + k < Word THEN pos + k ELSE pos + k - Word
  <2>1. \A n \in Nat : n < 2 * Word => n % Word = IF n < Word THEN n ELSE n - Word
    BY Wraps
  <2>2. pos \in Nat /\ j \in Nat
    BY <1>1
  <2>3. (pos + j) % Word = IF pos + j < Word THEN pos + j ELSE pos + j - Word
    BY <1>1, <1>2, <2>1, <2>2
  <2>4. (pos + k) % Word = IF pos + k < Word THEN pos + k ELSE pos + k - Word
    BY <1>1, <1>2, <2>1, <2>2
  <2>5. QED
    BY <2>3, <2>4
<1> DEFINE a == (pos + j) % Word
           b == (pos + k) % Word
<1>4. a = (IF pos + j < Word THEN pos + j ELSE pos + j - Word) /\ a < MaxFile
      /\ b = IF pos + k < Word THEN pos + k ELSE pos + k - Word
  BY <1>1, <1>3
<1> HIDE DEF a, b
<1>5. a < b
  BY <1>1, <1>4
<1>6. QED
  BY <1>5 DEF a, b

\* The inode after a write of v to the k units from pos on.
WrittenInode(inode, v, pos, k) ==
  [inode EXCEPT
     !.data = [u \in Units |-> IF u \in {(pos + j) % Word : j \in 0 .. k - 1} THEN v ELSE @[u]],
     !.size = Grown(@, (pos + k) % Word)]

\* A write changes one inode, keeps every directory, and leaves no data behind the
\* end of the file it makes longer.
LEMMA WriteSound ==
  ASSUME NEW ind, Sound(ind), NEW i \in Inodes, NEW v \in Vals,
         NEW pos \in 0 .. Word - 1, NEW k \in Counts,
         NEW after, after = [ind EXCEPT ![i] = WrittenInode(ind[i], v, pos, k)]
  PROVE  /\ Sound(after)
         /\ \A d \in Inodes : after[d].type = ind[d].type /\ after[d].entries = ind[d].entries
         /\ \A d \in Inodes \ {i} : after[d] = ind[d]
         /\ after[i].size = Grown(ind[i].size, (pos + k) % Word)
         /\ after[i].size \in 0 .. Word - 1
         /\ after[i].size >= ind[i].size
         /\ \A u \in Units : after[i].data[u] =
              IF u \in {(pos + j) % Word : j \in 0 .. k - 1} THEN v ELSE ind[i].data[u]
<1> DEFINE hit == {(pos + j) % Word : j \in 0 .. k - 1}
           end == (pos + k) % Word
           data == [u \in Units |-> IF u \in hit THEN v ELSE ind[i].data[u]]
           size == Grown(ind[i].size, end)
<1>1. ind \in [Inodes -> InodeRecord] /\ ind[i] \in InodeRecord
  BY DEF Sound
<1>2. end \in 0 .. Word - 1
  BY Constants
<1>3. ind[i].size \in 0 .. Word - 1 /\ ind[i].data \in [Units -> Vals \cup {Hole}]
  BY <1>1 DEF InodeRecord
<1>4. size \in 0 .. Word - 1 /\ size >= end /\ size >= ind[i].size
  <2> HIDE DEF end
  <2>1. QED
    BY <1>2, <1>3, Constants DEF Grown
<1>5. data \in [Units -> Vals \cup {Hole}]
  BY <1>3
<1>6. after[i] = [ind[i] EXCEPT !.data = data, !.size = size]
  BY <1>1 DEF WrittenInode
<1>7. \A u \in Units : u \in hit => u < end
  BY HitsCovered
<1>8. \A u \in Units : data[u] = IF u \in hit THEN v ELSE ind[i].data[u]
  OBVIOUS
<1> HIDE DEF hit, end, data, size
<1>9. /\ after[i] \in InodeRecord /\ after[i].type = ind[i].type
      /\ after[i].entries = ind[i].entries /\ after[i].data = data /\ after[i].size = size
  BY <1>1, <1>4, <1>5, <1>6 DEF InodeRecord
<1>10. \A d \in Inodes \ {i} : after[d] = ind[d]
  BY <1>1
<1>11. after \in [Inodes -> InodeRecord]
  <2>1. \A d \in Inodes : after[d] \in InodeRecord
    BY <1>1, <1>9, <1>10
  <2>2. after = [d \in Inodes |-> after[d]]
    BY <1>1
  <2>3. QED
    BY <2>1, <2>2
<1>12. \A d \in Inodes : after[d].type = ind[d].type /\ after[d].entries = ind[d].entries
  BY <1>9, <1>10
<1>13. Listed(after)
  <2>1. SUFFICES ASSUME NEW d \in Inodes, NEW m \in DOMAIN after[d].entries
                 PROVE  At(after, d, m) # Root /\ after[At(after, d, m)].type # "FREE"
    BY DEF Listed
  <2>2. m \in DOMAIN ind[d].entries /\ At(after, d, m) = At(ind, d, m)
    BY <1>12 DEF At
  <2>3. At(ind, d, m) \in Inodes
    BY <1>1, <2>2, EntryTypes
  <2>4. QED
    BY <1>12, <2>2, <2>3 DEF Sound, Listed
<1>14. ListedOnce(after)
  BY <1>12 DEF Sound, ListedOnce, At
<1>15. Covered(after)
  <2>1. SUFFICES ASSUME NEW d \in Inodes, NEW u \in Units, after[d].data[u] # Hole
                 PROVE  u < after[d].size
    BY DEF Covered
  <2>2. CASE d # i
    BY <1>10, <2>1, <2>2 DEF Sound, Covered
  <2>3. CASE d = i /\ u \in hit
    <3>1. u < end /\ u \in Nat
      BY <1>7, <2>3 DEF Units
    <3>2. QED
      BY <1>2, <1>4, <1>9, <2>3, <3>1
  <2>4. CASE d = i /\ u \notin hit
    <3>1. ind[i].data[u] # Hole
      BY <1>8, <1>9, <2>1, <2>4
    <3>2. u < ind[i].size /\ u \in Nat
      BY <3>1 DEF Sound, Covered, Units
    <3>3. QED
      BY <1>3, <1>4, <1>9, <2>4, <3>2
  <2>5. QED
    BY <2>2, <2>3, <2>4
<1>16. after[Root].type = "DIR"
  BY <1>12, Constants DEF Sound
<1>17. QED
  BY <1>4, <1>8, <1>9, <1>10, <1>11, <1>12, <1>13, <1>14, <1>15, <1>16
  DEF Sound, hit, end, size

-----------------------------------------------------------------------------
(* Where path resolution does not end *)

\* An entry of that name leads to link m.
Mentions(ind, m, name) ==
  \E d \in Inodes : \E k \in DOMAIN ind[d].entries :
    ind[d].entries[k].inode = m /\ ind[d].entries[k].name = name

Links(ind) == {i \in Inodes : ind[i].type = "SYMLINK"}

\* A round that does not end has come to a link that does not.
LEMMA StepHangs ==
  ASSUME NEW ind, Sound(ind), NEW leads \in [Inodes -> Results(ind)],
         NEW dir \in Results(ind), dir # Loop, NEW name,
         Step(ind, leads, dir, name) = Loop
  PROVE  \E m \in Links(ind) : Mentions(ind, m, name) /\ leads[m] = Loop
<1> DEFINE child == Find(ind, dir, name)
<1>1. dir \notin Stops /\ dir \in Inodes
  BY Constants DEF Step, Stops, Results
<1>2. ind[dir].type = "DIR" /\ child # None
  BY <1>1, Constants DEF Step
<1>3. /\ Hits(ind, dir, name) # {}
      /\ child = At(ind, dir, Hit(ind, dir, name))
      /\ child \in Inodes
  BY <1>1, <1>2, FindSound
<1>4. ind[child].type = "SYMLINK" /\ leads[child] = Loop
  BY <1>1, <1>2, <1>3, Constants DEF Step
<1>5. Mentions(ind, child, name)
  BY <1>1, <1>3, HitFound DEF Sound, Mentions, At
<1>6. QED
  BY <1>3, <1>4, <1>5 DEF Links

\* A path that does not end leads to a link that does not.
LEMMA AlongHangs ==
  ASSUME NEW ind, Sound(ind), NEW leads \in [Inodes -> Results(ind)],
         NEW path \in Seq(Names), Along(ind, leads, path) = Loop
  PROVE  \E m \in Links(ind), j \in DOMAIN path :
           Mentions(ind, m, path[j]) /\ leads[m] = Loop
<1> DEFINE len == Len(path)
<1>1. PICK at \in [0 .. len -> Results(ind)] :
        /\ at[0] = Root
        /\ \A k \in 1 .. len : at[k] = Step(ind, leads, at[k - 1], path[k])
        /\ Along(ind, leads, path) = at[len]
  BY AlongRounds
<1>2. len \in Nat /\ DOMAIN path = 1 .. len
  OBVIOUS
<1> HIDE DEF len
<1>3. \E k \in 0 .. len - 1 : at[k] # Loop /\ at[k + 1] = Loop
  <2> DEFINE T == {k \in 0 .. len : at[k] # Loop}
  <2>1. SUFFICES ASSUME \A k \in 0 .. len - 1 : at[k] # Loop => at[k + 1] # Loop
                 PROVE  FALSE
    OBVIOUS
  <2>2. 0 \in T
    BY <1>1, <1>2, Constants
  <2>3. \A m \in 0 .. len - 1 : m \in T => m + 1 \in T
    BY <1>2, <2>1
  <2> HIDE DEF T
  <2>4. 0 .. len \subseteq T
    BY <1>2, <2>2, <2>3, UpTo
  <2>5. QED
    BY <1>1, <1>2, <2>4 DEF T
<1>4. PICK k \in 0 .. len - 1 : at[k] # Loop /\ at[k + 1] = Loop
  BY <1>3
<1>5. at[k] \in Results(ind) /\ k + 1 \in 1 .. len
      /\ Step(ind, leads, at[k], path[k + 1]) = Loop
  BY <1>1, <1>2, <1>4
<1>6. QED
  BY <1>2, <1>4, <1>5, StepHangs

\* What ends at one depth comes to the same at any greater one.
LEMMA AlongDeeper ==
  ASSUME NEW ind, Sound(ind), NEW path \in Seq(Names),
         NEW ls \in [Inodes -> Results(ind)], NEW deeper \in [Inodes -> Results(ind)],
         \A l \in Inodes : ls[l] # Loop => deeper[l] = ls[l],
         Along(ind, ls, path) # Loop
  PROVE  Along(ind, deeper, path) = Along(ind, ls, path)
<1> DEFINE len == Len(path)
<1>1. PICK at \in [0 .. len -> Results(ind)] :
        /\ at[0] = Root
        /\ \A k \in 1 .. len : at[k] = Step(ind, ls, at[k - 1], path[k])
        /\ Along(ind, ls, path) = at[len]
  BY AlongRounds
<1>2. PICK bt \in [0 .. len -> Results(ind)] :
        /\ bt[0] = Root
        /\ \A k \in 1 .. len : bt[k] = Step(ind, deeper, bt[k - 1], path[k])
        /\ Along(ind, deeper, path) = bt[len]
  BY AlongRounds
<1>3. len \in Nat
  OBVIOUS
<1> HIDE DEF len
<1> DEFINE T == {k \in 0 .. len : at[k] # Loop => bt[k] = at[k]}
<1>4. 0 \in T
  BY <1>1, <1>2, <1>3
<1>5. ASSUME NEW m \in 0 .. len - 1, m \in T
      PROVE  m + 1 \in T
  <2>1. SUFFICES ASSUME at[m + 1] # Loop PROVE bt[m + 1] = at[m + 1]
    BY <1>3
  <2>2. /\ at[m + 1] = Step(ind, ls, at[m], path[m + 1])
        /\ bt[m + 1] = Step(ind, deeper, bt[m], path[m + 1])
        /\ at[m] \in Results(ind)
    <3>1. m + 1 \in 1 .. len /\ (m + 1) - 1 = m /\ m \in 0 .. len
      BY <1>3
    <3>2. QED
      BY <1>1, <1>2, <3>1
  <2>3. at[m] # Loop
    BY <2>1, <2>2 DEF Step, Stops
  <2>4. bt[m] = at[m]
    BY <1>5, <2>3
  <2> DEFINE child == Find(ind, at[m], path[m + 1])
  <2>5. CASE at[m] \in Stops
    BY <2>2, <2>4, <2>5 DEF Step
  <2>6. CASE at[m] \notin Stops
    <3>1. at[m] \in Inodes
      BY <2>2, <2>6 DEF Results
    <3>2. child = None \/ child \in Inodes
      BY <3>1, FindSound
    <3>3. CASE child = None \/ ind[at[m]].type # "DIR" \/ ind[child].type # "SYMLINK"
      BY <2>2, <2>4, <3>3 DEF Step
    <3>4. CASE child # None /\ ind[at[m]].type = "DIR" /\ ind[child].type = "SYMLINK"
      <4>1. at[m + 1] = ls[child] /\ bt[m + 1] = deeper[child]
        BY <2>2, <2>4, <2>6, <3>4 DEF Step
      <4>2. QED
        BY <2>1, <3>2, <3>4, <4>1
    <3>5. QED
      BY <3>3, <3>4
  <2>7. QED
    BY <2>5, <2>6
<1> HIDE DEF T
<1>6. 0 .. len \subseteq T
  BY <1>3, <1>4, <1>5, UpTo
<1>7. QED
  BY <1>1, <1>2, <1>3, <1>6 DEF T

\* There are not as many links as levels: of the sets of links that do not end
\* n levels deep, which shrink, one equals the next, and each link in it mentions
\* another one.
LEMMA WalkHangs ==
  ASSUME NEW ind, Sound(ind), NEW path \in Seq(Names), Walk(ind, path) = Loop
  PROVE  CircleIn(ind)
<1>1. PICK leads \in [0 .. Loop -> [Inodes -> Results(ind)]] :
        /\ leads[0] = [l \in Inodes |-> Loop]
        /\ \A n \in 1 .. Loop :
             leads[n] = [l \in Inodes |-> Along(ind, leads[n - 1], ind[l].target)]
        /\ Leads(ind) = leads[Loop]
  BY LeadsRounds
<1> DEFINE L(n) == {l \in Links(ind) : leads[n][l] = Loop}
<1>2. NInodes \in Nat /\ Loop = NInodes + 1
  BY Constants DEF Loop
<1>3. \A n \in 0 .. Loop - 1 :
        n + 1 \in 1 .. Loop /\ n \in 0 .. Loop /\ (n + 1) - 1 = n /\ n + 1 \in 0 .. Loop
  BY <1>2
<1>4. ASSUME NEW n \in 0 .. Loop - 1
      PROVE  /\ leads[n] \in [Inodes -> Results(ind)]
             /\ leads[n + 1] \in [Inodes -> Results(ind)]
             /\ \A l \in Inodes : leads[n + 1][l] = Along(ind, leads[n], ind[l].target)
  <2>1. leads[n + 1] = [l \in Inodes |-> Along(ind, leads[n], ind[l].target)]
    BY <1>1, <1>3
  <2>2. QED
    BY <1>1, <1>3, <2>1
<1>5. \A l \in Inodes : ind[l].target \in Seq(Names)
  BY TargetTypes DEF Sound
<1>6. ASSUME NEW n \in 0 .. Loop - 1
      PROVE  \A l \in Inodes : leads[n][l] # Loop => leads[n + 1][l] = leads[n][l]
  <2> DEFINE Same(m) == \A l \in Inodes : leads[m][l] # Loop => leads[m + 1][l] = leads[m][l]
             T == {m \in 0 .. Loop - 1 : Same(m)}
  <2>1. 0 \in T
    BY <1>1, <1>2
  <2>2. ASSUME NEW m \in 0 .. (Loop - 1) - 1, m \in T
        PROVE  m + 1 \in T
    <3>1. m \in 0 .. Loop - 1 /\ m + 1 \in 0 .. Loop - 1
      BY <1>2
    <3>2. SUFFICES ASSUME NEW l \in Inodes, leads[m + 1][l] # Loop
                   PROVE  leads[(m + 1) + 1][l] = leads[m + 1][l]
      BY <3>1
    <3>3. /\ leads[m + 1][l] = Along(ind, leads[m], ind[l].target)
          /\ leads[(m + 1) + 1][l] = Along(ind, leads[m + 1], ind[l].target)
          /\ leads[m] \in [Inodes -> Results(ind)] /\ leads[m + 1] \in [Inodes -> Results(ind)]
      BY <1>4, <3>1
    <3>4. \A i \in Inodes : leads[m][i] # Loop => leads[m + 1][i] = leads[m][i]
      BY <2>2
    <3>5. QED
      BY <1>5, <3>2, <3>3, <3>4, AlongDeeper
  <2> HIDE DEF T
  <2>3. 0 .. Loop - 1 \subseteq T
    <3> DEFINE top == Loop - 1
    <3>1. top \in Nat
      BY <1>2
    <3>2. \A m \in 0 .. top - 1 : m \in T => m + 1 \in T
      BY <2>2
    <3> HIDE DEF top
    <3>3. 0 .. top \subseteq T
      BY <2>1, <3>1, <3>2, UpTo
    <3>4. QED
      BY <3>3 DEF top
  <2>4. QED
    BY <2>3 DEF T
<1>7. \A n \in 0 .. Loop - 1 : L(n + 1) \subseteq L(n)
  <2>1. SUFFICES ASSUME NEW n \in 0 .. Loop - 1, NEW l \in Links(ind), leads[n + 1][l] = Loop
                 PROVE  leads[n][l] = Loop
    OBVIOUS
  <2>2. l \in Inodes
    BY DEF Links
  <2>3. QED
    BY <1>6, <2>1, <2>2
<1>8. L(Loop) # {}
  <2>1. leads[Loop] \in [Inodes -> Results(ind)] /\ Along(ind, leads[Loop], path) = Loop
    BY <1>1, <1>2 DEF Walk
  <2>2. QED
    BY <2>1, AlongHangs
<1>9. \E n \in 0 .. Loop - 1 : L(n) # {} /\ L(n + 1) = L(n)
  <2>1. SUFFICES ASSUME \A n \in 0 .. Loop - 1 : L(n) # {} => L(n + 1) # L(n)
                 PROVE  FALSE
    OBVIOUS
  <2>2. IsFiniteSet(Inodes) /\ Cardinality(Inodes) = NInodes
    BY <1>2, FS_Interval DEF Inodes
  <2>3. \A n \in 0 .. Loop : L(n) \in SUBSET Inodes
    BY DEF Links
  <2> DEFINE T == {n \in 0 .. Loop : L(n) = {} \/ Cardinality(L(n)) <= NInodes - n}
  <2>4. \A n \in 0 .. Loop : IsFiniteSet(L(n)) /\ Cardinality(L(n)) \in Nat
                              /\ Cardinality(L(n)) <= NInodes
    <3> SUFFICES ASSUME NEW n \in 0 .. Loop
                 PROVE  IsFiniteSet(L(n)) /\ Cardinality(L(n)) \in Nat
                        /\ Cardinality(L(n)) <= NInodes
      OBVIOUS
    <3>1. L(n) \in SUBSET Inodes
      BY <2>3
    <3> HIDE DEF L
    <3>2. IsFiniteSet(L(n)) /\ Cardinality(L(n)) <= NInodes
      BY <2>2, <3>1, FS_Subset
    <3>3. QED
      BY <3>2, FS_CardinalityType
  <2>5. 0 \in T
    <3> HIDE DEF L
    <3>1. QED
      BY <1>2, <2>4
  <2>6. ASSUME NEW m \in 0 .. Loop - 1, m \in T
        PROVE  m + 1 \in T
    <3>1. L(m + 1) \in SUBSET L(m)
      BY <1>7
    <3>2. m \in 0 .. Loop /\ m + 1 \in 0 .. Loop /\ m \in Nat
      BY <1>3
    <3> HIDE DEF L
    <3>3. CASE L(m) = {}
      BY <3>1, <3>2, <3>3
    <3>4. CASE L(m) # {}
      <4>1. L(m) # L(m + 1)
        BY <2>1, <3>4
      <4>2. Cardinality(L(m + 1)) <= Cardinality(L(m))
            /\ Cardinality(L(m)) # Cardinality(L(m + 1))
        BY <2>4, <3>1, <3>2, <4>1, FS_Subset
      <4>3. Cardinality(L(m)) <= NInodes - m
        BY <2>6, <3>4
      <4>4. Cardinality(L(m)) \in Nat /\ Cardinality(L(m + 1)) \in Nat
        BY <2>4, <3>2
      <4>5. Cardinality(L(m + 1)) <= NInodes - (m + 1)
        BY <1>2, <3>2, <4>2, <4>3, <4>4
      <4>6. QED
        BY <3>2, <4>5
    <3>5. QED
      BY <3>3, <3>4
  <2> HIDE DEF T
  <2>7. Loop \in T
    <3>1. 0 .. Loop \subseteq T
      BY Constants, <2>5, <2>6, UpTo
    <3>2. Loop \in 0 .. Loop
      BY Constants
    <3>3. QED
      BY <3>1, <3>2
  <2> HIDE DEF L
  <2>8. Cardinality(L(Loop)) <= NInodes - Loop /\ Cardinality(L(Loop)) \in Nat
    BY <1>2, <1>8, <2>4, <2>7 DEF T
  <2>9. QED
    BY <1>2, <2>8
<1>10. PICK n \in 0 .. Loop - 1 : L(n) # {} /\ L(n + 1) = L(n)
  BY <1>9
<1>11. ASSUME NEW l \in L(n)
       PROVE  \E m \in L(n) : \E j \in DOMAIN ind[l].target : Mentions(ind, m, ind[l].target[j])
  <2>1. l \in Inodes /\ leads[n + 1][l] = Loop
    BY <1>10 DEF Links
  <2>2. Along(ind, leads[n], ind[l].target) = Loop /\ leads[n] \in [Inodes -> Results(ind)]
    BY <1>4, <2>1
  <2>3. QED
    BY <1>5, <2>1, <2>2, AlongHangs
<1>12. L(n) \in SUBSET {i \in Inodes : ind[i].type = "SYMLINK"} /\ L(n) # {}
  BY <1>10 DEF Links
<1> HIDE DEF L
<1>13. \A l \in L(n) : \E m \in L(n), d \in Inodes :
         \E k \in DOMAIN ind[d].entries :
           LET e == ind[d].entries[k]
           IN  e.inode = m /\ \E j \in DOMAIN ind[l].target : ind[l].target[j] = e.name
  <2>1. SUFFICES ASSUME NEW l \in L(n)
                 PROVE  \E m \in L(n), d \in Inodes :
                          \E k \in DOMAIN ind[d].entries :
                            LET e == ind[d].entries[k]
                            IN  e.inode = m /\ \E j \in DOMAIN ind[l].target : ind[l].target[j] = e.name
    OBVIOUS
  <2>2. PICK m \in L(n), j \in DOMAIN ind[l].target : Mentions(ind, m, ind[l].target[j])
    BY <1>11
  <2>3. QED
    BY <2>2 DEF Mentions
<1>14. QED
  BY <1>12, <1>13 DEF CircleIn

\* vfs_resolve_path does not end only where there is a circle of links.
LEMMA ResolveHangs ==
  ASSUME NEW ind, Sound(ind), NEW path \in Seq(Names), NEW oom,
         Resolve(ind, path, oom) = Loop
  PROVE  CircleIn(ind)
<1>1. Walk(ind, path) = Loop
  BY Constants DEF Resolve
<1>2. QED
  BY <1>1, WalkHangs

-----------------------------------------------------------------------------
(* The operations *)

\* A kernel that hangs does so in front of a circle.
HaltOK(s) == s.halt \in {"no", "recursion"} /\ (s.halt = "recursion" => CircleIn(s.ind))

\* Inodes are given a type, but none is changed.
Grew(a, b) == \A i \in Inodes : a[i].type \in {"FREE", b[i].type}

FilesKept(a, b) == \A i \in Inodes : a[i].type = "FILE" => b[i] = a[i]

\* From a good state to a good one, with no inode freed.
LeadsTo(s, t) == StateOK(t) /\ HaltOK(t) /\ Grew(s.ind, t.ind)

\* What one operation does after another one adds up.
LEMMA GrewTransitive ==
  ASSUME NEW a, NEW b, NEW c, Grew(a, b), Grew(b, c)
  PROVE  Grew(a, c)
BY DEF Grew

\* A call that fails, or whose recursion does not end, changes nothing.
LEMMA Refused ==
  ASSUME NEW s, StateOK(s), s.halt = "no"
  PROVE  /\ LeadsTo(s, Returning(s, Fail)) /\ Returning(s, Fail).fds = s.fds
         /\ Returning(s, Fail).ind = s.ind /\ Returning(s, Fail).r = Fail
         /\ Returning(s, Fail).halt = "no"
         /\ StateOK(Hung(s)) /\ Hung(s).halt = "recursion"
         /\ Hung(s).fds = s.fds /\ Hung(s).ind = s.ind
         /\ Grew(s.ind, s.ind) /\ FilesKept(s.ind, s.ind)
<1> DEFINE t == Returning(s, Fail)
           h == Hung(s)
<1>1. s \in StateRecord
  BY DEF StateOK
<1>2. t = [ind |-> s.ind, fds |-> s.fds, r |-> Fail, halt |-> s.halt]
  BY <1>1 DEF Returning, StateRecord
<1>3. h = [ind |-> s.ind, fds |-> s.fds, r |-> s.r, halt |-> "recursion"]
  BY <1>1 DEF Hung, StateRecord
<1> HIDE DEF t, h
<1>4. t \in StateRecord /\ h \in StateRecord
  BY <1>1, <1>2, <1>3 DEF StateRecord
<1>5. Grew(s.ind, s.ind) /\ FilesKept(s.ind, s.ind)
  BY DEF Grew, FilesKept
<1>6. StateOK(t) /\ StateOK(h)
  BY <1>2, <1>3, <1>4 DEF StateOK
<1>7. LeadsTo(s, t)
  BY <1>2, <1>5, <1>6 DEF LeadsTo, HaltOK
<1>8. QED
  BY <1>2, <1>3, <1>5, <1>6, <1>7 DEF t, h

\* dorifs_create_inode, dorifs_mkdir and dorifs_symlink hand out an inode that is
\* free, and change no file.
LEMMA CreatedSound ==
  ASSUME NEW s, StateOK(s), s.halt = "no", NEW path \in Seq(Names), path # <<>>,
         NEW inode \in InodeRecord, inode.type # "FREE", inode.entries = <<>>,
         inode.data = [u \in Units |-> Hole], NEW oom
  PROVE  /\ LeadsTo(s, Created(s, path, inode, oom))
         /\ Created(s, path, inode, oom).fds = s.fds
         /\ FilesKept(s.ind, Created(s, path, inode, oom).ind)
<1> DEFINE dir == Resolve(s.ind, Front(path), oom)
           new == AllocInode(s.ind)
           name == Last(path)
           t == Created(s, path, inode, oom)
<1>1. s \in StateRecord /\ Sound(s.ind)
  BY DEF StateOK
<1>2. Front(path) \in Seq(Names) /\ name \in Names
  BY DEF Front, Last
<1>3. dir \in Results(s.ind)
  BY <1>1, <1>2, ResolveSound
<1>4. CASE dir = Loop
  <2>1. t = Hung(s)
    BY <1>4 DEF Created
  <2>2. CircleIn(s.ind)
    BY <1>1, <1>2, <1>4, ResolveHangs
  <2> HIDE DEF t
  <2>3. QED
    BY <2>1, <2>2, Refused DEF LeadsTo, HaltOK, t
<1>5. CASE dir # Loop /\ (dir = None \/ s.ind[dir].type # "DIR" \/ new = None)
  <2>1. t = Returning(s, Fail)
    BY <1>5 DEF Created
  <2>2. QED
    BY <2>1, Refused
<1>6. CASE dir # Loop /\ dir # None /\ s.ind[dir].type = "DIR" /\ new # None
  <2> DEFINE after == [s.ind EXCEPT
                         ![new] = inode,
                         ![dir].entries = Append(@, [name |-> name, inode |-> new])]
  <2>1. t = [s EXCEPT !.ind[new] = inode,
                      !.ind[dir].entries = Append(@, [name |-> name, inode |-> new]),
                      !.r = 0]
    BY <1>6 DEF Created
  <2>2. dir \in Inodes
    BY <1>3, <1>6 DEF Results, Stops
  <2>3. new \in FreeInodes(s.ind)
    <3>1. FreeInodes(s.ind) \subseteq Nat
      BY DEF FreeInodes, Inodes
    <3>2. QED
      BY <1>6, <3>1, MinLeast DEF AllocInode
  <2>4. new \in Inodes /\ s.ind[new].type = "FREE" /\ new # dir
    BY <1>6, <2>3 DEF FreeInodes
  <2> HIDE DEF dir, new, name
  <2>5. t = [ind |-> after, fds |-> s.fds, r |-> 0, halt |-> s.halt]
    BY <1>1, <2>1 DEF StateRecord
  <2>6. Sound(after)
    BY <1>1, <1>2, <1>6, <2>2, <2>3, EntryAdded
  <2>7. \A i \in Inodes : i # dir /\ i # new => after[i] = s.ind[i]
    BY <1>1, <2>2, <2>4 DEF StateRecord
  <2>8. after[dir].type = s.ind[dir].type
    BY <1>1, <2>2, <2>4 DEF StateRecord, InodeRecord
  <2> HIDE DEF after, t
  <2>9. Grew(s.ind, t.ind) /\ FilesKept(s.ind, t.ind)
    BY <1>6, <2>4, <2>5, <2>7, <2>8 DEF Grew, FilesKept
  <2>10. after \in [Inodes -> InodeRecord]
    BY <2>6 DEF Sound
  <2>11. StateOK(t)
    BY <1>1, <2>5, <2>6, <2>10 DEF StateOK, StateRecord
  <2>12. QED
    BY <2>5, <2>9, <2>11 DEF LeadsTo, HaltOK, t
<1>7. QED
  BY <1>4, <1>5, <1>6

\* f stands for an inode of its type and knows its size.
NodeCurrent(ind, f) ==
  /\ f.node.inode \in Inodes
  /\ ind[f.node.inode].type = f.node.type
  /\ ind[f.node.inode].size = f.node.size

\* t has one descriptor more than s, the lowest that was free, in t.r.
GotFd(s, t) ==
  /\ t.r \in Fds \ InUse(s.fds)
  /\ \A lower \in Fds : lower < t.r => lower \in InUse(s.fds)
  /\ t.fds = [s.fds EXCEPT ![t.r] = t.fds[t.r]]
  /\ t.fds[t.r].in_use
  /\ NodeCurrent(t.ind, t.fds[t.r])

\* fd_alloc finds the lowest descriptor that is free.
LEMMA FdAllocLowest ==
  ASSUME NEW fds
  PROVE  \/ FdAlloc(fds) = Fail /\ InUse(fds) = Fds
         \/ /\ FdAlloc(fds) \in Fds \ InUse(fds)
            /\ FdAlloc(fds) # Fail
            /\ \A lower \in Fds : lower < FdAlloc(fds) => lower \in InUse(fds)
<1>1. CASE InUse(fds) = Fds
  BY <1>1 DEF FdAlloc
<1>2. CASE InUse(fds) # Fds
  <2> DEFINE free == Fds \ InUse(fds)
  <2>1. free \subseteq Nat /\ free # {}
    BY <1>2 DEF InUse, Fds
  <2>2. FdAlloc(fds) = Min(free)
    BY <1>2 DEF FdAlloc
  <2> HIDE DEF free
  <2>3. Min(free) \in free /\ \A y \in free : Min(free) <= y
    BY <2>1, MinLeast
  <2>4. ASSUME NEW lower \in Fds, lower < Min(free)
        PROVE  lower \notin free
    <3>0. Min(free) \in Nat
      BY <2>1, <2>3
    <3>1. lower \in Nat
      BY Constants DEF Fds
    <3>2. ~(Min(free) <= lower)
      BY <2>4, <3>0, <3>1
    <3>3. QED
      BY <2>3, <3>2
  <2>5. Min(free) # Fail
    BY <2>1, <2>3 DEF Fail
  <2>6. QED
    BY <2>2, <2>3, <2>4, <2>5 DEF free
<1>3. QED
  BY <1>1, <1>2

\* vfs_open finds out that there is no descriptor before it truncates, and the
\* node of the one it takes is up to date.
LEMMA OpenNodeSound ==
  ASSUME NEW s, StateOK(s), s.halt = "no", NEW flags,
         NEW i \in Inodes, s.ind[i].type \in {"FILE", "DIR"}
  PROVE  LET t == OpenNode(s, i, flags) IN
         /\ LeadsTo(s, t) /\ t.halt = "no"
         /\ \/ t.r = Fail /\ t.fds = s.fds /\ t.ind = s.ind
            \/ t.r # Fail /\ GotFd(s, t)
<1> DEFINE fd == FdAlloc(s.fds)
           ind == IF "TRUNC" \in flags THEN Truncated(s.ind, i) ELSE s.ind
           node == [inode |-> i, type |-> ind[i].type, size |-> ind[i].size]
           f == [in_use |-> TRUE, node |-> node,
                 offset |-> IF "APPEND" \in flags THEN node.size ELSE 0,
                 append |-> "APPEND" \in flags]
           t == OpenNode(s, i, flags)
<1>1. s \in StateRecord /\ Sound(s.ind) /\ FdsOK(s.fds)
  BY DEF StateOK
<1>2. CASE fd = Fail
  <2>1. t = Returning(s, Fail)
    BY <1>2 DEF OpenNode
  <2>2. QED
    BY <2>1, Refused
<1>3. CASE fd # Fail
  <2>1. t = [s EXCEPT !.ind = ind, !.r = fd, !.fds[fd] = f]
    BY <1>3 DEF OpenNode
  <2>2. fd \in Fds /\ fd \notin InUse(s.fds)
        /\ \A lower \in Fds : lower < fd => lower \in InUse(s.fds)
    BY <1>3, FdAllocLowest
  <2>3. Sound(ind) /\ \A d \in Inodes : ind[d].type = s.ind[d].type
    BY <1>1, TruncatedSound
  <2> HIDE DEF fd, ind
  <2>4. ind[i] \in InodeRecord /\ ind[i].type \in {"FILE", "DIR"}
    BY <2>3 DEF Sound
  <2>5. node \in Node /\ node.size \in 0 .. Word - 1 /\ node.type \in {"FILE", "DIR"}
    BY <2>4 DEF Node, InodeRecord
  <2>6. f.node = node /\ f.in_use = TRUE
    OBVIOUS
  <2>7. f \in FdRecord
    <3> HIDE DEF node
    <3>1. 0 \in 0 .. Word - 1
      BY Constants
    <3>2. QED
      BY <2>5, <3>1 DEF FdRecord
  <2>8. NodeCurrent(ind, f)
    BY <2>6 DEF NodeCurrent
  <2> HIDE DEF node, f
  <2>9. t = [ind |-> ind, fds |-> [s.fds EXCEPT ![fd] = f], r |-> fd, halt |-> s.halt]
    BY <1>1, <2>1 DEF StateRecord
  <2> HIDE DEF t
  <2>10. s.fds \in [Fds -> FdRecord]
    BY <1>1 DEF FdsOK
  <2>11. t.fds \in [Fds -> FdRecord] /\ t.fds[fd] = f
         /\ \A other \in Fds : other # fd => t.fds[other] = s.fds[other]
    BY <2>2, <2>7, <2>9, <2>10
  <2>12. FdsOK(t.fds)
    BY <1>1, <2>5, <2>6, <2>11 DEF FdsOK, InUse
  <2>13. StateOK(t)
    <3>1. ind \in [Inodes -> InodeRecord] /\ fd \in Nat
      BY <2>2, <2>3 DEF Sound, Fds
    <3>2. QED
      BY <1>1, <2>3, <2>9, <2>11, <2>12, <3>1 DEF StateOK, StateRecord
  <2>14. LeadsTo(s, t) /\ t.halt = "no"
    BY <2>3, <2>9, <2>13 DEF LeadsTo, HaltOK, Grew
  <2>15. GotFd(s, t)
    BY <2>2, <2>6, <2>8, <2>9, <2>11 DEF GotFd
  <2>16. QED
    BY <1>3, <2>9, <2>14, <2>15 DEF t, fd
<1>4. QED
  BY <1>2, <1>3

\* vfs_open: it fails and no file is changed, or it has taken a descriptor, on
\* whatever path through its three resolutions.
LEMMA OpenedSound ==
  ASSUME NEW s, StateOK(s), s.halt = "no", NEW path \in Seq(Names), NEW flags, NEW oom
  PROVE  LET t == Opened(s, path, flags, oom) IN
         /\ LeadsTo(s, t)
         /\ t.halt = "no" /\ t.r # Fail => GotFd(s, t)
         /\ t.halt # "no" \/ t.r = Fail => t.fds = s.fds /\ FilesKept(s.ind, t.ind)
<1> DEFINE first == Resolve(s.ind, path, 1 \in oom)
           made == Created(s, path, NewInode("FILE", <<>>), 2 \in oom)
           again == Resolve(made.ind, path, 3 \in oom)
           t == Opened(s, path, flags, oom)
           Good(x) == /\ LeadsTo(s, x)
                      /\ x.halt = "no" /\ x.r # Fail => GotFd(s, x)
                      /\ x.halt # "no" \/ x.r = Fail => x.fds = s.fds /\ FilesKept(s.ind, x.ind)
<1>1. Sound(s.ind)
  BY DEF StateOK
<1>2. first \in Results(s.ind)
  BY <1>1, ResolveSound
<1>3. path # <<>> => /\ LeadsTo(s, made) /\ made.fds = s.fds /\ FilesKept(s.ind, made.ind)
                     /\ StateOK(made) /\ Sound(made.ind) /\ Grew(s.ind, made.ind)
  <2> DEFINE inode == NewInode("FILE", <<>>)
  <2>1. /\ inode \in InodeRecord /\ inode.type = "FILE" /\ inode.entries = <<>>
        /\ inode.data = [u \in Units |-> Hole]
    BY FreshInodes DEF Types
  <2>2. inode.type # "FREE"
    BY <2>1
  <2> HIDE DEF inode
  <2>3. ASSUME path # <<>>
        PROVE  /\ LeadsTo(s, Created(s, path, inode, 2 \in oom))
               /\ Created(s, path, inode, 2 \in oom).fds = s.fds
               /\ FilesKept(s.ind, Created(s, path, inode, 2 \in oom).ind)
    BY <2>1, <2>2, <2>3, CreatedSound
  <2>4. QED
    BY <2>3 DEF inode, LeadsTo, StateOK
<1> HIDE DEF first, made, again
<1>4. CASE first = Loop
  <2>1. t = Hung(s)
    BY <1>4 DEF Opened, first
  <2>2. CircleIn(s.ind)
    BY <1>1, <1>4, ResolveHangs DEF first
  <2> HIDE DEF t
  <2>3. Good(t)
    BY <2>1, <2>2, Refused DEF LeadsTo, HaltOK
  <2>4. QED
    BY <2>3 DEF t
<1>5. CASE first # Loop /\ first # None
  <2>1. t = OpenNode(s, first, flags)
    BY <1>5 DEF Opened, first
  <2>2. first \in Inodes /\ s.ind[first].type \in {"FILE", "DIR"}
    BY <1>2, <1>5 DEF Results, Stops
  <2> HIDE DEF t
  <2>3. /\ LeadsTo(s, t) /\ t.halt = "no"
        /\ \/ t.r = Fail /\ t.fds = s.fds /\ t.ind = s.ind
           \/ t.r # Fail /\ GotFd(s, t)
    BY <2>1, <2>2, OpenNodeSound
  <2>4. Good(t)
    BY <2>3, Refused
  <2>5. QED
    BY <2>4 DEF t
<1>6. CASE first = None /\ ("CREAT" \notin flags \/ path = <<>>)
  <2>1. t = Returning(s, Fail)
    BY <1>6, Constants DEF Opened, first
  <2> HIDE DEF t
  <2>2. Good(t)
    BY <2>1, Refused
  <2>3. QED
    BY <2>2 DEF t
<1>7. CASE first = None /\ ~("CREAT" \notin flags \/ path = <<>>)
  <2>1. t = IF made.halt # "no" \/ made.r = Fail THEN made
            ELSE IF again = Loop THEN Hung(made)
            ELSE IF again = None THEN Returning(made, Fail)
            ELSE OpenNode(made, again, flags)
    BY <1>7, Constants DEF Opened, first, made, again
  <2>2. /\ LeadsTo(s, made) /\ made.fds = s.fds /\ FilesKept(s.ind, made.ind)
        /\ StateOK(made) /\ Sound(made.ind) /\ Grew(s.ind, made.ind)
    BY <1>3, <1>7
  <2>3. again \in Results(made.ind)
    BY <2>2, ResolveSound DEF again
  <2>4. again = Loop => CircleIn(made.ind)
    BY <2>2, ResolveHangs DEF again
  <2> HIDE DEF t
  <2>5. CASE made.halt # "no" \/ made.r = Fail
    <3>1. t = made
      BY <2>1, <2>5
    <3>2. QED
      BY <2>2, <2>5, <3>1 DEF t
  <2>6. CASE made.halt = "no" /\ made.r # Fail /\ again = Loop
    <3>1. t = Hung(made)
      BY <2>1, <2>6
    <3>2. StateOK(t) /\ t.halt = "recursion" /\ t.fds = made.fds /\ t.ind = made.ind
      BY <2>2, <2>6, <3>1, Refused
    <3>3. Good(t)
      BY <2>2, <2>4, <2>6, <3>2 DEF LeadsTo, HaltOK
    <3>4. QED
      BY <3>3 DEF t
  <2>7. CASE made.halt = "no" /\ made.r # Fail /\ again = None
    <3>1. t = Returning(made, Fail)
      BY <2>1, <2>7, Constants
    <3>2. LeadsTo(made, t) /\ t.halt = "no" /\ t.r = Fail /\ t.fds = made.fds /\ t.ind = made.ind
      BY <2>2, <2>7, <3>1, Refused
    <3>3. Good(t)
      BY <2>2, <3>2 DEF LeadsTo
    <3>4. QED
      BY <3>3 DEF t
  <2>8. CASE made.halt = "no" /\ made.r # Fail /\ again # Loop /\ again # None
    <3>1. t = OpenNode(made, again, flags)
      BY <2>1, <2>8
    <3>2. again \in Inodes /\ made.ind[again].type \in {"FILE", "DIR"}
      BY <2>3, <2>8 DEF Results, Stops
    <3>3. /\ LeadsTo(made, t) /\ t.halt = "no"
          /\ \/ t.r = Fail /\ t.fds = made.fds /\ t.ind = made.ind
             \/ t.r # Fail /\ GotFd(made, t)
      BY <2>2, <2>8, <3>1, <3>2, OpenNodeSound
    <3>4. LeadsTo(s, t)
      BY <2>2, <3>3, GrewTransitive DEF LeadsTo
    <3>5. GotFd(made, t) => GotFd(s, t)
      BY <2>2 DEF GotFd
    <3>6. Good(t)
      BY <2>2, <3>3, <3>4, <3>5
    <3>7. QED
      BY <3>6 DEF t
  <2>9. QED
    BY <2>5, <2>6, <2>7, <2>8
<1>8. QED
  BY <1>4, <1>5, <1>6, <1>7

\* vfs_close clears one slot.
LEMMA ClosedSound ==
  ASSUME NEW s, StateOK(s), NEW fd \in Fds
  PROVE  LET t == ClosedOne(s, fd) IN
         /\ StateOK(t) /\ t.ind = s.ind /\ t.halt = s.halt
         /\ t.fds = [s.fds EXCEPT ![fd] = ClosedFd]
         /\ InUse(t.fds) = InUse(s.fds) \ {fd}
<1> DEFINE t == ClosedOne(s, fd)
<1>1. s \in StateRecord /\ Sound(s.ind) /\ FdsOK(s.fds) /\ s.fds \in [Fds -> FdRecord]
  BY DEF StateOK, FdsOK
<1>2. t = [ind |-> s.ind, fds |-> [s.fds EXCEPT ![fd] = ClosedFd], r |-> 0, halt |-> s.halt]
  <2>1. t = [s EXCEPT !.fds[fd] = ClosedFd, !.r = 0]
    BY DEF ClosedOne
  <2> HIDE DEF t
  <2>2. QED
    BY <1>1, <2>1 DEF StateRecord
<1> HIDE DEF t
<1>3. ClosedFd \in FdRecord /\ ClosedFd.in_use = FALSE
  <2>1. 0 \in 0 .. Word - 1
    BY Constants
  <2>2. QED
    BY <2>1 DEF ClosedFd, FdRecord
<1>4. /\ t.fds \in [Fds -> FdRecord] /\ t.fds[fd] = ClosedFd
      /\ \A other \in Fds : other # fd => t.fds[other] = s.fds[other]
  BY <1>1, <1>2, <1>3
<1>5. FdsOK(t.fds) /\ InUse(t.fds) = InUse(s.fds) \ {fd}
  BY <1>1, <1>3, <1>4 DEF FdsOK, InUse
<1>6. StateOK(t)
  BY <1>1, <1>2, <1>4, <1>5 DEF StateOK, StateRecord
<1>7. QED
  BY <1>2, <1>5, <1>6 DEF t

\* What moves a position and leaves the rest alone: vfs_read and vfs_seek.
Moved(s, t, fd) ==
  /\ StateOK(t) /\ t.ind = s.ind /\ t.halt = s.halt
  /\ InUse(t.fds) = InUse(s.fds)
  /\ \A other \in Fds : t.fds[other].node = s.fds[other].node

\* A new position in the descriptor table is a change of nothing else.
LEMMA MovedSound ==
  ASSUME NEW s, StateOK(s), NEW fd \in InUse(s.fds), NEW offset \in 0 .. Word - 1,
         NEW r \in Nat, NEW t,
         t = [ind |-> s.ind, fds |-> [s.fds EXCEPT ![fd].offset = offset],
              r |-> r, halt |-> s.halt]
  PROVE  Moved(s, t, fd)
<1>1. s \in StateRecord /\ Sound(s.ind) /\ FdsOK(s.fds) /\ s.fds \in [Fds -> FdRecord]
      /\ fd \in Fds /\ s.fds[fd].in_use
  BY DEF StateOK, FdsOK, InUse
<1> DEFINE f == [s.fds[fd] EXCEPT !.offset = offset]
<1>2. f \in FdRecord /\ f.node = s.fds[fd].node /\ f.in_use = s.fds[fd].in_use
  BY <1>1 DEF FdRecord
<1>3. t.fds = [s.fds EXCEPT ![fd] = f]
  BY <1>1
<1> HIDE DEF f
<1>4. /\ t.fds \in [Fds -> FdRecord] /\ t.fds[fd] = f
      /\ \A other \in Fds : other # fd => t.fds[other] = s.fds[other]
  BY <1>1, <1>2, <1>3
<1>5. FdsOK(t.fds) /\ InUse(t.fds) = InUse(s.fds)
      /\ \A other \in Fds : t.fds[other].node = s.fds[other].node
  BY <1>1, <1>2, <1>4 DEF FdsOK, InUse
<1>6. StateOK(t)
  BY <1>1, <1>4, <1>5 DEF StateOK, StateRecord
<1>7. QED
  BY <1>5, <1>6 DEF Moved

\* vfs_read.
LEMMA ReadSound ==
  ASSUME NEW s, StateOK(s), NEW fd \in InUse(s.fds), NEW n \in Nat
  PROVE  Moved(s, ReadBy(s, fd, n), fd)
<1> DEFINE f == s.fds[fd]
           inode == s.ind[f.node.inode]
           got == ReadCount(inode, f.offset, n)
           wanted == IF f.offset >= inode.size THEN 0
                     ELSE IF (f.offset + n) % Word > inode.size THEN inode.size - f.offset
                     ELSE n
           Present(k) == (f.offset + k) % Word \in Units
                         /\ inode.data[(f.offset + k) % Word] # Hole
           all == {k \in 0 .. wanted : \A j \in 0 .. k - 1 : Present(j)}
<1>1. s \in StateRecord /\ FdsOK(s.fds) /\ s.ind \in [Inodes -> InodeRecord]
  BY DEF StateOK, StateRecord
<1>2. f \in FdRecord /\ f.node \in Node
  BY <1>1 DEF FdsOK, InUse
<1>3. f.offset \in 0 .. Word - 1 /\ inode.size \in 0 .. Word - 1
  BY <1>1, <1>2 DEF FdRecord, Node, InodeRecord
<1>4. wanted \in Nat
  <2> HIDE DEF f, inode
  <2>1. QED
    BY <1>3, Constants
<1> HIDE DEF wanted, Present
<1>5. 0 \in all /\ all \subseteq 0 .. (wanted + 1) - 1 /\ wanted + 1 \in Nat
  BY <1>4
<1>6. Max(all) \in all
  <2> HIDE DEF all
  <2>1. QED
    BY <1>5, MinMaxIn
<1>7. got = Max(all)
  BY DEF ReadCount, wanted, Present
<1>8. got \in Nat
  <2> HIDE DEF got
  <2>1. QED
    BY <1>4, <1>6, <1>7
<1> DEFINE offset == (f.offset + got) % Word
<1>9. offset \in 0 .. Word - 1
  <2> HIDE DEF got, f
  <2>1. QED
    BY <1>3, <1>8, Constants
<1>10. ReadBy(s, fd, n)
       = [ind |-> s.ind, fds |-> [s.fds EXCEPT ![fd].offset = offset], r |-> got, halt |-> s.halt]
  <2>1. ReadBy(s, fd, n) = [s EXCEPT !.fds[fd].offset = (@ + got) % Word, !.r = got]
    BY DEF ReadBy
  <2>2. fd \in Fds /\ s.fds \in [Fds -> FdRecord]
    BY <1>1 DEF FdsOK, InUse
  <2> HIDE DEF got
  <2>3. QED
    BY <1>1, <2>1, <2>2 DEF StateRecord, FdRecord
<1> HIDE DEF got, offset
<1>11. QED
  BY <1>8, <1>9, <1>10, MovedSound

\* The units that a write hits, were the file that long.
Reached(pos, k) == {(pos + j) % Word : j \in 0 .. k - 1}

\* t is s after a write: one inode has got data and size, and the node of the
\* descriptor that was written through knows the new size.
Wrote(s, t, fd, v, k) ==
  LET i == s.fds[fd].node.inode
      pos == WritePos(s.fds[fd])
  IN  /\ StateOK(t) /\ t.halt = s.halt
      /\ i \in Inodes /\ pos \in 0 .. Word - 1
      /\ t.ind[i].size = Grown(s.ind[i].size, (pos + k) % Word)
      /\ \A u \in Units : t.ind[i].data[u] =
           IF u \in Reached(pos, k) THEN v ELSE s.ind[i].data[u]
      /\ \A d \in Inodes : /\ t.ind[d].type = s.ind[d].type
                           /\ t.ind[d].entries = s.ind[d].entries
                           /\ t.ind[d].size >= s.ind[d].size
      /\ InUse(t.fds) = InUse(s.fds)
      /\ t.fds = [s.fds EXCEPT ![fd] = t.fds[fd]]
      /\ t.fds[fd].node = [s.fds[fd].node EXCEPT !.size = t.ind[i].size]

\* vfs_write, in append mode and out of it.
LEMMA WrittenSound ==
  ASSUME NEW s, StateOK(s), NEW fd \in InUse(s.fds), NEW v \in Vals, NEW k \in Counts
  PROVE  Wrote(s, WrittenBy(s, fd, v, k), fd, v, k)
<1> DEFINE t == WrittenBy(s, fd, v, k)
           f == s.fds[fd]
           i == f.node.inode
           pos == WritePos(f)
           end == (pos + k) % Word
           size == Grown(s.ind[i].size, end)
           offset == IF k > 0 THEN end ELSE pos
           known == IF k > 0 /\ offset > size THEN offset ELSE size
           after == [s.ind EXCEPT ![i] = WrittenInode(s.ind[i], v, pos, k)]
           g == [f EXCEPT !.node.size = known, !.offset = offset]
<1>1. s \in StateRecord /\ Sound(s.ind) /\ FdsOK(s.fds) /\ s.fds \in [Fds -> FdRecord]
      /\ s.ind \in [Inodes -> InodeRecord] /\ fd \in Fds /\ f.in_use
  BY DEF StateOK, FdsOK, Sound, InUse
<1>2. f \in FdRecord /\ f.node \in Node /\ f.node.type \in {"FILE", "DIR"}
  BY <1>1 DEF FdsOK, InUse
<1>3. i \in Inodes /\ f.node.size \in 0 .. Word - 1 /\ f.offset \in 0 .. Word - 1
  BY <1>2 DEF FdRecord, Node
<1>4. pos \in 0 .. Word - 1
  BY <1>3 DEF WritePos
<1>5. s.ind[i] \in InodeRecord /\ s.ind[i].size \in 0 .. Word - 1
  BY <1>1, <1>3 DEF InodeRecord
<1>6. k \in Nat
  BY Constants
<1>7. t = [ind |-> after, fds |-> [s.fds EXCEPT ![fd] = g], r |-> k, halt |-> s.halt]
  <2>1. t = [s EXCEPT
               !.ind[i].data = [u \in Units |-> IF u \in {(pos + j) % Word : j \in 0 .. k - 1}
                                                THEN v ELSE @[u]],
               !.ind[i].size = size,
               !.fds[fd].node.size = known,
               !.fds[fd].offset = offset,
               !.r = k]
    BY DEF WrittenBy
  <2>2. after = [s.ind EXCEPT
                   ![i].data = [u \in Units |-> IF u \in {(pos + j) % Word : j \in 0 .. k - 1}
                                                THEN v ELSE @[u]],
                   ![i].size = size]
    <3> DEFINE data == [u \in Units |-> IF u \in {(pos + j) % Word : j \in 0 .. k - 1}
                                        THEN v ELSE s.ind[i].data[u]]
    <3>1. WrittenInode(s.ind[i], v, pos, k) = [s.ind[i] EXCEPT !.data = data, !.size = size]
      BY <1>5 DEF WrittenInode
    <3> HIDE DEF data, size, i
    <3>2. [s.ind EXCEPT ![i].data = data, ![i].size = size]
          = [s.ind EXCEPT ![i] = [s.ind[i] EXCEPT !.data = data, !.size = size]]
      BY <1>1, <1>3, <1>5 DEF InodeRecord
    <3>3. QED
      BY <3>1, <3>2 DEF data
  <2> HIDE DEF t, after, size, known, offset, i, f
  <2>3. [s.fds EXCEPT ![fd].node.size = known, ![fd].offset = offset] = [s.fds EXCEPT ![fd] = g]
    BY <1>1, <1>2 DEF f, FdRecord
  <2> HIDE DEF g
  <2>4. QED
    BY <1>1, <2>1, <2>2, <2>3 DEF StateRecord
<1>8. known = size /\ size \in 0 .. Word - 1 /\ offset \in 0 .. Word - 1
  <2>1. end \in 0 .. Word - 1
    <3> HIDE DEF pos
    <3>1. QED
      BY <1>4, <1>6, Constants
  <2> HIDE DEF end, pos, i
  <2>2. QED
    BY <1>4, <1>5, <2>1, Constants DEF Grown
<1> HIDE DEF known, offset
<1>9. /\ g \in FdRecord /\ g.in_use /\ g.node = [f.node EXCEPT !.size = size]
      /\ g.node \in Node /\ g.node.type \in {"FILE", "DIR"}
  <2> HIDE DEF size, f
  <2>1. QED
    BY <1>1, <1>2, <1>8 DEF FdRecord, Node
<1>10. /\ Sound(after)
       /\ \A d \in Inodes : after[d].type = s.ind[d].type /\ after[d].entries = s.ind[d].entries
       /\ \A d \in Inodes \ {i} : after[d] = s.ind[d]
       /\ after[i].size = size
       /\ after[i].size >= s.ind[i].size
       /\ \A u \in Units : after[i].data[u] =
            IF u \in Reached(pos, k) THEN v ELSE s.ind[i].data[u]
  <2> HIDE DEF pos, i
  <2>1. QED
    BY <1>1, <1>3, <1>4, WriteSound DEF Reached
<1> HIDE DEF g, t, after, size, i
<1>11. /\ t.fds \in [Fds -> FdRecord] /\ t.fds[fd] = g
       /\ \A other \in Fds : other # fd => t.fds[other] = s.fds[other]
  BY <1>1, <1>7, <1>9
<1>12. FdsOK(t.fds) /\ InUse(t.fds) = InUse(s.fds)
  BY <1>1, <1>9, <1>11 DEF FdsOK, InUse
<1>13. StateOK(t)
  <2>1. after \in [Inodes -> InodeRecord]
    BY <1>10 DEF Sound
  <2>2. QED
    BY <1>1, <1>6, <1>7, <1>10, <1>11, <1>12, <2>1 DEF StateOK, StateRecord
<1>14. \A d \in Inodes : after[d].size >= s.ind[d].size
  <2>1. \A d \in Inodes : s.ind[d].size \in Int
    <3>1. SUFFICES ASSUME NEW d \in Inodes PROVE s.ind[d].size \in Int
      OBVIOUS
    <3>2. s.ind[d].size \in 0 .. Word - 1
      BY <1>1 DEF InodeRecord
    <3>3. QED
      BY <3>2, Constants
  <2>2. QED
    BY <1>10, <2>1
<1>15. t.ind = after /\ t.halt = s.halt /\ t.fds = [s.fds EXCEPT ![fd] = t.fds[fd]]
       /\ t.fds[fd].node = [f.node EXCEPT !.size = t.ind[i].size]
  BY <1>7, <1>9, <1>10, <1>11
<1>16. QED
  BY <1>3, <1>4, <1>10, <1>12, <1>13, <1>14, <1>15 DEF after, i, t, size, Wrote

\* A command leaves the descriptor table as it was: the descriptor that it
\* opened is free again and nothing else has changed there.
LEMMA CommandSound ==
  ASSUME NEW s, StateOK(s), NEW t, LeadsTo(s, t), s.halt = "no",
         t.halt = "no" /\ t.r # Fail => GotFd(s, t),
         t.halt # "no" \/ t.r = Fail => t.fds = s.fds /\ FilesKept(s.ind, t.ind),
         NEW v \in Vals, NEW k \in Counts
  PROVE  LET c == Command(t, v, k) IN
         /\ LeadsTo(s, c) /\ c.fds = s.fds
         /\ InUse(s.fds) = Fds => FilesKept(s.ind, c.ind)
<1> DEFINE c == Command(t, v, k)
           w == IF k = 0 THEN t ELSE WrittenBy(t, t.r, v, k)
<1>1. CASE t.r = Fail \/ t.halt # "no"
  BY <1>1 DEF Command
<1>2. CASE ~(t.r = Fail \/ t.halt # "no")
  <2>1. c = ClosedOne(w, t.r)
    BY <1>2 DEF Command
  <2>2. GotFd(s, t) /\ StateOK(t) /\ t.halt = "no"
    BY <1>2 DEF LeadsTo
  <2>3. t.r \in InUse(t.fds) /\ t.r \in Fds /\ t.r \notin InUse(s.fds)
    BY <2>2 DEF GotFd, InUse
  <2>4. /\ StateOK(w) /\ w.halt = t.halt
        /\ \A d \in Inodes : w.ind[d].type = t.ind[d].type
        /\ w.fds = [t.fds EXCEPT ![t.r] = w.fds[t.r]]
    <3>1. CASE k = 0
      <4>1. t.fds \in [Fds -> FdRecord]
        BY <2>2 DEF StateOK, FdsOK
      <4>2. w = t
        BY <3>1
      <4> HIDE DEF w
      <4>3. QED
        BY <2>2, <4>1, <4>2
    <3>2. CASE k # 0
      <4>1. w = WrittenBy(t, t.r, v, k)
        BY <3>2
      <4> HIDE DEF w
      <4>2. Wrote(t, w, t.r, v, k)
        BY <2>2, <2>3, <4>1, WrittenSound
      <4>3. QED
        BY <4>2 DEF Wrote
    <3>3. QED
      BY <3>1, <3>2
  <2> HIDE DEF c, w
  <2>5. StateOK(c) /\ c.ind = w.ind /\ c.halt = w.halt
        /\ c.fds = [w.fds EXCEPT ![t.r] = ClosedFd]
    BY <2>1, <2>3, <2>4, ClosedSound
  <2>6. c.fds = s.fds
    <3>1. s.fds \in [Fds -> FdRecord] /\ s.fds[t.r] = ClosedFd
      BY <2>3 DEF StateOK, FdsOK, InUse
    <3>2. t.fds = [s.fds EXCEPT ![t.r] = t.fds[t.r]]
      BY <2>2 DEF GotFd
    <3>3. \A other \in Fds : c.fds[other] = s.fds[other]
      BY <2>3, <2>4, <2>5, <3>1, <3>2
    <3>4. c.fds \in [Fds -> FdRecord]
      BY <2>5 DEF StateOK, FdsOK
    <3>5. QED
      BY <3>1, <3>3, <3>4
  <2>7. LeadsTo(s, c)
    BY <2>2, <2>4, <2>5 DEF LeadsTo, HaltOK, Grew
  <2>8. InUse(s.fds) # Fds
    BY <2>3
  <2>9. QED
    BY <2>6, <2>7, <2>8 DEF c
<1>3. QED
  BY <1>1, <1>2

-----------------------------------------------------------------------------
(* From an operation to a step *)

\* What a call does to the descriptor table: it changes positions, and what the
\* nodes of own know; or it takes a descriptor; or it gives one back.
Table(t, own) ==
  \/ /\ InUse(t.fds) = InUse(fd_table)
     /\ \A fd \in InUse(fd_table) \ own : t.fds[fd].node = fd_table[fd].node
     /\ \A fd \in own \cap InUse(fd_table) :
          t.fds[fd].node = [fd_table[fd].node EXCEPT
                              !.size = t.ind[fd_table[fd].node.inode].size]
  \/ own = {} /\ GotFd(S, t)
  \/ own = {} /\ \E fd \in InUse(fd_table) : t.fds = [fd_table EXCEPT ![fd] = ClosedFd]

\* A call that the invariant survives: inodes are allocated and freed, but change
\* their type in no other way, and with no descriptor left no file shrinks.
CallOK(t, own) ==
  /\ StateOK(t)
  /\ t.halt = "recursion" => CircleIn(t.ind)
  /\ \A i \in Inodes : \/ t.ind[i].type = inodes[i].type
                       \/ inodes[i].type = "FREE" \/ t.ind[i].type = "FREE"
  /\ Table(t, own)
  /\ InUse(fd_table) = Fds
     => \A i \in Inodes : inodes[i].type = "FILE" /\ t.ind[i].type = "FILE"
                          => t.ind[i].size >= inodes[i].size

\* The inode each descriptor stands for.
File == [fd \in Fds |-> IF fd_table[fd].in_use THEN fd_table[fd].node.inode ELSE None]

StepOK ==
  /\ Inv'
  /\ InUse(fd_table) = Fds
     => \A i \in Inodes : inodes[i].type = "FILE" /\ inodes'[i].type = "FILE"
                          => inodes'[i].size >= inodes[i].size
  /\ Promise!Next \/ File' = File

\* The parts of S.
LEMMA SParts ==
  ASSUME Inv, Ready
  PROVE  /\ StateOK(S) /\ S.ind = inodes /\ S.fds = fd_table /\ S.halt = "no" /\ S.r = 0
         /\ S = [ind |-> inodes, fds |-> fd_table, r |-> 0, halt |-> "no"]
<1>1. S.ind = inodes /\ S.fds = fd_table /\ S.halt = "no" /\ S.r = 0
      /\ S = [ind |-> inodes, fds |-> fd_table, r |-> 0, halt |-> "no"]
  BY DEF S, Ready
<1>2. S \in StateRecord
  BY <1>1 DEF StateRecord, Inv, Sound, FdsOK
<1>3. QED
  BY <1>1, <1>2 DEF StateOK, Inv

\* What descriptors know of their inodes stays true: of one that somebody else
\* has changed or freed, the ghosts tell.
LEMMA CommitCurrent ==
  ASSUME Inv, NEW t, NEW own, CallOK(t, own), Commit(t, own)
  PROVE  Current'
<1> DEFINE On(is) == {fd \in InUse(fd_table) : fd_table[fd].node.inode \in is}
           freed == {i \in Inodes : inodes[i].type # "FREE" /\ t.ind[i].type = "FREE"}
           changed == {i \in Inodes : t.ind[i].size # inodes[i].size
                                       \/ t.ind[i].data # inodes[i].data}
<1>1. /\ inodes' = t.ind /\ fd_table' = t.fds
      /\ stale' = (stale \cup On(freed)) \cap InUse(t.fds)
      /\ touched' = ((touched \cup On(changed)) \ own) \cap InUse(t.fds)
  BY DEF Commit
<1>2. SUFFICES ASSUME NEW fd \in InUse(t.fds)
               PROVE  /\ fd \notin stale' =>
                           t.ind[t.fds[fd].node.inode].type = t.fds[fd].node.type
                      /\ fd \notin touched' =>
                           t.ind[t.fds[fd].node.inode].size = t.fds[fd].node.size
  BY <1>1 DEF Current, InUse
<1> DEFINE f == t.fds[fd]
           g == fd_table[fd]
           i == g.node.inode
<1>3. fd \in Fds /\ stale \cup touched \subseteq InUse(fd_table)
      /\ fd_table \in [Fds -> FdRecord] /\ inodes \in [Inodes -> InodeRecord]
  BY DEF InUse, Inv, FdsOK, Sound
<1>4. ASSUME fd \in InUse(fd_table)
      PROVE  /\ i \in Inodes /\ g.node \in Node /\ g.node.type \in {"FILE", "DIR"}
             /\ fd \notin stale => inodes[i].type = g.node.type
             /\ fd \notin touched => inodes[i].size = g.node.size
  BY <1>4 DEF Inv, FdsOK, Node, Current
<1>5. ASSUME fd \in InUse(fd_table), fd \notin stale'
      PROVE  t.ind[i].type = g.node.type
  <2>1. fd \notin stale /\ i \notin freed
    BY <1>1, <1>5
  <2>2. inodes[i].type = g.node.type /\ inodes[i].type # "FREE" /\ i \in Inodes
    BY <1>4, <1>5, <2>1
  <2>3. t.ind[i].type # "FREE"
    BY <2>1, <2>2
  <2>4. QED
    BY <2>2, <2>3 DEF CallOK
<1>6. ASSUME fd \in InUse(fd_table), fd \notin touched', fd \notin own
      PROVE  t.ind[i].size = g.node.size
  <2>1. fd \notin touched /\ i \notin changed
    BY <1>1, <1>6
  <2>2. QED
    BY <1>4, <1>6, <2>1
<1> HIDE DEF On, freed, changed
<1>7. ASSUME fd \in InUse(fd_table), fd \notin own, f.node = g.node
      PROVE  /\ fd \notin stale' => t.ind[f.node.inode].type = f.node.type
             /\ fd \notin touched' => t.ind[f.node.inode].size = f.node.size
  BY <1>5, <1>6, <1>7
<1>8. CASE /\ InUse(t.fds) = InUse(fd_table)
           /\ \A x \in InUse(fd_table) \ own : t.fds[x].node = fd_table[x].node
           /\ \A x \in own \cap InUse(fd_table) :
                t.fds[x].node = [fd_table[x].node EXCEPT
                                   !.size = t.ind[fd_table[x].node.inode].size]
  <2>1. CASE fd \notin own
    BY <1>7, <1>8, <2>1
  <2>2. CASE fd \in own
    <3>1. f.node = [g.node EXCEPT !.size = t.ind[i].size]
      BY <1>8, <2>2
    <3>2. f.node.inode = i /\ f.node.type = g.node.type /\ f.node.size = t.ind[i].size
      BY <1>4, <1>8, <3>1 DEF Node
    <3>3. QED
      BY <1>5, <1>8, <3>2
  <2>3. QED
    BY <2>1, <2>2
<1>9. CASE own = {} /\ GotFd(S, t)
  <2>1. /\ t.r \in Fds /\ t.r \notin InUse(fd_table)
        /\ t.fds = [fd_table EXCEPT ![t.r] = t.fds[t.r]]
        /\ NodeCurrent(t.ind, t.fds[t.r])
    BY <1>9 DEF GotFd, S
  <2>2. CASE fd = t.r
    BY <2>1, <2>2 DEF NodeCurrent
  <2>3. CASE fd # t.r
    BY <1>3, <1>7, <1>9, <2>1, <2>3 DEF InUse
  <2>4. QED
    BY <2>2, <2>3
<1>10. CASE own = {} /\ \E x \in InUse(fd_table) : t.fds = [fd_table EXCEPT ![x] = ClosedFd]
  <2>1. PICK x \in InUse(fd_table) : t.fds = [fd_table EXCEPT ![x] = ClosedFd]
    BY <1>10
  <2>2. fd # x
    BY <1>3, <2>1 DEF InUse, ClosedFd
  <2>3. f = g /\ fd \in InUse(fd_table)
    BY <1>3, <2>1, <2>2 DEF InUse
  <2>4. QED
    BY <1>7, <1>10, <2>3
<1>11. QED
  BY <1>8, <1>9, <1>10 DEF CallOK, Table

\* A circle of links is one in the next state if the inodes are the same there.
LEMMA CircleStays ==
  ASSUME NEW ind, inodes' = ind, CircleIn(ind)
  PROVE  CircleIn(inodes)'
<1> DEFINE Leading(table, l, m, d, k) ==
             LET e == table[d].entries[k]
             IN  e.inode = m /\ \E j \in DOMAIN table[l].target : table[l].target[j] = e.name
<1>1. PICK links \in SUBSET {i \in Inodes : ind[i].type = "SYMLINK"} :
        /\ links # {}
        /\ \A l \in links : \E m \in links, d \in Inodes :
             \E k \in DOMAIN ind[d].entries : Leading(ind, l, m, d, k)
  BY DEF CircleIn
<1> HIDE DEF Leading
<1>2. \A l \in links : \E m \in links, d \in Inodes :
        \E k \in DOMAIN inodes'[d].entries : Leading(inodes', l, m, d, k)
  BY <1>1
<1>3. links \in SUBSET {i \in Inodes : inodes'[i].type = "SYMLINK"}
  BY <1>1
<1>4. QED
  BY <1>1, <1>2, <1>3 DEF CircleIn, Leading

\* A step that commits such a call keeps the invariant, harms no file when the
\* table is full, and is a step that OpenFiles allows.
LEMMA CommitOK ==
  ASSUME Inv, Ready, NEW t, NEW own, CallOK(t, own), RoomFor(t), Commit(t, own)
  PROVE  StepOK
<1>1. /\ inodes' = t.ind /\ fd_table' = t.fds /\ halted' = t.halt
      /\ calls' \in {calls, calls + 1}
      /\ stale' \cup touched' \subseteq InUse(t.fds)
  BY DEF Commit
<1>2. StateOK(t) /\ t \in StateRecord /\ Sound(t.ind) /\ FdsOK(t.fds)
  BY DEF CallOK, StateOK
<1>3. Inv'
  <2>1. Sound(inodes)' /\ FdsOK(fd_table)'
    BY <1>1, <1>2 DEF Sound, FdsOK, Listed, ListedOnce, Covered, At, InUse
  <2>2. \A i \in Inodes : Len(inodes'[i].entries) <= MaxEntries
    BY <1>1 DEF RoomFor
  <2>3. halted' \in {"no", "recursion", "wrecked"}
    BY <1>1, <1>2 DEF StateRecord
  <2>4. (stale \cup touched \subseteq InUse(fd_table))'
    BY <1>1 DEF InUse
  <2>5. calls' \in 0 .. MaxCalls
    <3>1. calls \in 0 .. MaxCalls /\ calls < MaxCalls
      BY DEF Inv, Ready
    <3>2. QED
      BY <1>1, <3>1, Constants
  <2>6. (halted = "recursion" => CircleIn(inodes))'
    <3>1. halted' = "recursion" => CircleIn(t.ind)
      BY <1>1 DEF CallOK
    <3>2. inodes' = t.ind
      BY <1>1
    <3>3. CircleIn(t.ind) => CircleIn(inodes)'
      BY <3>2, CircleStays
    <3>4. QED
      BY <3>1, <3>3
  <2>7. QED
    BY <2>1, <2>2, <2>3, <2>4, <2>5, <2>6, CommitCurrent DEF Inv
<1>4. InUse(fd_table) = Fds
      => \A i \in Inodes : inodes[i].type = "FILE" /\ inodes'[i].type = "FILE"
                           => inodes'[i].size >= inodes[i].size
  BY <1>1 DEF CallOK
<1>5. /\ fd_table \in [Fds -> FdRecord] /\ t.fds \in [Fds -> FdRecord]
      /\ \A fd \in InUse(fd_table) : fd \in Fds /\ fd_table[fd].node \in Node
                                     /\ fd_table[fd].node.inode \in Inodes
  BY <1>2 DEF Inv, FdsOK, Node, InUse
<1>6. File' = [fd \in Fds |-> IF t.fds[fd].in_use THEN t.fds[fd].node.inode ELSE None]
  BY <1>1 DEF File
<1>7. CASE /\ InUse(t.fds) = InUse(fd_table)
           /\ \A fd \in InUse(fd_table) \ own : t.fds[fd].node = fd_table[fd].node
           /\ \A fd \in own \cap InUse(fd_table) :
                t.fds[fd].node = [fd_table[fd].node EXCEPT
                                    !.size = t.ind[fd_table[fd].node.inode].size]
  <2>1. \A fd \in InUse(fd_table) : t.fds[fd].node.inode = fd_table[fd].node.inode
    <3>1. SUFFICES ASSUME NEW fd \in InUse(fd_table)
                   PROVE  t.fds[fd].node.inode = fd_table[fd].node.inode
      OBVIOUS
    <3>2. CASE fd \in own
      BY <1>5, <1>7, <3>2 DEF Node
    <3>3. CASE fd \notin own
      BY <1>7, <3>3
    <3>4. QED
      BY <3>2, <3>3
  <2>2. \A fd \in Fds : t.fds[fd].in_use = fd_table[fd].in_use
    BY <1>5, <1>7 DEF InUse, FdRecord
  <2>3. File' = File
    BY <1>6, <2>1, <2>2 DEF File, InUse
  <2>4. QED
    BY <1>3, <1>4, <2>3 DEF StepOK
<1>8. CASE GotFd(S, t)
  <2> DEFINE i == t.fds[t.r].node.inode
  <2>1. /\ t.r \in Fds /\ t.r \notin InUse(fd_table)
        /\ \A lower \in Fds : lower < t.r => lower \in InUse(fd_table)
        /\ t.fds = [fd_table EXCEPT ![t.r] = t.fds[t.r]] /\ t.fds[t.r].in_use
        /\ i \in Inodes
    BY <1>8 DEF GotFd, S, NodeCurrent
  <2>2. File[t.r] = None
    BY <2>1 DEF File, InUse
  <2>3. \A lower \in Fds : lower < t.r => File[lower] # None
    BY <1>5, <2>1, Constants DEF File, InUse
  <2>4. File' = [File EXCEPT ![t.r] = i]
    <3>1. \A fd \in Fds : fd # t.r => t.fds[fd] = fd_table[fd]
      BY <1>5, <2>1
    <3>2. QED
      BY <1>6, <2>1, <3>1 DEF File
  <2>5. Promise!Open(t.r, i)
    BY <2>2, <2>3, <2>4 DEF Promise!Open, File
  <2>6. Promise!Next
    BY <2>1, <2>5 DEF Promise!Next
  <2>7. QED
    BY <1>3, <1>4, <2>6 DEF StepOK
<1>9. CASE \E fd \in InUse(fd_table) : t.fds = [fd_table EXCEPT ![fd] = ClosedFd]
  <2>1. PICK fd \in InUse(fd_table) : t.fds = [fd_table EXCEPT ![fd] = ClosedFd]
    BY <1>9
  <2>2. fd \in Fds /\ File[fd] # None
    BY <1>5, Constants DEF File, InUse
  <2>3. File' = [File EXCEPT ![fd] = None]
    <3>1. t.fds[fd].in_use = FALSE
      BY <1>5, <2>1, <2>2 DEF ClosedFd
    <3>2. \A other \in Fds : other # fd => t.fds[other] = fd_table[other]
      BY <1>5, <2>1, <2>2
    <3>3. QED
      BY <1>6, <2>2, <3>1, <3>2 DEF File
  <2>4. Promise!Close(fd)
    BY <2>2, <2>3 DEF Promise!Close, File
  <2>5. Promise!Next
    BY <2>2, <2>4 DEF Promise!Next
  <2>6. QED
    BY <1>3, <1>4, <2>5 DEF StepOK
<1>10. QED
  BY <1>7, <1>8, <1>9 DEF CallOK, Table

\* A call that frees no inode and takes at most one descriptor is such a call.
LEMMA LeadsToCall ==
  ASSUME Inv, Ready, NEW t, LeadsTo(S, t),
         \/ GotFd(S, t)
         \/ t.fds = S.fds /\ (InUse(S.fds) = Fds => FilesKept(S.ind, t.ind))
  PROVE  CallOK(t, {})
<1>1. S.ind = inodes /\ S.fds = fd_table
  BY SParts
<1>2. StateOK(t) /\ (t.halt = "recursion" => CircleIn(t.ind)) /\ Grew(inodes, t.ind)
  BY <1>1 DEF LeadsTo, HaltOK
<1>3. \A i \in Inodes : \/ t.ind[i].type = inodes[i].type
                        \/ inodes[i].type = "FREE" \/ t.ind[i].type = "FREE"
  BY <1>2 DEF Grew
<1>4. Table(t, {})
  BY <1>1 DEF Table
<1>5. GotFd(S, t) => InUse(fd_table) # Fds
  BY <1>1 DEF GotFd
<1>6. InUse(fd_table) = Fds => FilesKept(inodes, t.ind)
  BY <1>1, <1>5
<1>7. \A i \in Inodes : inodes[i].size >= inodes[i].size
  <2>1. SUFFICES ASSUME NEW i \in Inodes PROVE inodes[i].size >= inodes[i].size
    OBVIOUS
  <2>2. inodes[i].size \in 0 .. Word - 1
    BY DEF Inv, Sound, InodeRecord
  <2>3. QED
    BY <2>2, Constants
<1>8. InUse(fd_table) = Fds
      => \A i \in Inodes : inodes[i].type = "FILE" /\ t.ind[i].type = "FILE"
                           => t.ind[i].size >= inodes[i].size
  BY <1>6, <1>7 DEF FilesKept
<1>9. QED
  BY <1>2, <1>3, <1>4, <1>8 DEF CallOK

\* A call that leaves the inodes alone is such a call.
LEMMA SameInodesCall ==
  ASSUME Inv, Ready, NEW t, StateOK(t), t.ind = inodes, t.halt # "recursion", Table(t, {})
  PROVE  CallOK(t, {})
<1>1. \A i \in Inodes : inodes[i].size >= inodes[i].size
  <2>1. SUFFICES ASSUME NEW i \in Inodes PROVE inodes[i].size >= inodes[i].size
    OBVIOUS
  <2>2. inodes[i].size \in 0 .. Word - 1
    BY DEF Inv, Sound, InodeRecord
  <2>3. QED
    BY <2>2, Constants
<1>2. QED
  BY <1>1 DEF CallOK

-----------------------------------------------------------------------------
(* The actions *)

\* What is performed is committed.
LEMMA PerformOK ==
  ASSUME Inv, NEW t, Ready => CallOK(t, {}), Perform(t)
  PROVE  StepOK
<1>1. Ready /\ RoomFor(t) /\ Commit(t, {})
  BY DEF Perform
<1>2. QED
  BY <1>1, CommitOK

\* vfs_open, with a full table, a refused node or an endless recursion as well.
LEMMA OpenOK ==
  ASSUME Inv, NEW path \in Paths, NEW flags \in Flags, Open(path, flags)
  PROVE  StepOK
<1>1. PICK oom \in Ooms : Perform(Opened(S, path, flags, oom))
  BY DEF Open
<1> DEFINE t == Opened(S, path, flags, oom)
<1>2. ASSUME Ready
      PROVE  CallOK(t, {})
  <2>1. StateOK(S) /\ S.halt = "no" /\ path \in Seq(Names)
    BY <1>2, SParts, PathTypes
  <2> HIDE DEF t
  <2>2. /\ LeadsTo(S, t)
        /\ t.halt = "no" /\ t.r # Fail => GotFd(S, t)
        /\ t.halt # "no" \/ t.r = Fail => t.fds = S.fds /\ FilesKept(S.ind, t.ind)
    BY <2>1, OpenedSound DEF t
  <2>3. QED
    BY <1>2, <2>2, LeadsToCall
<1> HIDE DEF t
<1>3. QED
  BY <1>1, <1>2, PerformOK DEF t

\* vfs_close.
LEMMA CloseOK ==
  ASSUME Inv, NEW fd \in Fds, Close(fd)
  PROVE  StepOK
<1> DEFINE t == ClosedOne(S, fd)
<1>1. fd \in InUse(fd_table) /\ Perform(t)
  BY DEF Close, InUse
<1> HIDE DEF t
<1>2. ASSUME Ready
      PROVE  CallOK(t, {})
  <2>1. StateOK(S) /\ S.ind = inodes /\ S.fds = fd_table /\ S.halt = "no"
    BY <1>2, SParts
  <2>2. /\ StateOK(t) /\ t.ind = inodes /\ t.halt = "no"
        /\ t.fds = [fd_table EXCEPT ![fd] = ClosedFd]
    BY <2>1, ClosedSound DEF t
  <2>3. QED
    BY <1>1, <1>2, <2>2, SameInodesCall DEF Table
<1>3. QED
  BY <1>1, <1>2, PerformOK

\* What moves a position is such a call.
LEMMA MovedCall ==
  ASSUME Inv, Ready, NEW t, NEW fd, Moved(S, t, fd)
  PROVE  CallOK(t, {})
<1>1. S.ind = inodes /\ S.fds = fd_table /\ S.halt = "no"
  BY SParts
<1>2. /\ StateOK(t) /\ t.ind = inodes /\ t.halt = "no"
      /\ InUse(t.fds) = InUse(fd_table)
      /\ \A other \in Fds : t.fds[other].node = fd_table[other].node
  BY <1>1 DEF Moved
<1>3. Table(t, {})
  BY <1>2 DEF Table, InUse
<1>4. QED
  BY <1>2, <1>3, SameInodesCall

\* vfs_read.
LEMMA ReadOK ==
  ASSUME Inv, NEW fd \in Fds, NEW n \in Counts, Read(fd, n)
  PROVE  StepOK
<1> DEFINE t == ReadBy(S, fd, n)
<1>1. fd \in InUse(fd_table) /\ Perform(t)
  BY DEF Read, InUse
<1> HIDE DEF t
<1>2. ASSUME Ready
      PROVE  CallOK(t, {})
  <2>1. StateOK(S) /\ fd \in InUse(S.fds) /\ n \in Nat
    BY <1>1, <1>2, SParts, Constants
  <2>2. Moved(S, t, fd)
    BY <2>1, ReadSound DEF t
  <2>3. QED
    BY <1>2, <2>2, MovedCall
<1>3. QED
  BY <1>1, <1>2, PerformOK

\* vfs_seek.
LEMMA SeekOK ==
  ASSUME Inv, NEW fd \in Fds, NEW n \in {0, 1, Word - 1}, Seek(fd, n)
  PROVE  StepOK
<1>1. fd_table[fd].in_use
  BY DEF Seek
<1>2. PICK from \in {0, fd_table[fd].offset, fd_table[fd].node.size} :
        Perform([S EXCEPT !.fds[fd].offset = (from + n) % Word])
  BY DEF Seek
<1> DEFINE offset == (from + n) % Word
           t == [S EXCEPT !.fds[fd].offset = offset]
<1>3. Perform(t)
  BY <1>2
<1>4. ASSUME Ready
      PROVE  CallOK(t, {})
  <2>1. StateOK(S) /\ S = [ind |-> inodes, fds |-> fd_table, r |-> 0, halt |-> "no"]
        /\ fd \in InUse(S.fds) /\ fd \in InUse(fd_table) /\ S.fds = fd_table
    BY <1>1, <1>4, SParts DEF InUse
  <2>2. fd_table \in [Fds -> FdRecord] /\ fd_table[fd].node \in Node
    BY <2>1 DEF Inv, FdsOK
  <2>3. offset \in 0 .. Word - 1
    <3>1. fd_table[fd].offset \in 0 .. Word - 1 /\ fd_table[fd].node.size \in 0 .. Word - 1
      BY <2>2 DEF FdRecord, Node
    <3>2. from \in Nat /\ n \in Nat
      BY <3>1, Constants
    <3>3. QED
      BY <3>2, Constants
  <2> HIDE DEF offset
  <2>4. t = [ind |-> S.ind, fds |-> [S.fds EXCEPT ![fd].offset = offset],
             r |-> 0, halt |-> S.halt]
    BY <2>1
  <2> HIDE DEF t
  <2>5. Moved(S, t, fd)
    BY <2>1, <2>3, <2>4, MovedSound
  <2>6. QED
    BY <1>4, <2>5, MovedCall
<1> HIDE DEF t
<1>5. QED
  BY <1>3, <1>4, PerformOK

\* vfs_write, through a descriptor whose inode may be somebody else's by now.
LEMMA WriteOK ==
  ASSUME Inv, NEW fd \in Fds, NEW v \in Vals, NEW k \in Counts, Write(fd, v, k)
  PROVE  StepOK
<1>1. Ready /\ fd \in InUse(fd_table)
  BY DEF Write, InUse
<1>2. /\ StateOK(S) /\ S.ind = inodes /\ S.fds = fd_table /\ S.halt = "no"
      /\ S = [ind |-> inodes, fds |-> fd_table, r |-> 0, halt |-> "no"]
  BY <1>1, SParts
<1>3. \A i \in Inodes : Len(inodes[i].entries) <= MaxEntries
  BY DEF Inv
<1>4. CASE inodes[fd_table[fd].node.inode].type = "DIR"
  <2> DEFINE t == [S EXCEPT !.halt = "wrecked"]
  <2>1. Commit(t, {})
    BY <1>4 DEF Write
  <2>2. t = [ind |-> inodes, fds |-> fd_table, r |-> 0, halt |-> "wrecked"]
    BY <1>2
  <2> HIDE DEF t
  <2>3. t \in StateRecord
    BY <1>2, <2>2 DEF StateOK, StateRecord
  <2>4. StateOK(t) /\ Table(t, {})
    BY <1>2, <2>2, <2>3 DEF StateOK, Table
  <2>5. CallOK(t, {})
    BY <1>1, <2>2, <2>4, SameInodesCall
  <2>6. RoomFor(t)
    BY <1>3, <2>2 DEF RoomFor
  <2>7. QED
    BY <1>1, <2>1, <2>5, <2>6, CommitOK
<1>5. CASE inodes[fd_table[fd].node.inode].type # "DIR"
  <2> DEFINE t == WrittenBy(S, fd, v, k)
  <2>1. Commit(t, {fd})
    BY <1>5 DEF Write
  <2>2. Wrote(S, t, fd, v, k)
    BY <1>1, <1>2, WrittenSound
  <2> HIDE DEF t
  <2>3. /\ StateOK(t) /\ t.halt = "no"
        /\ \A d \in Inodes : /\ t.ind[d].type = inodes[d].type
                             /\ t.ind[d].entries = inodes[d].entries
                             /\ t.ind[d].size >= inodes[d].size
        /\ InUse(t.fds) = InUse(fd_table)
        /\ t.fds = [fd_table EXCEPT ![fd] = t.fds[fd]]
        /\ t.fds[fd].node = [fd_table[fd].node EXCEPT
                               !.size = t.ind[fd_table[fd].node.inode].size]
    BY <1>2, <2>2 DEF Wrote
  <2>4. \A other \in InUse(fd_table) \ {fd} : t.fds[other].node = fd_table[other].node
    <3>1. fd_table \in [Fds -> FdRecord]
      BY DEF Inv, FdsOK
    <3>2. QED
      BY <2>3, <3>1 DEF InUse
  <2>5. Table(t, {fd})
    BY <2>3, <2>4 DEF Table
  <2>6. CallOK(t, {fd})
    BY <2>3, <2>5 DEF CallOK
  <2>7. RoomFor(t)
    BY <1>3, <2>3 DEF RoomFor
  <2>8. QED
    BY <1>1, <2>1, <2>6, <2>7, CommitOK
<1>6. QED
  BY <1>4, <1>5

\* vfs_create's siblings: a directory or a link under a name.
LEMMA CreateOK ==
  ASSUME Inv, NEW path \in Named, NEW inode \in InodeRecord, inode.type # "FREE",
         inode.entries = <<>>, inode.data = [u \in Units |-> Hole], NEW oom,
         Perform(Created(S, path, inode, oom))
  PROVE  StepOK
<1> DEFINE t == Created(S, path, inode, oom)
<1>1. ASSUME Ready
      PROVE  CallOK(t, {})
  <2>1. StateOK(S) /\ S.halt = "no" /\ path \in Seq(Names) /\ path # <<>>
    BY <1>1, SParts, PathTypes DEF Named
  <2> HIDE DEF t
  <2>2. LeadsTo(S, t) /\ t.fds = S.fds /\ FilesKept(S.ind, t.ind)
    BY <2>1, CreatedSound DEF t
  <2>3. QED
    BY <1>1, <2>2, LeadsToCall
<1>2. Perform(t)
  OBVIOUS
<1> HIDE DEF t
<1>3. QED
  BY <1>1, <1>2, PerformOK

\* vfs_mkdir.
LEMMA MkdirOK ==
  ASSUME Inv, NEW path \in Named, Mkdir(path)
  PROVE  StepOK
<1> DEFINE inode == NewInode("DIR", <<>>)
<1>1. PICK oom \in BOOLEAN : Perform(Created(S, path, inode, oom))
  BY DEF Mkdir
<1>2. inode \in InodeRecord /\ inode.type = "DIR" /\ inode.entries = <<>>
      /\ inode.data = [u \in Units |-> Hole]
  BY FreshInodes DEF Types
<1> HIDE DEF inode
<1>3. QED
  BY <1>1, <1>2, CreateOK

\* vfs_symlink; the text of a link counts as one unit.
LEMMA SymlinkOK ==
  ASSUME Inv, NEW path \in Named, NEW target \in Targets, Symlink(target, path)
  PROVE  StepOK
<1> DEFINE new == NewInode("SYMLINK", target)
           inode == [new EXCEPT !.size = 1]
<1>1. PICK oom \in BOOLEAN : Perform(Created(S, path, inode, oom))
  BY DEF Symlink
<1>2. new \in InodeRecord /\ new.type = "SYMLINK" /\ new.entries = <<>>
      /\ new.data = [u \in Units |-> Hole]
  BY FreshInodes DEF Types
<1>3. 1 \in 0 .. Word - 1
  BY Constants
<1> HIDE DEF new
<1>4. inode \in InodeRecord /\ inode.type = "SYMLINK" /\ inode.entries = <<>>
      /\ inode.data = [u \in Units |-> Hole]
  BY <1>2, <1>3 DEF InodeRecord
<1> HIDE DEF inode
<1>5. QED
  BY <1>1, <1>4, CreateOK

\* vfs_unlink: an inode is freed under whoever has it open, and no other type
\* changes.
LEMMA UnlinkOK ==
  ASSUME Inv, NEW path \in Named, Unlink(path)
  PROVE  StepOK
<1>1. PICK oom \in BOOLEAN : Perform(Unlinked(S, path, oom))
  BY DEF Unlink
<1> DEFINE dir == Resolve(inodes, Front(path), oom)
           name == Last(path)
           hit == Hit(inodes, dir, name)
           i == Find(inodes, dir, name)
           after == [[inodes EXCEPT ![dir].entries = RemoveAt(@, hit)] EXCEPT ![i] = FreeInode]
           t == Unlinked(S, path, oom)
<1>2. ASSUME Ready
      PROVE  CallOK(t, {})
  <2>1. /\ StateOK(S) /\ S.ind = inodes /\ S.fds = fd_table /\ S.halt = "no"
        /\ S = [ind |-> inodes, fds |-> fd_table, r |-> 0, halt |-> "no"]
        /\ Sound(inodes) /\ Front(path) \in Seq(Names) /\ path \in Seq(Names)
    BY <1>2, SParts, PathTypes DEF Inv
  <2>2. dir \in Results(inodes)
    BY <2>1, ResolveSound
  <2>3. t = IF dir = Loop THEN Hung(S)
            ELSE IF dir = None THEN Returning(S, Fail)
            ELSE IF inodes[dir].type # "DIR" \/ i = None THEN Returning(S, Fail)
            ELSE [S EXCEPT !.ind = after, !.r = 0]
    BY <2>1 DEF Unlinked
  <2>4. dir = Loop => CircleIn(inodes)
    BY <2>1, ResolveHangs
  <2> HIDE DEF dir, name, hit, t
  <2>5. CASE dir = Loop
    <3>1. /\ StateOK(t) /\ t.halt = "recursion" /\ t.fds = S.fds /\ t.ind = S.ind
          /\ Grew(S.ind, S.ind) /\ FilesKept(S.ind, S.ind)
      BY <2>1, <2>3, <2>5, Refused
    <3>2. LeadsTo(S, t) /\ FilesKept(S.ind, t.ind)
      BY <2>1, <2>4, <2>5, <3>1 DEF LeadsTo, HaltOK
    <3>3. QED
      BY <1>2, <3>1, <3>2, LeadsToCall
  <2>6. CASE dir # Loop /\ (dir = None \/ inodes[dir].type # "DIR" \/ i = None)
    <3>1. t = Returning(S, Fail)
      BY <2>3, <2>6
    <3>2. LeadsTo(S, t) /\ t.fds = S.fds /\ FilesKept(S.ind, t.ind)
      BY <2>1, <3>1, Refused
    <3>3. QED
      BY <1>2, <3>2, LeadsToCall
  <2>7. CASE dir # Loop /\ dir # None /\ inodes[dir].type = "DIR" /\ i # None
    <3>1. dir \in Inodes
      BY <2>2, <2>7 DEF Results, Stops
    <3>2. /\ i = At(inodes, dir, hit) /\ Hits(inodes, dir, name) # {}
          /\ i \in Inodes \ {Root}
      BY <2>1, <2>7, <3>1, FindSound DEF hit
    <3>3. inodes \in [Inodes -> InodeRecord]
      BY <2>1 DEF Sound
    <3>4. hit \in DOMAIN inodes[dir].entries
      BY <3>1, <3>2, <3>3, HitFound DEF hit
    <3> HIDE DEF i
    <3>5. Sound(after)
      <4>1. after = [[inodes EXCEPT ![dir].entries = RemoveAt(@, hit)]
                       EXCEPT ![At(inodes, dir, hit)] = FreeInode]
        BY <3>2
      <4> HIDE DEF after
      <4>2. QED
        BY <2>1, <3>1, <3>4, <4>1, EntryRemoved
    <3>6. /\ after[i] = FreeInode
          /\ \A d \in Inodes : d # i /\ d # dir => after[d] = inodes[d]
          /\ dir # i => after[dir] = [inodes[dir] EXCEPT !.entries = RemoveAt(@, hit)]
      BY <3>1, <3>2, <3>3
    <3>7. dir # i => after[dir].type = "DIR"
      BY <2>7, <3>1, <3>3, <3>6 DEF InodeRecord
    <3> HIDE DEF after
    <3>8. t = [ind |-> after, fds |-> fd_table, r |-> 0, halt |-> "no"]
      BY <2>1, <2>3, <2>7
    <3>9. StateOK(t)
      <4>1. after \in [Inodes -> InodeRecord]
        BY <3>5 DEF Sound
      <4>2. QED
        BY <2>1, <3>5, <3>8, <4>1 DEF StateOK, StateRecord
    <3>10. \A d \in Inodes : \/ t.ind[d].type = inodes[d].type
                             \/ inodes[d].type = "FREE" \/ t.ind[d].type = "FREE"
      BY <2>7, <3>6, <3>7, <3>8, FreshInodes
    <3>11. Table(t, {})
      BY <3>8 DEF Table
    <3>12. ASSUME NEW d \in Inodes, inodes[d].type = "FILE", t.ind[d].type = "FILE"
           PROVE  t.ind[d].size >= inodes[d].size
      <4>1. d # dir /\ d # i
        BY <2>7, <3>6, <3>8, <3>12, FreshInodes
      <4>2. inodes[d].size \in 0 .. Word - 1
        BY <3>3 DEF InodeRecord
      <4>3. QED
        BY <3>6, <3>8, <4>1, <4>2, Constants
    <3>13. QED
      BY <3>8, <3>9, <3>10, <3>11, <3>12 DEF CallOK
  <2>8. QED
    BY <2>5, <2>6, <2>7
<1>3. Perform(t)
  BY <1>1
<1> HIDE DEF t
<1>4. QED
  BY <1>2, <1>3, PerformOK

\* vfs_stat, vfs_readdir, vfs_readlink and ls change nothing, but may hang.
LEMMA LookOK ==
  ASSUME Inv, NEW path \in Paths, Look(path)
  PROVE  StepOK
<1> DEFINE t == IF Resolve(inodes, path, FALSE) = Loop THEN Hung(S) ELSE S
<1>1. Perform(t)
  BY DEF Look
<1>2. ASSUME Ready
      PROVE  CallOK(t, {})
  <2>1. /\ StateOK(S) /\ S.ind = inodes /\ S.halt = "no"
        /\ Sound(inodes) /\ path \in Seq(Names)
    BY <1>2, SParts, PathTypes DEF Inv
  <2>2. Resolve(inodes, path, FALSE) = Loop => CircleIn(inodes)
    BY <2>1, ResolveHangs
  <2>3. /\ StateOK(Hung(S)) /\ Hung(S).halt = "recursion"
        /\ Hung(S).fds = S.fds /\ Hung(S).ind = S.ind
        /\ Grew(S.ind, S.ind) /\ FilesKept(S.ind, S.ind)
    BY <2>1, Refused
  <2>4. LeadsTo(S, t) /\ t.fds = S.fds /\ FilesKept(S.ind, t.ind)
    BY <2>1, <2>2, <2>3 DEF LeadsTo, HaltOK
  <2> HIDE DEF t
  <2>5. QED
    BY <1>2, <2>4, LeadsToCall
<1> HIDE DEF t
<1>3. QED
  BY <1>1, <1>2, PerformOK

\* A shell command is such a call, and leaves the descriptor table as it was.
LEMMA CommandCall ==
  ASSUME Inv, Ready, NEW path \in Named, NEW flags, NEW oom, NEW v \in Vals, NEW k \in Counts
  PROVE  LET c == Command(Opened(S, path, flags, oom), v, k) IN
         CallOK(c, {}) /\ c.fds = fd_table
<1> DEFINE t == Opened(S, path, flags, oom)
           c == Command(t, v, k)
<1>1. StateOK(S) /\ S.fds = fd_table /\ S.halt = "no" /\ path \in Seq(Names)
  BY SParts, PathTypes
<1> HIDE DEF t
<1>2. /\ LeadsTo(S, t)
      /\ t.halt = "no" /\ t.r # Fail => GotFd(S, t)
      /\ t.halt # "no" \/ t.r = Fail => t.fds = S.fds /\ FilesKept(S.ind, t.ind)
  BY <1>1, OpenedSound DEF t
<1> HIDE DEF c
<1>3. /\ LeadsTo(S, c) /\ c.fds = S.fds
      /\ InUse(S.fds) = Fds => FilesKept(S.ind, c.ind)
  BY <1>1, <1>2, CommandSound DEF c
<1>4. CallOK(c, {})
  BY <1>3, LeadsToCall
<1>5. QED
  BY <1>1, <1>3, <1>4 DEF c, t

\* Whichever command it is: a good step that leaves every descriptor as it was.
LEMMA CommandOK ==
  ASSUME Inv, NEW path \in Named,
         \/ Cat(path) \/ Touch(path)
         \/ \E v \in Vals, k \in Counts : WriteFile(path, v, k)
  PROVE  StepOK /\ fd_table' = fd_table
<1>1. 0 \in Counts
  BY Constants DEF Counts
<1>2. \E flags, oom : \E v \in Vals, k \in Counts :
        Perform(Command(Opened(S, path, flags, oom), v, k))
  <2>1. CASE Cat(path)
    BY <1>1, <2>1 DEF Cat
  <2>2. CASE Touch(path)
    BY <1>1, <2>2 DEF Touch
  <2>3. CASE \E v \in Vals, k \in Counts : WriteFile(path, v, k)
    BY <2>3 DEF WriteFile
  <2>4. QED
    BY <2>1, <2>2, <2>3
<1>3. PICK flags, oom : \E v \in Vals, k \in Counts :
             Perform(Command(Opened(S, path, flags, oom), v, k))
  BY <1>2
<1>4. PICK v \in Vals, k \in Counts : Perform(Command(Opened(S, path, flags, oom), v, k))
  BY <1>3
<1> DEFINE c == Command(Opened(S, path, flags, oom), v, k)
<1>5. Ready => CallOK(c, {}) /\ c.fds = fd_table
  BY CommandCall
<1> HIDE DEF c
<1>6. Perform(c)
  BY <1>4 DEF c
<1>7. StepOK
  BY <1>5, <1>6, PerformOK
<1>8. fd_table' = c.fds /\ Ready
  BY <1>6 DEF Perform, Commit
<1>9. QED
  BY <1>5, <1>7, <1>8

-----------------------------------------------------------------------------
(* The invariant *)

\* The mounted file system has a root directory and nothing else.
LEMMA InitOK == Init => Inv
<1> SUFFICES ASSUME Init PROVE Inv
  OBVIOUS
<1> DEFINE root == NewInode("DIR", <<>>)
<1>1. /\ root \in InodeRecord /\ root.type = "DIR" /\ root.entries = <<>>
      /\ root.data = [u \in Units |-> Hole]
      /\ FreeInode \in InodeRecord /\ FreeInode.entries = <<>>
      /\ FreeInode.data = [u \in Units |-> Hole]
  BY FreshInodes DEF Types
<1> HIDE DEF root
<1>2. inodes = [i \in Inodes |-> IF i = Root THEN root ELSE FreeInode]
  BY DEF Init, root
<1>3. /\ inodes \in [Inodes -> InodeRecord]
      /\ \A i \in Inodes : inodes[i].entries = <<>> /\ inodes[i].data = [u \in Units |-> Hole]
      /\ inodes[Root].type = "DIR"
  BY <1>1, <1>2, Constants
<1>4. Sound(inodes)
  BY <1>3 DEF Sound, Listed, ListedOnce, Covered
<1>5. \A i \in Inodes : Len(inodes[i].entries) <= MaxEntries
  <2>1. Len(<<>>) = 0
    OBVIOUS
  <2>2. QED
    BY <1>3, <2>1, Constants
<1>6. fd_table = [fd \in Fds |-> ClosedFd] /\ ClosedFd \in FdRecord /\ ~ClosedFd.in_use
  <2>1. 0 \in 0 .. Word - 1
    BY Constants
  <2>2. QED
    BY <2>1 DEF Init, ClosedFd, FdRecord
<1>7. FdsOK(fd_table) /\ InUse(fd_table) = {}
  BY <1>6 DEF FdsOK, InUse
<1>8. halted = "no" /\ stale = {} /\ touched = {} /\ calls \in 0 .. MaxCalls
  BY Constants DEF Init
<1>9. QED
  BY <1>4, <1>5, <1>7, <1>8 DEF Inv, Current

\* Every step keeps the invariant, harms no file when the table is full, and is
\* one that OpenFiles allows.
LEMMA NextOK ==
  ASSUME Inv, [Next]_vars
  PROVE  StepOK
<1>1. ASSUME UNCHANGED vars
      PROVE  StepOK
  <2>1. /\ inodes' = inodes /\ fd_table' = fd_table /\ halted' = halted
        /\ stale' = stale /\ touched' = touched /\ calls' = calls
    BY <1>1 DEF vars
  <2>2. Inv'
    <3>1. Sound(inodes)' /\ FdsOK(fd_table)'
      BY <2>1 DEF Inv, Sound, Listed, ListedOnce, Covered, At, FdsOK, InUse
    <3>2. (stale \cup touched \subseteq InUse(fd_table))' /\ Current'
      BY <2>1 DEF Inv, InUse, Current
    <3>3. halted = "recursion" => CircleIn(inodes)'
      BY <2>1, CircleStays DEF Inv
    <3>4. \A i \in Inodes : Len(inodes'[i].entries) <= MaxEntries
      BY <2>1 DEF Inv
    <3>5. halted' \in {"no", "recursion", "wrecked"} /\ calls' \in 0 .. MaxCalls
      BY <2>1 DEF Inv
    <3>6. QED
      BY <2>1, <3>1, <3>2, <3>3, <3>4, <3>5 DEF Inv
  <2>3. File' = File
    BY <2>1 DEF File
  <2>4. \A i \in Inodes : inodes'[i].size >= inodes[i].size
    <3>1. SUFFICES ASSUME NEW i \in Inodes PROVE inodes[i].size >= inodes[i].size
      BY <2>1
    <3>2. inodes[i].size \in 0 .. Word - 1
      BY DEF Inv, Sound, InodeRecord
    <3>3. QED
      BY <3>2, Constants
  <2>5. QED
    BY <2>2, <2>3, <2>4 DEF StepOK
<1>2. ASSUME NEW fd \in Fds, NEW v \in Vals, NEW k \in Counts, SysWrite(fd, v, k)
      PROVE  StepOK
  BY <1>1, <1>2, WriteOK DEF SysWrite
<1>3. CASE Next
  BY <1>2, <1>3, OpenOK, CloseOK, ReadOK, WriteOK, SeekOK, MkdirOK, SymlinkOK, UnlinkOK,
     LookOK, CommandOK DEF Next
<1>4. QED
  BY <1>1, <1>3

\* The invariant: the inode table is sound, open descriptors are in order and
\* know their inodes unless somebody else has been at them, and the kernel hangs
\* in front of a circle of links only.
THEOREM Invariance == Spec => []Inv
<1>1. Inv /\ [Next]_vars => Inv'
  BY NextOK DEF StepOK
<1>2. QED
  BY InitOK, <1>1, PTL DEF Spec

-----------------------------------------------------------------------------
(* The properties *)

\* Every variable has its type (the inode table and fd_table of kernel/vfs.c).
THEOREM TypeCorrect == Spec => []TypeOK
<1>1. Inv => TypeOK
  <2> SUFFICES ASSUME Inv PROVE TypeOK
    OBVIOUS
  <2>1. inodes \in [Inodes -> InodeRecord] /\ FdsOK(fd_table)
    BY DEF Inv, Sound
  <2>2. ASSUME NEW i \in Inodes
        PROVE  /\ inodes[i].type \in Types
               /\ \A k \in DOMAIN inodes[i].entries : inodes[i].entries[k] \in Entry
               /\ inodes[i].size \in 0 .. Word - 1
               /\ inodes[i].target \in Targets \cup {<<>>}
               /\ inodes[i].data \in [Units -> Vals \cup {Hole}]
    <3>1. inodes[i] \in InodeRecord
      BY <2>1
    <3>2. inodes[i].entries \in Seq(Entry)
      BY <3>1 DEF InodeRecord
    <3>3. \A k \in DOMAIN inodes[i].entries : inodes[i].entries[k] \in Entry
      BY <3>2
    <3>4. QED
      BY <3>1, <3>3 DEF InodeRecord
  <2>3. QED
    BY <2>1, <2>2 DEF Inv, TypeOK, FdsOK, FdRecord
<1>2. QED
  BY Invariance, <1>1, PTL

\* Whatever is done through old descriptors and with doubled names, every entry
\* leads to an allocated inode, and no inode has two (dorifs_unlink, dorifs_mkdir).
THEOREM EntriesSoundHolds == Spec => []EntriesSound
<1>1. Inv => EntriesSound
  <2> SUFFICES ASSUME Inv PROVE EntriesSound
    OBVIOUS
  <2> DEFINE places == {p \in Inodes \X (1 .. MaxEntries) :
                          p[2] \in DOMAIN inodes[p[1]].entries}
             There(p) == inodes[p[1]].entries[p[2]].inode
  <2>1. Listed(inodes) /\ ListedOnce(inodes)
    BY DEF Inv, Sound
  <2>2. \A p \in places : There(p) = At(inodes, p[1], p[2])
    BY DEF At
  <2>3. \A p \in places : inodes[There(p)].type # "FREE"
    BY <2>1, <2>2 DEF Listed
  <2>4. \A p, q \in places : There(p) = There(q) => p = q
    BY <2>1, <2>2 DEF ListedOnce
  <2>5. QED
    BY <2>3, <2>4 DEF EntriesSound
<1>2. QED
  BY Invariance, <1>1, PTL

\* No data lies behind the recorded end of a file, also after seeks and writes
\* that wrap around (dorifs_vfs_write).
THEOREM SizeCoversDataHolds == Spec => []SizeCoversData
<1>1. Inv => SizeCoversData
  BY DEF Inv, Sound, Covered, SizeCoversData
<1>2. QED
  BY Invariance, <1>1, PTL

\* Until its file is unlinked, a descriptor stands for the kind of inode it was
\* opened on, and never for a link (vfs_open, dorifs_unlink).
THEOREM DescriptorsKeepTheirFileHolds == Spec => []DescriptorsKeepTheirFile
<1>1. Inv => DescriptorsKeepTheirFile
  BY DEF Inv, FdsOK, Current, DescriptorsKeepTheirFile
<1>2. QED
  BY Invariance, <1>1, PTL

\* The recursion of vfs_resolve_path runs away only where links lead in a circle.
THEOREM HangsOnlyOnCircleHolds == Spec => []HangsOnlyOnCircle
<1>1. Inv => HangsOnlyOnCircle
  BY DEF Inv, CircleIn, HangsOnlyOnCircle, LinksInCircle
<1>2. QED
  BY Invariance, <1>1, PTL

\* With no descriptor left, no open damages the file it was meant for (vfs_open
\* looks for a descriptor before it truncates).
THEOREM FullTableHarmlessHolds == Spec => FullTableHarmless
<1>1. Inv /\ [Next]_vars =>
        (InUse(fd_table) = Fds
         => \A i \in Inodes :
              inodes[i].type = "FILE" /\ inodes'[i].type = "FILE"
              => inodes'[i].size >= inodes[i].size)
  BY NextOK DEF StepOK
<1>2. QED
  BY Invariance, <1>1, PTL DEF Spec, FullTableHarmless

\* A shell command closes what it opens, on every path through it (cmd_cat,
\* cmd_touch and cmd_write of the shell).
THEOREM CommandsCloseTheirsHolds == Spec => CommandsCloseTheirs
<1>1. Inv /\ [Next]_vars =>
        (InUse(fd_table') # InUse(fd_table)
         => ~ \E path \in Named :
                \/ Cat(path) \/ Touch(path)
                \/ \E v \in Vals, k \in Counts : WriteFile(path, v, k))
  BY CommandOK
<1>2. QED
  BY Invariance, <1>1, PTL DEF Spec, CommandsCloseTheirs

\* An append through a descriptor whose inode nobody else has changed since
\* lengthens the file by what was written and overwrites nothing (vfs_write).
THEOREM AppendAtEndHolds == Spec => AppendAtEnd
<1> DEFINE Appends ==
      \A fd \in InUse(fd_table) \ touched :
        fd_table[fd].append /\ fd_table'[fd] # fd_table[fd] =>
          LET i == fd_table[fd].node.inode IN
          \A v \in Vals, k \in 1 .. MaxWrite :
            inodes[i].size + k < Word /\ Write(fd, v, k)
            => \/ halted' = "wrecked"
               \/ /\ inodes'[i].size = inodes[i].size + k
                  /\ \A u \in Units :
                       inodes[i].data[u] # Hole => inodes'[i].data[u] = inodes[i].data[u]
<1>1. Inv /\ [Next]_vars => Appends
  <2> SUFFICES ASSUME Inv, NEW fd \in InUse(fd_table) \ touched, fd_table[fd].append,
                      NEW v \in Vals, NEW k \in 1 .. MaxWrite,
                      inodes[fd_table[fd].node.inode].size + k < Word, Write(fd, v, k)
               PROVE  LET i == fd_table[fd].node.inode IN
                      \/ halted' = "wrecked"
                      \/ /\ inodes'[i].size = inodes[i].size + k
                         /\ \A u \in Units :
                              inodes[i].data[u] # Hole => inodes'[i].data[u] = inodes[i].data[u]
    BY Zenon
  <2> DEFINE i == fd_table[fd].node.inode
             size == inodes[i].size
             t == WrittenBy(S, fd, v, k)
  <2>1. Ready /\ k \in Counts /\ k \in Nat /\ k > 0 /\ Word \in Nat
    BY Constants DEF Write, Counts
  <2>2. StateOK(S) /\ S.ind = inodes /\ S.fds = fd_table /\ S.halt = "no"
    BY <2>1, SParts
  <2>3. CASE inodes[i].type = "DIR"
    <3>1. Commit([S EXCEPT !.halt = "wrecked"], {})
      BY <2>3 DEF Write
    <3>2. halted' = "wrecked"
      BY <3>1 DEF Commit, S
    <3>3. QED
      BY <3>2
  <2>4. CASE inodes[i].type # "DIR"
    <3>1. Commit(t, {fd})
      BY <2>4 DEF Write
    <3>2. Wrote(S, t, fd, v, k)
      BY <2>1, <2>2, WrittenSound
    <3> HIDE DEF t
    <3>3. WritePos(fd_table[fd]) = size
      BY DEF Inv, Current, WritePos
    <3>4. /\ i \in Inodes /\ size \in 0 .. Word - 1
          /\ t.ind[i].size = Grown(size, (size + k) % Word)
          /\ \A u \in Units : t.ind[i].data[u] =
               IF u \in Reached(size, k) THEN v ELSE inodes[i].data[u]
      <4> DEFINE pos == WritePos(fd_table[fd])
      <4>1. /\ i \in Inodes /\ pos \in 0 .. Word - 1
            /\ t.ind[i].size = Grown(inodes[i].size, (pos + k) % Word)
            /\ \A u \in Units : t.ind[i].data[u] =
                 IF u \in Reached(pos, k) THEN v ELSE inodes[i].data[u]
        BY <2>2, <3>2 DEF Wrote
      <4>2. pos = size
        BY <3>3
      <4> HIDE DEF pos, i, size
      <4>3. QED
        BY <4>1, <4>2 DEF size
    <3>5. inodes' = t.ind
      BY <3>1 DEF Commit
    <3> DEFINE hit == Reached(size, k)
    <3>6. /\ t.ind[i].size = Grown(size, (size + k) % Word)
          /\ \A u \in Units : t.ind[i].data[u] = IF u \in hit THEN v ELSE inodes[i].data[u]
      BY <3>4
    <3> HIDE DEF size
    <3>7. Grown(size, (size + k) % Word) = size + k
      <4>1. (size + k) % Word = size + k
        BY <2>1, <3>4 DEF size
      <4>2. QED
        BY <2>1, <3>4, <4>1 DEF Grown
    <3>8. \A u \in hit : u >= size
      <4>1. SUFFICES ASSUME NEW j \in 0 .. k - 1 PROVE (size + j) % Word >= size
        BY DEF Reached
      <4>2. size + j \in 0 .. Word - 1
        BY <2>1, <3>4 DEF size
      <4>3. QED
        BY <2>1, <3>4, <4>2
    <3>9. \A u \in Units : inodes[i].data[u] # Hole => ~(u >= size)
      <4>1. SUFFICES ASSUME NEW u \in Units, inodes[i].data[u] # Hole PROVE ~(u >= size)
        OBVIOUS
      <4>2. u < size /\ u \in Nat
        BY <3>4, <4>1, Constants DEF Inv, Sound, Covered, size, Units
      <4>3. QED
        BY <2>1, <3>4, <4>2
    <3>10. QED
      BY <3>5, <3>6, <3>7, <3>8, <3>9 DEF size
  <2>5. QED
    BY <2>3, <2>4
<1>2. QED
  BY Invariance, <1>1, PTL DEF Spec, AppendAtEnd

\* The descriptor table implements OpenFiles: a descriptor stands for the inode it
\* was opened on until its close, and the lowest free one is handed out next
\* (fd_alloc, vfs_open, vfs_close).
THEOREM KeepsPromiseHolds == Spec => KeepsPromise
<1>1. Init => Promise!Init
  BY DEF Init, Promise!Init, ClosedFd
<1>2. Inv /\ [Next]_vars => [Promise!Next]_[fd \in Fds |-> IF fd_table[fd].in_use
                                                           THEN fd_table[fd].node.inode
                                                           ELSE None]
  BY NextOK DEF StepOK, File
<1>3. QED
  BY Invariance, <1>1, <1>2, PTL DEF Spec, KeepsPromise, Promise!Spec

=============================================================================
