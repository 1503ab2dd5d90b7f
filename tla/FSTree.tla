-------------------------------- MODULE FSTree --------------------------------
(***************************************************************************)
(* What DoriFS promises its callers of names: the entries that paths lead  *)
(* along form a tree, an entry comes or goes at one instant, and nothing   *)
(* else, no write of a file, crash or restart, changes the tree.  Two      *)
(* entries of a directory may have the same name: nobody forbids it.       *)
(***************************************************************************)
EXTENDS Naturals, FiniteSets

CONSTANTS Root, Inodes, Names

VARIABLE tree    \* the entries that some path leads along

Entry == [dir : Inodes, name : Names, inode : Inodes, type : {"FILE", "DIR", "SYMLINK"}]

\* The directories that entries t lead to from the root.
DirsOf(t) ==
  LET within[n \in 0 .. Cardinality(Inodes)] ==
        IF n = 0 THEN {Root}
        ELSE UNION {{i} \cup {e.inode : e \in {x \in t : x.type = "DIR" /\ x.dir = i}} :
                    i \in within[n - 1]}
  IN  within[Cardinality(Inodes)]

\* What is left of t when other entries are gone.
Attached(t) == LET dirs == DirsOf(t) IN {e \in t : e.dir \in dirs}

Init == tree = {}

\* An inode that is nowhere in the tree gets an entry in a directory of it.
Enter(e) ==
  /\ e \in Entry /\ e.dir \in DirsOf(tree)
  /\ e.inode # Root /\ \A f \in tree : f.inode # e.inode
  /\ tree' = tree \cup {e}

\* An entry goes, with all that lies below it ...
Remove(e) == tree' = Attached(tree \ {e})

\* ... which, for a directory but the root, may go an instant earlier.
Clear(dir) == dir # Root /\ tree' = Attached({f \in tree : f.dir # dir})

Next ==
  \/ \E e \in tree' \ tree : Enter(e)
  \/ \E e \in tree \ tree' : Remove(e) \/ Clear(e.dir)

Spec == Init /\ [][Next]_tree
=============================================================================
