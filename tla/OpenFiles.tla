------------------------------ MODULE OpenFiles ------------------------------
(***************************************************************************)
(* What the holder of a file descriptor may rely on: a number that is      *)
(* handed out is the lowest free one, and from then until it is closed it  *)
(* stands for one and the same inode, whatever happens to other            *)
(* descriptors and to names.                                               *)
(***************************************************************************)
EXTENDS Naturals

CONSTANTS
  Fds,       \* 0 .. VFS_MAX_OPEN_FILES - 1
  Inodes,    \* inode numbers
  Closed     \* the value of a descriptor that is not in use

VARIABLE file    \* per descriptor, the inode it stands for, or Closed

Init == file = [fd \in Fds |-> Closed]

Open(fd, i) ==
  /\ file[fd] = Closed
  /\ \A lower \in Fds : lower < fd => file[lower] # Closed
  /\ file' = [file EXCEPT ![fd] = i]

Close(fd) ==
  /\ file[fd] # Closed
  /\ file' = [file EXCEPT ![fd] = Closed]

Next == \E fd \in Fds : Close(fd) \/ \E i \in Inodes : Open(fd, i)

Spec == Init /\ [][Next]_file

=============================================================================
