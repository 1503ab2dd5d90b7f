------------------------------- MODULE MCDoriFS -------------------------------
(* Model-checking instances of DoriFS: a disk of a few inodes and blocks. *)
EXTENDS DoriFS, TLC

NameSymmetry == Permutations(Names)
=============================================================================
