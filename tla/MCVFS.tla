-------------------------------- MODULE MCVFS --------------------------------
(* A root and two more inodes, paths of up to two names, two descriptors. *)
EXTENDS VFS, TLC

CONSTANTS a, b
MCNames == {a, b}
MCPaths == {<<>>, <<a>>, <<b>>, <<a, b>>, <<b, a>>}
MCTargets == {<<>>, <<a>>, <<b>>}
Symmetry == Permutations({a, b})
=============================================================================
