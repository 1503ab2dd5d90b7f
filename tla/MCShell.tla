------------------------------ MODULE MCShell ------------------------------
(* The shell with two keys to type, for TLC. *)
EXTENDS Shell

MCKeys == {"a", "enter", "backspace", "space", "ctrl"}
MCCharKeys == {"a", "enter", "backspace", "space"}
============================================================================
