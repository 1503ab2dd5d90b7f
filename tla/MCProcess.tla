------------------------------ MODULE MCProcess ------------------------------
(* Model-checking instances of Process: three or four slots, a few pids. *)
EXTENDS Process

\* process_block as drivers use it elsewhere: on the process that calls it.
BlockSelf == {"RUNNING"}
BlockNobody == {}
=============================================================================
