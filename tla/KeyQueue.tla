------------------------------ MODULE KeyQueue ------------------------------
(***************************************************************************)
(* What a key buffer promises to the loop that reads it: keys come out in  *)
(* the order in which they were pressed, each once, and a key is lost only *)
(* when the buffer is full at the time it is pressed.                      *)
(***************************************************************************)
EXTENDS Naturals, Sequences

CONSTANTS Items, Nothing, Capacity

VARIABLES
  queue,         \* keys not read yet, oldest first
  offered,       \* how many keys were pressed so far
  got,           \* what the reader has in its hand
  reading        \* the reader has it, and the queue still, too

vars == <<queue, offered, got, reading>>

Init == queue = <<>> /\ offered = 0 /\ got = Nothing /\ ~reading

\* A key is pressed.
Offer(x) ==
  /\ queue' = IF Len(queue) < Capacity THEN Append(queue, x) ELSE queue
  /\ offered' = offered + 1
  /\ UNCHANGED <<got, reading>>

\* The reader takes the oldest key ...
Read ==
  /\ ~reading /\ reading'
  /\ queue # <<>>
  /\ got' = Head(queue)
  /\ UNCHANGED <<queue, offered>>

\* ... then gives its place free, and at last forgets it.
Drop ==
  /\ reading /\ ~reading'
  /\ queue # <<>> /\ got = Head(queue)
  /\ queue' = Tail(queue)
  /\ got' \in {got, Nothing}
  /\ UNCHANGED offered

Forget == ~reading /\ got' = Nothing /\ UNCHANGED <<queue, offered, reading>>

Next == (\E x \in Items : Offer(x)) \/ Read \/ Drop \/ Forget

Spec == Init /\ [][Next]_vars
=============================================================================
