-------------------------------- MODULE Mouse --------------------------------
(***************************************************************************)
(* drivers/mouse.c: IRQ12 collects three bytes and decodes them.  The      *)
(* interrupts of the first two only put them aside, where nobody looks     *)
(* before the third is there, and are left out.  What a packet says may be *)
(* anything, since a byte that is lost shifts all packets behind it.       *)
(*                                                                         *)
(* The screen has one row.                                                 *)
(***************************************************************************)
EXTENDS Integers

CONSTANTS
  ScreenW,
  Moves,         \* the movements of a packet
  MaxPackets     \* bound: packets

ASSUME MouseAssumption == ScreenW \in Nat \ {0} /\ Moves \subseteq Int /\ MaxPackets \in Nat

VARIABLES
  mouse,         \* position and left button
  packets        \* bound: packets so far

mousevars == <<mouse, packets>>

\* What three bytes say: whether bit 3 of the first is set, the left button, the
\* overflow bits, the movement.
Packet == [sync : BOOLEAN, left : BOOLEAN, over : BOOLEAN, dx : Moves]

MouseInit == mouse = [x |-> ScreenW \div 2, left |-> FALSE] /\ packets = 0

\* Mutant: the position may leave the screen on the right.
ClampedLow(x) == IF x < 0 THEN 0 ELSE x

Clamped(x) == IF x < 0 THEN 0 ELSE IF x >= ScreenW THEN ScreenW - 1 ELSE x

\* The callback is called for packets in step and without overflow; the button
\* is taken from the others, too, if they are in step.
Notifies(p) == p.sync /\ ~p.over

Decoded(p) ==
  IF ~p.sync THEN mouse
  ELSE IF p.over THEN [mouse EXCEPT !.left = p.left]
  ELSE [x |-> Clamped(mouse.x + p.dx), left |-> p.left]

\* mouse_irq_handler with the last byte of one of the packets ps, up to the
\* callback.
Complete(ps) ==
  /\ packets < MaxPackets
  /\ packets' = packets + 1
  /\ mouse' \in {Decoded(p) : p \in ps}
=============================================================================
