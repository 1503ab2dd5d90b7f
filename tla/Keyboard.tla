------------------------------ MODULE Keyboard ------------------------------
(***************************************************************************)
(* drivers/keyboard.c: IRQ1 puts every scancode into one ring and the      *)
(* characters of keys newly pressed into another; the main flow takes from *)
(* them without waiting.  The handler runs with interrupts off, the reader *)
(* with interrupts on: it fetches an entry in one step and moves the tail  *)
(* in another.                                                             *)
(*                                                                         *)
(* A key is a model value or a name; a scancode is a key with a direction. *)
(***************************************************************************)
EXTENDS Naturals, Sequences

CONSTANTS
  Keys,            \* the keys of the keyboard
  Shift, Ctrl, Caps, \* the modifiers
  CKey,            \* the key that, with Ctrl, gives Ctrl+C
  CharKeys,        \* the keys with a character
  KB_BUFFER_SIZE,
  MaxKeys          \* bound: interrupts of the keyboard

ASSUME KeyboardAssumption ==
  /\ CharKeys \subseteq Keys \ {Shift, Ctrl, Caps}
  /\ KB_BUFFER_SIZE \in Nat \ {0} /\ MaxKeys \in Nat

VARIABLES
  chars, codes,    \* kb_buffer and sc_buffer
  key_held,        \* keys that are down
  caps_lock,
  char, code,      \* what the main flow has fetched
  irqs, typed      \* bound: interrupts so far; ghost: characters among them

kbvars == <<chars, codes, key_held, caps_lock, char, code, irqs, typed>>

Codes == [key : Keys, up : BOOLEAN]
NoCode == [key |-> "none", up |-> FALSE]

\* A character: its key, and whether it is the shifted one.
Chars == [key : CharKeys, shifted : BOOLEAN] \cup {[key |-> "^C", shifted |-> FALSE]}
NoChar == [key |-> "none", shifted |-> FALSE]
CtrlC == [key |-> "^C", shifted |-> FALSE]

Places == 0 .. KB_BUFFER_SIZE - 1
Ring(items, none) ==
  [cells : [Places -> items \cup {none}], head : Places, tail : Places, blank : {none}]

NewRing(none) == [cells |-> [i \in Places |-> none], head |-> 0, tail |-> 0, blank |-> none]

Empty(r) == r.head = r.tail

\* Mutant: a full ring is not recognised.
FullNever(r) == FALSE

Full(r) == (r.head + 1) % KB_BUFFER_SIZE = r.tail

\* kb_buffer_push and sc_buffer_push: a full ring loses the key.
Push(r, x) ==
  IF Full(r) THEN r
  ELSE [r EXCEPT !.cells[r.head] = x, !.head = (@ + 1) % KB_BUFFER_SIZE]

\* Mutant: the reader leaves the entry where it is.
DroppedNot(r) == r

\* The tail is moved on.  (What stays in the cell is never read again.)
Dropped(r) == [r EXCEPT !.cells[r.tail] = r.blank, !.tail = (@ + 1) % KB_BUFFER_SIZE]

\* The entries of a ring, oldest first.
Content(r) ==
  [i \in 1 .. (r.head + KB_BUFFER_SIZE - r.tail) % KB_BUFFER_SIZE |->
     r.cells[(r.tail + i - 1) % KB_BUFFER_SIZE]]

KeyboardInit ==
  /\ chars = NewRing(NoChar) /\ codes = NewRing(NoCode)
  /\ key_held = {} /\ caps_lock = FALSE
  /\ char = NoChar /\ code = NoCode
  /\ irqs = 0 /\ typed = 0

\* The character of a key: Caps Lock turns Shift around, for digits, too.
CharOf(k) ==
  IF Ctrl \in key_held /\ k = CKey THEN CtrlC
  ELSE [key |-> k, shifted |-> (Shift \in key_held) # caps_lock]

\* keyboard_callback for a key going down, also for its repetitions.
Press(k) ==
  /\ irqs < MaxKeys /\ irqs' = irqs + 1
  /\ codes' = Push(codes, [key |-> k, up |-> FALSE])
  /\ key_held' = key_held \cup {k}
  /\ caps_lock' = IF k = Caps /\ k \notin key_held THEN ~caps_lock ELSE caps_lock
  /\ IF k \in CharKeys \ key_held
       THEN chars' = Push(chars, CharOf(k)) /\ typed' = typed + 1
       ELSE UNCHANGED <<chars, typed>>
  /\ UNCHANGED <<char, code>>

\* keyboard_callback for a key going up.
Release(k) ==
  /\ irqs < MaxKeys /\ irqs' = irqs + 1
  /\ k \in key_held
  /\ codes' = Push(codes, [key |-> k, up |-> TRUE])
  /\ key_held' = key_held \ {k}
  /\ UNCHANGED <<chars, caps_lock, char, code, typed>>

\* keyboard_get_scancode fetches an entry (or finds none), then moves the tail.
FetchCode ==
  /\ ~Empty(codes)
  /\ code' = codes.cells[codes.tail]
  /\ UNCHANGED <<chars, codes, key_held, caps_lock, char, irqs, typed>>

DropCode ==
  /\ codes' = Dropped(codes)
  /\ code' = NoCode
  /\ UNCHANGED <<chars, key_held, caps_lock, char, irqs, typed>>

\* keyboard_get_char likewise; its caller keeps c.
FetchChar ==
  /\ ~Empty(chars)
  /\ char' = chars.cells[chars.tail]
  /\ UNCHANGED <<chars, codes, key_held, caps_lock, code, irqs, typed>>

DropChar(c) ==
  /\ chars' = Dropped(chars)
  /\ char' = c
  /\ UNCHANGED <<codes, key_held, caps_lock, code, irqs, typed>>

\* The caller is through with the character.
ForgetChar ==
  /\ char' = NoChar
  /\ UNCHANGED <<chars, codes, key_held, caps_lock, code, irqs, typed>>
=============================================================================
