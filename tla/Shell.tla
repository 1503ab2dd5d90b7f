-------------------------------- MODULE Shell --------------------------------
(***************************************************************************)
(* The line editor of the kernel shell (kshell_run), which the kernel      *)
(* falls back to without a frame buffer, and the way execute_command finds *)
(* the command in the buffer.  It polls the keyboard driver without ever   *)
(* waiting; an empty ring reads as the character 0.  What the commands do  *)
(* to the file system is in VFS.                                           *)
(***************************************************************************)
EXTENDS Keyboard, SequencesExt

CONSTANTS
  Enter, Backspace,  \* keys with a character
  Space,             \* another one
  CMD_BUFFER_SIZE    \* places of the line buffer, one for the final zero

VARIABLES
  cmd_buffer,    \* the cells up to cmd_pos; those behind are zero
  polled,        \* the main flow is between the read and the move of the tail
  line,          \* ghost: what was typed since the last prompt, without zeros
  entered,       \* ghost: that line at the last Enter
  ran            \* what execute_command was left with at the last Enter

vars == <<kbvars, cmd_buffer, polled, line, entered, ran>>

Init ==
  /\ KeyboardInit
  /\ cmd_buffer = <<>> /\ polled = FALSE
  /\ line = <<>> /\ entered = <<>> /\ ran = <<>>

KeyIrq ==
  /\ \E k \in Keys : Press(k) \/ Release(k)
  /\ UNCHANGED <<cmd_buffer, polled, line, entered, ran>>

\* The leading blanks are skipped, and a zero ends the string.
Command(cells) ==
  LET ended == SelectInSeq(cells, LAMBDA c : c = NoChar)
      string == IF ended = 0 THEN cells ELSE SubSeq(cells, 1, ended - 1)
      first == SelectInSeq(string, LAMBDA c : c.key # Space) IN
  IF first = 0 THEN <<>> ELSE SubSeq(string, first, Len(string))

\* What kshell_run does with a character: Enter runs the line, Backspace takes
\* its last character, Ctrl+C drops it, and all else is stored while it fits.
EnterLine ==
  /\ ran' = Command(cmd_buffer)
  /\ entered' = Command(line)
  /\ cmd_buffer' = <<>> /\ line' = <<>>

Edit(cells, c) ==
  IF c = CtrlC THEN <<>>
  ELSE IF c.key = Backspace THEN IF cells = <<>> THEN cells ELSE Front(cells)
  ELSE IF Len(cells) < CMD_BUFFER_SIZE - 1 THEN Append(cells, c) ELSE cells

Takes(c) ==
  \/ c.key = Enter /\ EnterLine
  \/ /\ c.key # Enter
     /\ cmd_buffer' = Edit(cmd_buffer, c)
     /\ line' = IF c = NoChar THEN line ELSE Edit(line, c)
     /\ UNCHANGED <<entered, ran>>

\* keyboard_get_char finds nothing: the loop takes the 0 for a character.
PollEmpty ==
  /\ ~polled /\ Empty(chars)
  /\ Takes(NoChar)
  /\ UNCHANGED <<kbvars, polled>>

PollChar ==
  /\ ~polled /\ FetchChar
  /\ polled' = TRUE
  /\ UNCHANGED <<cmd_buffer, line, entered, ran>>

TakeChar ==
  /\ polled /\ DropChar(NoChar)
  /\ Takes(char)
  /\ polled' = FALSE

Next == KeyIrq \/ PollEmpty \/ PollChar \/ TakeChar

Spec == Init /\ [][Next]_vars

-----------------------------------------------------------------------------
(* Properties *)

\* The shell runs the line that was typed.  keyboard.c:8 says that the buffer is
\* there "for kshell blocking reads"; the reads do not block, every poll of an
\* empty buffer stores a 0, and a command behind a 0 is not seen.
RunsTheLine == ran = entered
=============================================================================
