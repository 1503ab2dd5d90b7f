SPECIFICATION Spec
CONSTANTS
  Keys <- MCKeys
  Shift = "shift"
  Ctrl = "ctrl"
  Caps = "caps"
  CKey = "a"
  CharKeys <- MCCharKeys
  KB_BUFFER_SIZE = 3
  MaxKeys = 4
  Enter = "enter"
  Backspace = "backspace"
  Space = "space"
  CMD_BUFFER_SIZE = 4
INVARIANTS
  RunsTheLine
