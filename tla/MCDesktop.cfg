SPECIFICATION Spec
CONSTANTS
  Keys <- MCKeys
  Shift = "shift"
  Ctrl = "ctrl"
  Caps = "caps"
  CKey = "c"
  CharKeys <- MCCharKeys
  KB_BUFFER_SIZE = 3
  MaxKeys = 3
  ScreenW = 6
  Moves <- MCMoves
  MaxPackets = 3
  Windows <- MCWindows
  Terminal = "terminal"
  Home <- MCHome
  Null = Null
  OKI_MAX_WINDOWS = 2
  Workspaces = {0, 1}
  WorkspaceKey <- MCWorkspaceKey
  Enter = "enter"
  Backspace = "backspace"
  TERM_ROWS = 2
  TERM_INPUT_MAX = 1
  FramePause = 1
  MaxInputs = 3
INVARIANTS
  TypeOK
  FocusSound
  ShownOrAsked
PROPERTIES
  KeysInOrder
  EverythingServed
  
