------------------------------- MODULE Desktop -------------------------------
(***************************************************************************)
(* The Oki desktop (kernel/oki.c): the main flow creates the two windows,  *)
(* then reads keys, types into the terminal, switches workspaces and draws *)
(* frames; the mouse driver calls oki_handle_mouse from inside IRQ12, at   *)
(* any point of the main flow.  Handlers run with interrupts off, one step *)
(* each.  The main flow takes a step for everything it reads of what IRQ12 *)
(* changes and another for what it then writes; only the drawing of the    *)
(* windows and of the panel is one step.                                   *)
(*                                                                         *)
(* A window is one row of three cells: titlebar, close button, client      *)
(* area.  Abstracted: pixels, titles, the panel's clock; the ticks since   *)
(* the last frame are counted up to the pause between two frames.          *)
(***************************************************************************)
EXTENDS Keyboard, Mouse, SequencesExt

CONSTANTS
  Windows,         \* the window structures, in the order of their creation
  Terminal,        \* the first of them
  Home,            \* where each window is created
  Null,
  OKI_MAX_WINDOWS,
  Workspaces,      \* the workspaces, and the key of each
  WorkspaceKey,
  Enter, Backspace,
  TERM_ROWS, TERM_INPUT_MAX,
  FramePause,      \* ticks between two frames
  MaxInputs        \* bound: interrupts of keyboard and mouse together

ASSUME DesktopAssumption ==
  /\ OKI_MAX_WINDOWS \in Nat /\ Windows \in Seq(DOMAIN Home)
  /\ Len(Windows) \in 1 .. OKI_MAX_WINDOWS /\ Windows[1] = Terminal
  /\ \A i, j \in DOMAIN Windows : Windows[i] = Windows[j] => i = j
  /\ Home \in [DOMAIN Home -> 0 .. ScreenW - 1] /\ Null \notin DOMAIN Home
  /\ 0 \in Workspaces
  /\ {TERM_ROWS, TERM_INPUT_MAX, FramePause} \subseteq Nat \ {0} /\ MaxInputs \in Nat

VARIABLES
  desktop,         \* the structure of that name
  win,             \* the window structures
  term,            \* g_term
  pc,              \* what the main flow is at
  slot,            \* an index into desktop.windows, or a count, that it has read
  made,            \* windows oki_init is through with
  age,             \* ticks since the last frame was begun
  drawn,           \* compose: what is in the back buffer but the cursor
  shown,           \* what is on the screen
  missed,          \* ghost: a redraw was asked for while a frame was composed
  overtaken        \* ghost: IRQ12 closed a window under the main flow's slot

deskvars == <<desktop, win, term, pc, slot, made, age, drawn, shown, missed, overtaken>>
vars == <<kbvars, mousevars, deskvars>>

Ids == {Windows[i] : i \in DOMAIN Windows}
Slots == 0 .. OKI_MAX_WINDOWS - 1

\* desktop.windows[i], where nothing was ever written beyond the last.
WindowAt(d, i) == IF i \in Slots THEN d.windows[i] ELSE Null

Listed(d) == {i \in 0 .. d.window_count - 1 : d.windows[i] # Null}

-----------------------------------------------------------------------------
(* The picture *)

\* Windows of other workspaces are not drawn.
OnWorkspace(d, i) == d.windows[i] # Null /\ win[d.windows[i]].ws = d.current_workspace

\* draw_panel names the focused window.
PanelTitle(d) ==
  IF d.focused_window \in 0 .. d.window_count - 1 THEN d.windows[d.focused_window] ELSE Null

\* oki_compose and draw_window: the windows of the workspace, back to front, the
\* focused one last, and the terminal's text where it has a surface.
Picture ==
  LET d == desktop
      Look(i) == [id |-> d.windows[i], x |-> win[d.windows[i]].x,
                  text |-> IF d.windows[i] = term.win /\ win[term.win].surface
                             THEN <<term.lines, term.input>> ELSE <<>>] IN
  [windows |-> [i \in {j \in 0 .. d.window_count - 1 : OnWorkspace(d, j)} |-> Look(i)],
   title |-> PanelTitle(d),
   workspace |-> d.current_workspace]

Screen == <<Picture, mouse.x>>

-----------------------------------------------------------------------------
(* The terminal *)

\* term_println, with term_scroll_up.
Printed(lines, l) == Append(IF Len(lines) = TERM_ROWS THEN Tail(lines) ELSE lines, l)

\* term_execute: the echo, and then what the command prints, or no line at all
\* after "clear".  Which word is a command is left open.
Outputs(lines, cmd) ==
  LET echoed == Printed(lines, cmd) IN
  IF cmd = <<>> THEN {echoed} ELSE {Printed(echoed, <<"reply">>), <<>>}

\* The terminal after oki_handle_char(c).
Typed(c) ==
  IF c.key = Enter THEN {[term EXCEPT !.lines = ls, !.input = <<>>] : ls \in Outputs(term.lines, term.input)}
  ELSE IF c.key = Backspace
    THEN {IF term.input = <<>> THEN term ELSE [term EXCEPT !.input = Front(@)]}
  ELSE IF c = CtrlC THEN {[term EXCEPT !.lines = Printed(@, <<"^C">>), !.input = <<>>]}
  ELSE {IF Len(term.input) < TERM_INPUT_MAX THEN [term EXCEPT !.input = Append(@, c)] ELSE term}

\* term_render: a terminal with a surface is drawn to it, to be shown.
Rendered(d) == IF win[Terminal].surface THEN [d EXCEPT !.needs_redraw = TRUE] ELSE d

-----------------------------------------------------------------------------
(* Windows *)

\* Mutant: an index past the end stays there.
RefocusNot(f, n) == f

\* oki_destroy_window: an index past the end goes to the last window.
Refocus(f, n) == IF f >= n THEN n - 1 ELSE f

\* oki_destroy_window of the window at i.
Destroyed(d, i) ==
  LET n == d.window_count - 1 IN
  [d EXCEPT !.windows = [j \in Slots |-> IF j < i \/ j > n THEN @[j]
                                         ELSE IF j = n THEN Null ELSE @[j + 1]],
            !.window_count = n,
            !.focused_window = Refocus(@, n)]

Part(w, x) == x - win[w].x

\* The windows under the mouse.
Hit == {i \in Listed(desktop) :
          OnWorkspace(desktop, i) /\ Part(desktop.windows[i], mouse'.x) \in 0 .. 2}

Dragging == {i \in Listed(desktop) : win[desktop.windows[i]].dragging}

\* Mutant: moving the pointer asks for no redraw.
AsksDraggingOnly(d) == IF Dragging # {} THEN [d EXCEPT !.needs_redraw = TRUE] ELSE d

Asks(d) == [d EXCEPT !.needs_redraw = TRUE]

\* oki_handle_mouse: a button that is up ends all dragging ...
ButtonUp ==
  /\ ~mouse'.left
  /\ win' = [w \in Ids |-> IF \E i \in Listed(desktop) : desktop.windows[i] = w
                             THEN [win[w] EXCEPT !.dragging = FALSE] ELSE win[w]]
  /\ desktop' = Asks(desktop)

\* ... while it is down the window being dragged follows the mouse ...
Drag ==
  /\ mouse'.left /\ Dragging # {}
  /\ win' = [win EXCEPT ![desktop.windows[Min(Dragging)]].x = mouse'.x]
  /\ desktop' = Asks(desktop)

\* ... and without one the first window from the end of the list that is under
\* the mouse is closed, or gets the focus and, at its titlebar, is taken.
Click ==
  /\ mouse'.left /\ Dragging = {} /\ Hit # {}
  /\ LET i == Max(Hit)
         w == desktop.windows[i]
         part == Part(w, mouse'.x) IN
     /\ desktop' = Asks(IF part = 1 THEN Destroyed(desktop, i)
                        ELSE [desktop EXCEPT !.focused_window = Min({j \in Listed(desktop) : desktop.windows[j] = w})])
     /\ win' = [win EXCEPT ![w].dragging = @ \/ part = 0]

ClickNowhere ==
  /\ mouse'.left /\ Dragging = {} /\ Hit = {}
  /\ desktop' = Asks(desktop)
  /\ UNCHANGED win

OkiHandleMouse == ButtonUp \/ Drag \/ Click \/ ClickNowhere

-----------------------------------------------------------------------------
(* Interrupts *)

\* Mutant: the flow sleeps on.
WakesNot == UNCHANGED pc

\* An interrupt ends a hlt.
Wakes == pc' = IF pc = "hlt" THEN "codes" ELSE pc

Composing == pc \in {"cursor", "clear"}
Holding == pc \in {"insert", "switch"}

KeyIrq ==
  /\ irqs + packets < MaxInputs
  /\ \E k \in Keys : Press(k) \/ Release(k)
  /\ Wakes
  /\ UNCHANGED <<mousevars, desktop, win, term, slot, made, age, drawn, shown, missed, overtaken>>

\* Packets that the desktop hears nothing of.
MouseQuiet ==
  /\ irqs + packets < MaxInputs
  /\ Complete({p \in Packet : ~Notifies(p)})
  /\ Wakes
  /\ UNCHANGED <<kbvars, desktop, win, term, slot, made, age, drawn, shown, missed, overtaken>>

MouseIrq ==
  /\ irqs + packets < MaxInputs
  /\ Complete({p \in Packet : Notifies(p)})
  /\ OkiHandleMouse
  /\ Wakes
  /\ missed' = (missed \/ Composing)
  /\ overtaken' = (overtaken \/ (Holding /\ desktop'.window_count < desktop.window_count))
  /\ UNCHANGED <<kbvars, term, slot, made, age, drawn, shown>>

Tick ==
  /\ age' = IF age < FramePause THEN age + 1 ELSE age
  /\ Wakes
  /\ UNCHANGED <<kbvars, mousevars, desktop, win, term, slot, made, drawn, shown, missed, overtaken>>

-----------------------------------------------------------------------------
(* The main flow *)

Init ==
  /\ KeyboardInit /\ MouseInit
  /\ desktop = [windows |-> [i \in Slots |-> Null], window_count |-> 0, focused_window |-> -1,
                current_workspace |-> 0, needs_redraw |-> TRUE]
  /\ win = [w \in Ids |-> [x |-> Home[w], ws |-> 0, dragging |-> FALSE, surface |-> FALSE]]
  /\ term = [win |-> Null, lines |-> <<>>, input |-> <<>>]
  /\ pc = "create" /\ slot = 0 /\ made = 0
  /\ age = 0
  /\ drawn = <<>> /\ shown = Screen
  /\ missed = FALSE /\ overtaken = FALSE

\* oki_create_window takes the structure and the surface from the heap, which
\* may refuse, and reads window_count.  (Nothing depends on the other window's
\* surface.)
CreateWindow ==
  /\ pc = "create"
  /\ made < Len(Windows)
  /\ LET w == Windows[made + 1] IN
     \/ /\ desktop.window_count < OKI_MAX_WINDOWS
        /\ \E surface \in (IF w = Terminal THEN BOOLEAN ELSE {TRUE}) :
             win' = [win EXCEPT ![w] = [@ EXCEPT !.surface = surface, !.ws = desktop.current_workspace]]
        /\ slot' = desktop.window_count
        /\ pc' = "insert"
        /\ UNCHANGED made
     \/ made' = made + 1 /\ UNCHANGED <<win, slot, pc>>
  /\ UNCHANGED <<kbvars, mousevars, desktop, term, age, drawn, shown, missed, overtaken>>

\* It enters the window into the list.
InsertWindow ==
  /\ pc = "insert"
  /\ desktop' = [desktop EXCEPT !.windows[slot] = Windows[made + 1],
                                !.focused_window = slot,
                                !.window_count = slot + 1,
                                !.needs_redraw = TRUE]
  /\ made' = made + 1
  /\ slot' = 0
  /\ pc' = IF Windows[made + 1] = Terminal THEN "greet" ELSE "create"
  /\ UNCHANGED <<kbvars, mousevars, win, term, age, drawn, shown, missed, overtaken>>

\* oki_init writes a greeting to the terminal.
Greet ==
  /\ pc = "greet"
  /\ term' = [win |-> Terminal, lines |-> Printed(<<>>, <<"welcome">>), input |-> <<>>]
  /\ desktop' = Rendered(desktop)
  /\ pc' = "create"
  /\ UNCHANGED <<kbvars, mousevars, win, slot, made, age, drawn, shown, missed, overtaken>>

\* oki_run's first frame.
FirstFrame ==
  /\ pc = "create" /\ made = Len(Windows)
  /\ pc' = "first"
  /\ drawn' = Picture
  /\ UNCHANGED <<kbvars, mousevars, desktop, win, term, slot, made, age, shown, missed, overtaken>>

FirstCursor ==
  /\ pc = "first"
  /\ shown' = <<drawn, mouse.x>> /\ drawn' = <<>>
  /\ age' = 0
  /\ pc' = "codes"
  /\ UNCHANGED <<kbvars, mousevars, desktop, win, term, slot, made, missed, overtaken>>

\* The loop of oki_run looks for a scancode ...
PollCode ==
  /\ pc = "codes"
  /\ \/ FetchCode /\ pc' = "key"
     \/ Empty(codes) /\ pc' = "chars" /\ UNCHANGED kbvars
  /\ UNCHANGED <<mousevars, desktop, win, term, slot, made, age, drawn, shown, missed, overtaken>>

\* ... and hands it to oki_handle_key: only the workspace keys do anything.
OtherKey ==
  /\ pc = "key"
  /\ ~\E ws \in Workspaces : code = [key |-> WorkspaceKey[ws], up |-> FALSE]
  /\ DropCode
  /\ pc' = "chars"
  /\ UNCHANGED <<mousevars, desktop, win, term, slot, made, age, drawn, shown, missed, overtaken>>

\* Mutant: the scan takes a window of any workspace.
FoundAnywhere(d) == Listed(d)

\* What oki_switch_workspace's scan may find.
Found(d) == {i \in Listed(d) : OnWorkspace(d, i)}

\* oki_switch_workspace looks for a window on the workspace, from the end of the
\* list ...
SwitchWorkspace ==
  /\ pc = "key"
  /\ \E ws \in Workspaces :
       LET d == [desktop EXCEPT !.current_workspace = ws, !.focused_window = -1] IN
       /\ code = [key |-> WorkspaceKey[ws], up |-> FALSE]
       /\ desktop' = d
       /\ slot' = IF Found(d) = {} THEN -1 ELSE Max(Found(d))
  /\ DropCode
  /\ pc' = "switch"
  /\ UNCHANGED <<mousevars, win, term, made, age, drawn, shown, missed, overtaken>>

\* ... and stores its index.
SwitchFocus ==
  /\ pc = "switch"
  /\ desktop' = [desktop EXCEPT !.focused_window = IF slot = -1 THEN @ ELSE slot,
                                !.needs_redraw = TRUE]
  /\ slot' = 0
  /\ pc' = "chars"
  /\ UNCHANGED <<kbvars, mousevars, win, term, made, age, drawn, shown, missed, overtaken>>

\* It then looks for a character ...
PollChar ==
  /\ pc = "chars"
  /\ \/ FetchChar /\ pc' = "char"
     \/ Empty(chars) /\ pc' = "frame" /\ UNCHANGED kbvars
  /\ UNCHANGED <<mousevars, desktop, win, term, slot, made, age, drawn, shown, missed, overtaken>>

\* ... that oki_handle_char drops unless the terminal has the focus ...
CheckFocus ==
  /\ pc = "char"
  /\ LET focused == /\ desktop.focused_window >= 0
                    /\ WindowAt(desktop, desktop.focused_window) = term.win
                    /\ term.win # Null IN
     /\ DropChar(IF focused THEN char ELSE NoChar)
     /\ pc' = IF focused THEN "type" ELSE "frame"
  /\ UNCHANGED <<mousevars, desktop, win, term, slot, made, age, drawn, shown, missed, overtaken>>

\* ... and types otherwise.
TypeChar ==
  /\ pc = "type"
  /\ term' \in Typed(char)
  /\ desktop' = IF term' # term THEN Rendered(desktop) ELSE desktop
  /\ ForgetChar
  /\ pc' = "frame"
  /\ UNCHANGED <<mousevars, win, slot, made, age, drawn, shown, missed, overtaken>>

\* A frame is composed when one was asked for and the last is old enough ...
Compose ==
  /\ pc = "frame" /\ desktop.needs_redraw /\ age >= FramePause
  /\ drawn' = Picture
  /\ age' = 0
  /\ missed' = FALSE
  /\ pc' = "cursor"
  /\ UNCHANGED <<kbvars, mousevars, desktop, win, term, slot, made, shown, overtaken>>

Swap ==
  /\ pc = "cursor"
  /\ shown' = <<drawn, mouse.x>> /\ drawn' = <<>>
  /\ pc' = "clear"
  /\ UNCHANGED <<kbvars, mousevars, desktop, win, term, slot, made, age, missed, overtaken>>

ClearRedraw ==
  /\ pc = "clear"
  /\ desktop' = [desktop EXCEPT !.needs_redraw = FALSE]
  /\ pc' = "hlt"
  /\ UNCHANGED <<kbvars, mousevars, win, term, slot, made, age, drawn, shown, missed, overtaken>>

\* ... and the processor sleeps until the next interrupt.
NoFrame ==
  /\ pc = "frame" /\ ~(desktop.needs_redraw /\ age >= FramePause)
  /\ pc' = "hlt"
  /\ UNCHANGED <<kbvars, mousevars, desktop, win, term, slot, made, age, drawn, shown, missed, overtaken>>

Main ==
  \/ CreateWindow \/ InsertWindow \/ Greet \/ FirstFrame \/ FirstCursor
  \/ PollCode \/ OtherKey \/ SwitchWorkspace \/ SwitchFocus
  \/ PollChar \/ CheckFocus \/ TypeChar
  \/ Compose \/ Swap \/ ClearRedraw \/ NoFrame

Next == Main \/ KeyIrq \/ MouseQuiet \/ MouseIrq \/ Tick

\* The processor runs the main flow whenever it is not halted, and the timer
\* goes on.
Spec == Init /\ [][Next]_vars /\ WF_vars(Main) /\ WF_vars(Tick)

-----------------------------------------------------------------------------
(* Properties *)

TypeOK ==
  /\ chars \in Ring(Chars, NoChar) /\ codes \in Ring(Codes, NoCode)
  /\ key_held \subseteq Keys /\ caps_lock \in BOOLEAN
  /\ char \in Chars \cup {NoChar} /\ code \in Codes \cup {NoCode}
  /\ irqs \in 0 .. MaxKeys /\ typed \in 0 .. irqs
  /\ mouse \in [x : 0 .. ScreenW - 1, left : BOOLEAN]
  /\ packets \in 0 .. MaxPackets
  /\ desktop \in [windows : [Slots -> Ids \cup {Null}], window_count : 0 .. OKI_MAX_WINDOWS,
                  focused_window : -1 .. OKI_MAX_WINDOWS - 1,
                  current_workspace : Workspaces, needs_redraw : BOOLEAN]
  /\ win \in [Ids -> [x : 0 .. ScreenW - 1, ws : Workspaces, dragging : BOOLEAN, surface : BOOLEAN]]
  /\ term.win \in {Null, Terminal}
  /\ Len(term.lines) <= TERM_ROWS /\ Len(term.input) <= TERM_INPUT_MAX
  /\ slot \in -1 .. OKI_MAX_WINDOWS - 1 /\ made \in 0 .. Len(Windows)
  /\ age \in 0 .. FramePause
  /\ missed \in BOOLEAN /\ overtaken \in BOOLEAN

\* The focus index is -1 or names a window of the list, on the workspace that is
\* shown, and the list has no window twice and no hole: whatever is closed,
\* dragged and switched.  The exception is a click that closes a window between
\* the main flow's look at the list and its use of the index it got there.
FocusSound ==
  ~overtaken =>
    /\ \A i, j \in Slots :
         (i < desktop.window_count) = (desktop.windows[i] # Null)
         /\ (i # j /\ desktop.windows[i] = desktop.windows[j] => desktop.windows[i] = Null)
    /\ \/ desktop.focused_window = -1
       \/ /\ desktop.focused_window < desktop.window_count
          /\ OnWorkspace(desktop, desktop.focused_window)

\* Every change that can be seen asks for a redraw: the screen shows the present
\* state, or a frame has been asked for.  The exception is a request that comes
\* while a frame is composed, which the main flow clears with its own.
ShownOrAsked ==
  pc \notin {"create", "insert", "greet", "first", "switch"} =>
    shown = Screen \/ desktop.needs_redraw \/ missed

CharQueue == INSTANCE KeyQueue
  WITH Items <- Chars, Nothing <- NoChar, Capacity <- KB_BUFFER_SIZE - 1,
       queue <- Content(chars), offered <- typed, got <- char, reading <- (pc = "char")
CodeQueue == INSTANCE KeyQueue
  WITH Items <- Codes, Nothing <- NoCode, Capacity <- KB_BUFFER_SIZE - 1,
       queue <- Content(codes), offered <- irqs, got <- code, reading <- (pc = "key")

\* The two rings are queues: the loop gets the keys in the order they were
\* pressed in, each once, whatever comes in between its fetch and its move of the
\* tail, and keys are lost only to a full ring.
KeysInOrder == CharQueue!Spec /\ CodeQueue!Spec

\* What is asked of the main loop it does: typed characters are taken and
\* requested frames are drawn, although it takes one key at a time, draws at a
\* limited rate and sleeps in between.
EverythingServed ==
  /\ ~Empty(chars) ~> Empty(chars)
  /\ desktop.needs_redraw ~> ~desktop.needs_redraw
=============================================================================
