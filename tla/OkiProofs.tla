------------------------------ MODULE OkiProofs ------------------------------
(***************************************************************************)
(* The windows and the screen of the desktop: its types, FocusSound and    *)
(* ShownOrAsked, for every number of windows and workspaces, every size of *)
(* the screen and of the terminal, and all orders of keys, clicks and      *)
(* ticks.                                                                  *)
(***************************************************************************)
EXTENDS DesktopProofs, NatLemmas

-----------------------------------------------------------------------------
(* Types *)

KeyTypes ==
  /\ CharsOK /\ CodesOK
  /\ key_held \subseteq Keys /\ caps_lock \in BOOLEAN
  /\ char \in Chars \cup {NoChar} /\ code \in Codes \cup {NoCode}
  /\ irqs \in 0 .. MaxKeys /\ typed \in 0 .. irqs

MouseTypes ==
  /\ mouse \in [x : 0 .. ScreenW - 1, left : BOOLEAN]
  /\ packets \in 0 .. MaxPackets

DeskTypes ==
  /\ desktop \in [windows : [Slots -> Ids \cup {Null}], window_count : 0 .. OKI_MAX_WINDOWS,
                  focused_window : -1 .. OKI_MAX_WINDOWS - 1,
                  current_workspace : Workspaces, needs_redraw : BOOLEAN]
  /\ win \in [Ids -> [x : 0 .. ScreenW - 1, ws : Workspaces, dragging : BOOLEAN, surface : BOOLEAN]]

\* What a line of the terminal may be.
Lines == Seq(Chars \cup {NoChar}) \cup {<<"reply">>, <<"welcome">>, <<"^C">>}

TermTypes ==
  /\ term \in [win : {Null, Terminal}, lines : Seq(Lines), input : Seq(Chars \cup {NoChar})]
  /\ Len(term.lines) <= TERM_ROWS /\ Len(term.input) <= TERM_INPUT_MAX

FlowTypes ==
  /\ slot \in -1 .. OKI_MAX_WINDOWS - 1 /\ made \in 0 .. Len(Windows)
  /\ age \in 0 .. FramePause
  /\ missed \in BOOLEAN /\ overtaken \in BOOLEAN
  /\ pc = "insert" => slot >= 0 /\ made < Len(Windows)

TypeInv == KeyTypes /\ MouseTypes /\ DeskTypes /\ TermTypes /\ FlowTypes

\* The windows.
LEMMA WindowFacts ==
  /\ OKI_MAX_WINDOWS \in Nat /\ Len(Windows) \in 1 .. OKI_MAX_WINDOWS
  /\ DOMAIN Windows = 1 .. Len(Windows)
  /\ \A i \in 1 .. Len(Windows) : Windows[i] \in Ids
  /\ \A w \in Ids : Home[w] \in 0 .. ScreenW - 1
  /\ Null \notin Ids /\ Terminal \in Ids
<1>1. /\ Len(Windows) \in Nat /\ DOMAIN Windows = 1 .. Len(Windows)
      /\ \A i \in 1 .. Len(Windows) : Windows[i] \in DOMAIN Home
  BY DesktopAssumption
<1>2. Ids \subseteq DOMAIN Home /\ \A i \in 1 .. Len(Windows) : Windows[i] \in Ids
  BY <1>1 DEF Ids
<1>3. OKI_MAX_WINDOWS \in Nat /\ Len(Windows) \in 1 .. OKI_MAX_WINDOWS
  BY DesktopAssumption
<1>4. Terminal \in Ids
  BY <1>2, <1>3, DesktopAssumption
<1>5. QED
  BY <1>1, <1>2, <1>3, <1>4, DesktopAssumption

\* The keys.
LEMMA KeyTypesNext ==
  ASSUME KeyTypes, [Next]_vars PROVE KeyTypes'
<1>1. CharsOK' /\ CodesOK'
  BY CharsStep, CodesStep DEF KeyTypes
<1>2. MaxKeys \in Nat /\ irqs \in Nat /\ typed \in Nat
  BY KeyboardAssumption DEF KeyTypes
<1>3. \A c \in Places : chars.cells[c] \in Chars \cup {NoChar} /\ codes.cells[c] \in Codes \cup {NoCode}
  BY DEF KeyTypes, CharsOK, CodesOK, Ring
<1>4. chars.tail \in Places /\ codes.tail \in Places
  BY DEF KeyTypes, CharsOK, CodesOK, Ring
<1>5. CASE UNCHANGED kbvars
  BY <1>1, <1>5 DEF kbvars, KeyTypes
<1>6. CASE KeyIrq
  <2>1. PICK k \in Keys : Press(k) \/ Release(k)
    BY <1>6 DEF KeyIrq
  <2>2. key_held' \subseteq Keys /\ caps_lock' \in BOOLEAN /\ UNCHANGED <<char, code>>
    BY <2>1 DEF Press, Release, KeyTypes
  <2>3. irqs' = irqs + 1 /\ irqs < MaxKeys /\ typed' \in {typed, typed + 1}
    BY <2>1 DEF Press, Release
  <2>4. irqs' \in 0 .. MaxKeys /\ typed' \in 0 .. irqs'
    BY <1>2, <2>3 DEF KeyTypes
  <2>5. QED
    BY <1>1, <2>2, <2>4 DEF KeyTypes
<1>7. CASE PollCode \/ OtherKey \/ SwitchWorkspace \/ PollChar \/ CheckFocus \/ TypeChar
  <2>1. UNCHANGED <<key_held, caps_lock, irqs, typed>>
    BY <1>7 DEF PollCode, OtherKey, SwitchWorkspace, PollChar, CheckFocus, TypeChar,
                FetchCode, DropCode, FetchChar, DropChar, ForgetChar, kbvars
  <2>2. char' \in {char, NoChar, chars.cells[chars.tail]}
    BY <1>7 DEF PollCode, OtherKey, SwitchWorkspace, PollChar, CheckFocus, TypeChar,
                FetchCode, DropCode, FetchChar, DropChar, ForgetChar, kbvars
  <2>3. code' \in {code, NoCode, codes.cells[codes.tail]}
    BY <1>7 DEF PollCode, OtherKey, SwitchWorkspace, PollChar, CheckFocus, TypeChar,
                FetchCode, DropCode, FetchChar, DropChar, ForgetChar, kbvars
  <2>4. QED
    BY <1>1, <1>3, <1>4, <2>1, <2>2, <2>3 DEF KeyTypes
<1>8. QED
  <2>1. ASSUME Next PROVE \/ UNCHANGED kbvars \/ KeyIrq
                          \/ PollCode \/ OtherKey \/ SwitchWorkspace \/ PollChar \/ CheckFocus \/ TypeChar
    BY <2>1 DEF Next, Main, MouseQuiet, MouseIrq, Tick, CreateWindow, InsertWindow, Greet, FirstFrame,
                FirstCursor, SwitchFocus, Compose, Swap, ClearRedraw, NoFrame
  <2>2. UNCHANGED vars => UNCHANGED kbvars
    BY DEF vars
  <2>3. QED
    BY <1>5, <1>6, <1>7, <2>1, <2>2

\* The mouse stays on the screen.
LEMMA MouseTypesNext ==
  ASSUME MouseTypes, [Next]_vars PROVE MouseTypes'
<1>1. ScreenW \in Nat \ {0} /\ MaxPackets \in Nat /\ Moves \subseteq Int
  BY MouseAssumption
<1>2. CASE UNCHANGED mousevars
  BY <1>2 DEF mousevars, MouseTypes
<1>3. ASSUME NEW ps \in SUBSET Packet, Complete(ps) PROVE MouseTypes'
  <2>1. packets' \in 0 .. MaxPackets
    BY <1>1, <1>3 DEF Complete, MouseTypes
  <2>2. PICK p \in Packet : mouse' = Decoded(p)
    BY <1>3 DEF Complete
  <2>3. mouse.x + p.dx \in Int /\ p.left \in BOOLEAN
    <3>1. p.dx \in Moves /\ p.left \in BOOLEAN
      BY <2>2 DEF Packet
    <3>2. mouse.x \in 0 .. ScreenW - 1
      BY DEF MouseTypes
    <3>3. p.dx \in Int
      BY <1>1, <3>1, Zenon
    <3>4. mouse.x + p.dx \in Int
      <4>1. mouse.x \in Int
        BY <1>1, <3>2
      <4> DEFINE a == mouse.x
                 b == p.dx
      <4> HIDE DEF a, b
      <4>2. a \in Int /\ b \in Int => a + b \in Int
        OBVIOUS
      <4>3. QED
        BY <3>3, <4>1, <4>2 DEF a, b
    <3>5. QED
      BY <3>1, <3>4, Zenon
  <2>4. Clamped(mouse.x + p.dx) \in 0 .. ScreenW - 1
    BY <1>1, <2>3 DEF Clamped
  <2>5. mouse' \in [x : 0 .. ScreenW - 1, left : BOOLEAN]
    BY <2>2, <2>3, <2>4 DEF Decoded, MouseTypes
  <2>6. QED
    BY <2>1, <2>5 DEF MouseTypes
<1>4. QED
  <2>1. ASSUME Next
        PROVE  UNCHANGED mousevars \/ (\E ps \in SUBSET Packet : Complete(ps))
    <3>1. MouseQuiet \/ MouseIrq => \E ps \in SUBSET Packet : Complete(ps)
      BY DEF MouseQuiet, MouseIrq
    <3>2. QED
      BY <2>1, <3>1
         DEF Next, Main, KeyIrq, Tick, CreateWindow, InsertWindow, Greet, FirstFrame,
             FirstCursor, PollCode, OtherKey, SwitchWorkspace, SwitchFocus, PollChar,
             CheckFocus, TypeChar, Compose, Swap, ClearRedraw, NoFrame
  <2>2. UNCHANGED vars => UNCHANGED mousevars
    BY DEF vars
  <2>3. QED
    BY <1>2, <1>3, <2>1, <2>2

\* What closing a window makes of the list is a list.
LEMMA DestroyedType ==
  ASSUME TypeInv, NEW i \in Listed(desktop)
  PROVE  /\ Destroyed(desktop, i) \in
              [windows : [Slots -> Ids \cup {Null}], window_count : 0 .. OKI_MAX_WINDOWS,
               focused_window : -1 .. OKI_MAX_WINDOWS - 1,
               current_workspace : Workspaces, needs_redraw : BOOLEAN]
         /\ \A j \in Slots : Destroyed(desktop, i).windows[j] =
                               IF j < i \/ j > desktop.window_count - 1 THEN desktop.windows[j]
                               ELSE IF j = desktop.window_count - 1 THEN Null
                               ELSE desktop.windows[j + 1]
         /\ Destroyed(desktop, i).window_count = desktop.window_count - 1
         /\ Destroyed(desktop, i).focused_window =
              Refocus(desktop.focused_window, desktop.window_count - 1)
         /\ Destroyed(desktop, i).current_workspace = desktop.current_workspace
         /\ desktop.window_count - 1 \in 0 .. OKI_MAX_WINDOWS - 1 /\ i \in Slots
<1> DEFINE n == desktop.window_count - 1
           ws == [j \in Slots |-> IF j < i \/ j > n THEN desktop.windows[j]
                                  ELSE IF j = n THEN Null ELSE desktop.windows[j + 1]]
           f == Refocus(desktop.focused_window, n)
<1>1. /\ desktop.windows \in [Slots -> Ids \cup {Null}]
      /\ desktop.window_count \in 0 .. OKI_MAX_WINDOWS
      /\ desktop.focused_window \in -1 .. OKI_MAX_WINDOWS - 1
      /\ desktop.current_workspace \in Workspaces /\ desktop.needs_redraw \in BOOLEAN
  BY DEF TypeInv, DeskTypes
<1>2. OKI_MAX_WINDOWS \in Nat
  BY WindowFacts
<1>3. i \in 0 .. desktop.window_count - 1
  BY DEF Listed
<1>4. n \in 0 .. OKI_MAX_WINDOWS - 1 /\ i \in 0 .. n /\ i \in Slots
  BY <1>1, <1>2, <1>3 DEF Slots
<1>5. f \in -1 .. OKI_MAX_WINDOWS - 1
  <2>1. f = IF desktop.focused_window >= n THEN n - 1 ELSE desktop.focused_window
    BY DEF Refocus
  <2> HIDE DEF n, f
  <2>2. QED
    BY <1>1, <1>2, <1>4, <2>1
<1>6. ws \in [Slots -> Ids \cup {Null}]
  <2> SUFFICES ASSUME NEW j \in Slots PROVE ws[j] \in Ids \cup {Null}
    OBVIOUS
  <2>1. ~(j < i \/ j > n) /\ j # n => j + 1 \in Slots
    <3> HIDE DEF n
    <3>1. QED
      BY <1>2, <1>4 DEF Slots
  <2>2. QED
    BY <1>1, <2>1
<1>7. Destroyed(desktop, i) = [desktop EXCEPT !.windows = ws, !.window_count = n, !.focused_window = f]
  BY DEF Destroyed
<1>8. n \in 0 .. OKI_MAX_WINDOWS
  <2> HIDE DEF n
  <2>1. QED
    BY <1>2, <1>4
<1>9. desktop \in [windows : [Slots -> Ids \cup {Null}], window_count : 0 .. OKI_MAX_WINDOWS,
                  focused_window : -1 .. OKI_MAX_WINDOWS - 1,
                  current_workspace : Workspaces, needs_redraw : BOOLEAN]
  BY DEF TypeInv, DeskTypes
<1>10. /\ Destroyed(desktop, i) \in
              [windows : [Slots -> Ids \cup {Null}], window_count : 0 .. OKI_MAX_WINDOWS,
               focused_window : -1 .. OKI_MAX_WINDOWS - 1,
               current_workspace : Workspaces, needs_redraw : BOOLEAN]
       /\ Destroyed(desktop, i).windows = ws
       /\ Destroyed(desktop, i).window_count = n
       /\ Destroyed(desktop, i).focused_window = f
       /\ Destroyed(desktop, i).current_workspace = desktop.current_workspace
  <2> HIDE DEF n, ws, f
  <2>1. QED
    BY <1>5, <1>6, <1>7, <1>8, <1>9
<1>11. QED
  BY <1>4, <1>10

\* The indices of a list.
LEMMA ListedIn ==
  ASSUME TypeInv
  PROVE  /\ Listed(desktop) \subseteq 0 .. desktop.window_count - 1
         /\ desktop.window_count \in Nat /\ 0 .. desktop.window_count - 1 \subseteq Slots
         /\ \A i \in Listed(desktop) : desktop.windows[i] \in Ids
<1>1. desktop.window_count \in 0 .. OKI_MAX_WINDOWS /\ OKI_MAX_WINDOWS \in Nat
  BY WindowFacts DEF TypeInv, DeskTypes
<1>2. desktop.windows \in [Slots -> Ids \cup {Null}]
  BY DEF TypeInv, DeskTypes
<1>3. 0 .. desktop.window_count - 1 \subseteq Slots
  BY <1>1 DEF Slots
<1>4. QED
  BY <1>1, <1>2, <1>3 DEF Listed

\* What a click may do to the list and to the focus: a window is closed, or gets
\* the focus; both only on the workspace that is shown.
LEMMA ClickDoes ==
  ASSUME TypeInv, MouseTypes', OkiHandleMouse
  PROVE  /\ win' \in [Ids -> [x : 0 .. ScreenW - 1, ws : Workspaces, dragging : BOOLEAN, surface : BOOLEAN]]
         /\ \A w \in Ids : win'[w].ws = win[w].ws /\ win'[w].surface = win[w].surface
         /\ \/ desktop' = Asks(desktop)
            \/ \E i \in Listed(desktop) :
                 /\ OnWorkspace(desktop, i)
                 /\ \/ desktop' = Asks(Destroyed(desktop, i))
                    \/ desktop' = Asks([desktop EXCEPT !.focused_window = i])
<1> DEFINE Win == [x : 0 .. ScreenW - 1, ws : Workspaces, dragging : BOOLEAN, surface : BOOLEAN]
<1>1. win \in [Ids -> Win] /\ mouse'.x \in 0 .. ScreenW - 1
  BY DEF TypeInv, DeskTypes, MouseTypes
<1>2. \A w \in Ids : win[w] \in Win
  BY <1>1
<1>3. \A w \in Ids : \A b \in BOOLEAN :
        /\ [win[w] EXCEPT !.dragging = b] \in Win
        /\ [win[w] EXCEPT !.dragging = b].ws = win[w].ws
        /\ [win[w] EXCEPT !.dragging = b].surface = win[w].surface
  BY <1>2
<1>4. \A w \in Ids : \A x \in 0 .. ScreenW - 1 :
        /\ [win[w] EXCEPT !.x = x] \in Win
        /\ [win[w] EXCEPT !.x = x].ws = win[w].ws
        /\ [win[w] EXCEPT !.x = x].surface = win[w].surface
  BY <1>2
<1>5. CASE ButtonUp
  <2>1. win' = [w \in Ids |-> IF \E i \in Listed(desktop) : desktop.windows[i] = w
                              THEN [win[w] EXCEPT !.dragging = FALSE] ELSE win[w]]
        /\ desktop' = Asks(desktop)
    BY <1>5 DEF ButtonUp
  <2>2. \A w \in Ids : /\ win'[w] \in Win
                       /\ win'[w].ws = win[w].ws /\ win'[w].surface = win[w].surface
    BY <1>2, <1>3, <2>1
  <2>3. win' \in [Ids -> Win]
    <3> HIDE DEF Win
    <3>1. QED
      BY <2>1, <2>2
  <2>4. QED
    BY <2>1, <2>2, <2>3
<1>6. CASE Drag
  <2>1. Dragging # {} /\ Dragging \subseteq Listed(desktop)
        /\ win' = [win EXCEPT ![desktop.windows[Min(Dragging)]].x = mouse'.x]
        /\ desktop' = Asks(desktop)
    BY <1>6 DEF Drag, Dragging
  <2>2. Min(Dragging) \in Dragging
    <3>1. Dragging \subseteq 0 .. desktop.window_count - 1 /\ desktop.window_count \in Nat
      BY <2>1, ListedIn
    <3>2. QED
      BY <2>1, <3>1, MinMaxIn
  <2> DEFINE w == desktop.windows[Min(Dragging)]
             new == [win[w] EXCEPT !.x = mouse'.x]
  <2>3. w \in Ids
    BY <2>1, <2>2, ListedIn
  <2>4. new \in Win /\ new.ws = win[w].ws /\ new.surface = win[w].surface
    BY <1>1, <1>4, <2>3
  <2>5. win' = [win EXCEPT ![w] = new]
    BY <2>1
  <2> HIDE DEF w, new, Win
  <2>6. QED
    BY <1>1, <2>1, <2>3, <2>4, <2>5 DEF Win
<1>7. CASE Click
  <2> DEFINE i == Max(Hit)
             w == desktop.windows[i]
             part == Part(w, mouse'.x)
             same == {j \in Listed(desktop) : desktop.windows[j] = w}
             new == [win[w] EXCEPT !.dragging = @ \/ part = 0]
  <2>1. /\ Hit # {} /\ Hit \subseteq Listed(desktop) /\ \A j \in Hit : OnWorkspace(desktop, j)
        /\ desktop' = Asks(IF part = 1 THEN Destroyed(desktop, i)
                           ELSE [desktop EXCEPT !.focused_window = Min(same)])
        /\ win' = [win EXCEPT ![w].dragging = @ \/ part = 0]
    BY <1>7 DEF Click, Hit
  <2>2. i \in Listed(desktop) /\ OnWorkspace(desktop, i)
    <3>1. Hit \subseteq 0 .. desktop.window_count - 1 /\ desktop.window_count \in Nat
      BY <2>1, ListedIn
    <3>2. i \in Hit
      BY <2>1, <3>1, MinMaxIn
    <3>3. QED
      BY <2>1, <3>2
  <2>3. w \in Ids
    BY <2>2, ListedIn
  <2>4. Min(same) \in Listed(desktop) /\ OnWorkspace(desktop, Min(same))
    <3>1. same # {} /\ same \subseteq 0 .. desktop.window_count - 1 /\ desktop.window_count \in Nat
      BY <2>2, ListedIn
    <3>2. Min(same) \in same
      <4> HIDE DEF same
      <4>1. QED
        BY <3>1, MinMaxIn
    <3>3. QED
      BY <2>2, <3>2 DEF OnWorkspace
  <2>5. (win[w].dragging \/ part = 0) \in BOOLEAN
    BY Zenon
  <2>6. new \in Win /\ new.ws = win[w].ws /\ new.surface = win[w].surface
    BY <1>3, <2>3, <2>5
  <2>7. win' = [win EXCEPT ![w] = new]
    BY <2>1
  <2>8. /\ win' \in [Ids -> Win]
        /\ \A v \in Ids : win'[v].ws = win[v].ws /\ win'[v].surface = win[v].surface
    <3> HIDE DEF w, new, Win
    <3>1. QED
      BY <1>1, <2>3, <2>6, <2>7
  <2> HIDE DEF i, w, part, same
  <2>9. QED
    BY <2>1, <2>2, <2>4, <2>8
<1>8. CASE ClickNowhere
  BY <1>1, <1>8 DEF ClickNowhere
<1>9. QED
  BY <1>5, <1>6, <1>7, <1>8 DEF OkiHandleMouse

\* The windows and their list.
LEMMA DeskTypesNext ==
  ASSUME TypeInv, MouseTypes', [Next]_vars PROVE DeskTypes'
<1> DEFINE Desk == [windows : [Slots -> Ids \cup {Null}], window_count : 0 .. OKI_MAX_WINDOWS,
                    focused_window : -1 .. OKI_MAX_WINDOWS - 1,
                    current_workspace : Workspaces, needs_redraw : BOOLEAN]
           Win == [x : 0 .. ScreenW - 1, ws : Workspaces, dragging : BOOLEAN, surface : BOOLEAN]
<1>1. desktop \in Desk /\ win \in [Ids -> Win]
  BY DEF TypeInv, DeskTypes
<1>2. OKI_MAX_WINDOWS \in Nat
  BY WindowFacts
<1>3. CASE UNCHANGED <<desktop, win>>
  BY <1>3 DEF TypeInv, DeskTypes
<1>4. \A d \in Desk : /\ Asks(d) \in Desk
                      /\ [d EXCEPT !.needs_redraw = FALSE] \in Desk
                      /\ \A f \in -1 .. OKI_MAX_WINDOWS - 1 : [d EXCEPT !.focused_window = f] \in Desk
                      /\ Rendered(d) \in Desk
  BY DEF Asks, Rendered
<1>5. CASE MouseIrq
  <2>1. /\ win' \in [Ids -> Win]
        /\ \/ desktop' = Asks(desktop)
           \/ \E i \in Listed(desktop) :
                \/ desktop' = Asks(Destroyed(desktop, i))
                \/ desktop' = Asks([desktop EXCEPT !.focused_window = i])
    BY <1>5, ClickDoes DEF MouseIrq
  <2>2. \A i \in Listed(desktop) : Destroyed(desktop, i) \in Desk /\ i \in -1 .. OKI_MAX_WINDOWS - 1
    <3>1. \A i \in Listed(desktop) : Destroyed(desktop, i) \in Desk
      BY DestroyedType
    <3>2. Listed(desktop) \subseteq Slots
      BY ListedIn
    <3>3. Slots \subseteq -1 .. OKI_MAX_WINDOWS - 1
      BY <1>2 DEF Slots
    <3>4. QED
      BY <3>1, <3>2, <3>3
  <2> HIDE DEF Desk, Win
  <2>3. desktop' \in Desk
    BY <1>1, <1>4, <2>1, <2>2
  <2>4. QED
    BY <2>1, <2>3 DEF DeskTypes, Desk, Win
<1>6. CASE CreateWindow
  <2>1. desktop' = desktop /\ made < Len(Windows)
    BY <1>6 DEF CreateWindow
  <2>2. made + 1 \in 1 .. Len(Windows)
    BY <2>1, WindowFacts DEF TypeInv, FlowTypes
  <2>3. PICK w \in Ids : w = Windows[made + 1]
    BY <2>2, WindowFacts
  <2>4. CASE UNCHANGED win
    BY <1>3, <2>1, <2>4
  <2>5. CASE \E surface \in BOOLEAN :
               win' = [win EXCEPT ![w] = [@ EXCEPT !.surface = surface, !.ws = desktop.current_workspace]]
    <3>1. PICK surface \in BOOLEAN :
               win' = [win EXCEPT ![w] = [@ EXCEPT !.surface = surface, !.ws = desktop.current_workspace]]
      BY <2>5
    <3> DEFINE new == [win[w] EXCEPT !.surface = surface, !.ws = desktop.current_workspace]
    <3>2. new \in Win
      BY <1>1
    <3>3. win' = [win EXCEPT ![w] = new]
      BY <3>1
    <3> HIDE DEF new, Win
    <3>4. win' \in [Ids -> Win]
      BY <1>1, <3>2, <3>3
    <3>5. QED
      BY <1>1, <2>1, <3>4 DEF DeskTypes, Win
  <2>6. UNCHANGED win \/ \E surface \in BOOLEAN :
               win' = [win EXCEPT ![w] = [@ EXCEPT !.surface = surface, !.ws = desktop.current_workspace]]
    BY <1>6, <2>3 DEF CreateWindow
  <2>7. QED
    BY <2>4, <2>5, <2>6
<1>7. CASE InsertWindow
  <2>1. slot \in 0 .. OKI_MAX_WINDOWS - 1 /\ made < Len(Windows)
    BY <1>2, <1>7 DEF InsertWindow, TypeInv, FlowTypes
  <2>2. made + 1 \in 1 .. Len(Windows)
    BY <2>1, WindowFacts DEF TypeInv, FlowTypes
  <2>3. Windows[made + 1] \in Ids /\ slot \in Slots
    BY <2>1, <2>2, WindowFacts DEF Slots
  <2> DEFINE ws == [desktop.windows EXCEPT ![slot] = Windows[made + 1]]
             n == slot + 1
  <2>4. ws \in [Slots -> Ids \cup {Null}]
    BY <1>1, <2>3
  <2>5. n \in 0 .. OKI_MAX_WINDOWS /\ slot \in -1 .. OKI_MAX_WINDOWS - 1
    BY <1>2, <2>1
  <2>6. desktop' = [desktop EXCEPT !.windows = ws, !.focused_window = slot,
                                   !.window_count = n, !.needs_redraw = TRUE]
    BY <1>7 DEF InsertWindow
  <2>7. desktop' \in Desk
    <3> HIDE DEF ws, n
    <3>1. QED
      BY <1>1, <2>4, <2>5, <2>6
  <2>8. QED
    BY <1>1, <1>7, <2>7 DEF InsertWindow, DeskTypes
<1>8. CASE Greet \/ TypeChar \/ ClearRedraw
  <2>1. /\ win' = win
        /\ desktop' \in {desktop, Rendered(desktop), [desktop EXCEPT !.needs_redraw = FALSE]}
    BY <1>8 DEF Greet, TypeChar, ClearRedraw
  <2> HIDE DEF Desk, Win
  <2>2. desktop' \in Desk
    BY <1>1, <1>4, <2>1
  <2>3. QED
    BY <1>1, <2>1, <2>2 DEF DeskTypes, Desk, Win
<1>9. CASE SwitchWorkspace
  <2>1. PICK ws \in Workspaces :
          desktop' = [desktop EXCEPT !.current_workspace = ws, !.focused_window = -1]
    BY <1>9 DEF SwitchWorkspace
  <2>2. -1 \in -1 .. OKI_MAX_WINDOWS - 1
    BY <1>2
  <2>3. desktop' \in Desk
    BY <1>1, <2>1, <2>2
  <2>4. QED
    BY <1>1, <1>9, <2>3 DEF SwitchWorkspace, DeskTypes
<1>10. CASE SwitchFocus
  <2>1. desktop' = [desktop EXCEPT !.focused_window = IF slot = -1 THEN @ ELSE slot,
                                   !.needs_redraw = TRUE]
    BY <1>10 DEF SwitchFocus
  <2>2. slot \in -1 .. OKI_MAX_WINDOWS - 1
    BY DEF TypeInv, FlowTypes
  <2>3. desktop' \in Desk
    BY <1>1, <2>1, <2>2
  <2>4. QED
    BY <1>1, <1>10, <2>3 DEF SwitchFocus, DeskTypes
<1>11. QED
  <2>1. ASSUME Next
        PROVE  \/ UNCHANGED <<desktop, win>> \/ MouseIrq \/ CreateWindow \/ InsertWindow
               \/ Greet \/ TypeChar \/ ClearRedraw \/ SwitchWorkspace \/ SwitchFocus
    BY <2>1 DEF Next, Main, KeyIrq, MouseQuiet, Tick, FirstFrame, FirstCursor, PollCode,
                OtherKey, PollChar, CheckFocus, Compose, Swap, NoFrame
  <2>2. UNCHANGED vars => UNCHANGED <<desktop, win>>
    BY DEF vars, deskvars
  <2>3. QED
    BY <1>3, <1>5, <1>6, <1>7, <1>8, <1>9, <1>10, <2>1, <2>2

\* A line more, and the first gone if they were too many.
LEMMA PrintedType ==
  ASSUME NEW L, NEW lines \in Seq(L), Len(lines) <= TERM_ROWS, NEW l \in L
  PROVE  Printed(lines, l) \in Seq(L) /\ Len(Printed(lines, l)) <= TERM_ROWS
<1>1. TERM_ROWS \in Nat \ {0}
  BY DesktopAssumption
<1>2. CASE Len(lines) = TERM_ROWS
  <2>1. lines # <<>> /\ Len(lines) \in Nat
    BY <1>1, <1>2
  <2>2. Tail(lines) \in Seq(L) /\ Len(Tail(lines)) = Len(lines) - 1
    BY <2>1, HeadTailProperties
  <2> DEFINE s == Tail(lines)
  <2>3. Append(s, l) \in Seq(L) /\ Len(Append(s, l)) = Len(s) + 1
    <3> HIDE DEF s
    <3>1. s \in Seq(L)
      BY <2>2 DEF s
    <3>2. QED
      BY <3>1, AppendProperties
  <2>4. Len(Append(s, l)) = TERM_ROWS
    BY <1>1, <1>2, <2>1, <2>2, <2>3
  <2>5. QED
    BY <1>1, <1>2, <2>3, <2>4 DEF Printed
<1>3. CASE Len(lines) # TERM_ROWS
  <2>1. Append(lines, l) \in Seq(L) /\ Len(Append(lines, l)) = Len(lines) + 1
    BY AppendProperties
  <2>2. Len(lines) \in Nat
    OBVIOUS
  <2>3. QED
    BY <1>1, <1>3, <2>1, <2>2 DEF Printed
<1>4. QED
  BY <1>2, <1>3

\* The terminal.
LEMMA TermTypesNext ==
  ASSUME TypeInv, [Next]_vars PROVE TermTypes'
<1> DEFINE Cs == Chars \cup {NoChar}
           Term == [win : {Null, Terminal}, lines : Seq(Lines), input : Seq(Cs)]
<1>1. /\ term \in Term /\ Len(term.lines) <= TERM_ROWS /\ Len(term.input) <= TERM_INPUT_MAX
      /\ term.lines \in Seq(Lines) /\ term.input \in Seq(Cs)
  BY DEF TypeInv, TermTypes
<1>2. TERM_ROWS \in Nat \ {0} /\ TERM_INPUT_MAX \in Nat \ {0}
  BY DesktopAssumption
<1>3. /\ \A s \in Seq(Cs) : s \in Lines
      /\ <<"reply">> \in Lines /\ <<"welcome">> \in Lines /\ <<"^C">> \in Lines
  BY DEF Lines
<1>4. <<>> \in Seq(Cs) /\ Len(<<>>) = 0 /\ <<>> \in Seq(Lines)
  BY EmptySeq
<1>5. CASE UNCHANGED term
  BY <1>5 DEF TypeInv, TermTypes
<1>6. CASE Greet
  <2>1. term' = [win |-> Terminal, lines |-> Printed(<<>>, <<"welcome">>), input |-> <<>>]
    BY <1>6 DEF Greet
  <2>2. Printed(<<>>, <<"welcome">>) \in Seq(Lines) /\ Len(Printed(<<>>, <<"welcome">>)) <= TERM_ROWS
    <3>1. Len(<<>>) <= TERM_ROWS
      BY <1>2, <1>4
    <3>2. QED
      BY <1>3, <1>4, <3>1, PrintedType
  <2> DEFINE ls == Printed(<<>>, <<"welcome">>)
  <2> HIDE DEF ls, Cs
  <2>3. QED
    BY <1>2, <1>4, <2>1, <2>2 DEF TermTypes, ls, Cs
<1>7. ASSUME NEW ls \in Seq(Lines), Len(ls) <= TERM_ROWS,
             NEW in \in Seq(Cs), Len(in) <= TERM_INPUT_MAX,
             term' = [term EXCEPT !.lines = ls, !.input = in]
      PROVE  TermTypes'
  <2> HIDE DEF Cs
  <2>1. term' \in Term /\ term'.lines = ls /\ term'.input = in
    BY <1>1, <1>7
  <2>2. QED
    BY <1>7, <2>1 DEF TermTypes, Cs
<1>8. CASE TypeChar
  <2>1. term' \in Typed(char) /\ char \in Cs
    BY <1>8 DEF TypeChar, TypeInv, KeyTypes
  <2>2. term = [term EXCEPT !.lines = term.lines, !.input = term.input]
    BY <1>1
  <2> DEFINE cmd == term.input
             Fine(ls) == ls \in Seq(Lines) /\ Len(ls) <= TERM_ROWS
  <2>3. \A l \in Lines : Fine(Printed(term.lines, l))
    BY <1>1, PrintedType
  <2>4. CASE \E ls \in Outputs(term.lines, cmd) : term' = [term EXCEPT !.lines = ls, !.input = <<>>]
    <3>1. PICK ls \in Outputs(term.lines, cmd) : term' = [term EXCEPT !.lines = ls, !.input = <<>>]
      BY <2>4
    <3>2. Fine(Printed(term.lines, cmd)) /\ cmd \in Lines
      BY <1>1, <1>3, <2>3
    <3>3. Fine(Printed(Printed(term.lines, cmd), <<"reply">>))
      BY <1>3, <3>2, PrintedType
    <3>4. Fine(<<>>)
      BY <1>2, <1>4
    <3>5. ls \in {Printed(term.lines, cmd), Printed(Printed(term.lines, cmd), <<"reply">>), <<>>}
      BY DEF Outputs
    <3>6. Fine(ls)
      BY <3>2, <3>3, <3>4, <3>5
    <3>7. Len(<<>>) <= TERM_INPUT_MAX
      BY <1>2, <1>4
    <3>8. QED
      BY <1>4, <1>7, <3>1, <3>6, <3>7
  <2>5. CASE term' = [term EXCEPT !.input = Front(@)] /\ term.input # <<>>
    <3>1. Front(cmd) \in Seq(Cs) /\ Len(Front(cmd)) <= TERM_INPUT_MAX
      <4>1. Len(cmd) \in Nat \ {0}
        BY <1>1, <2>5, EmptySeq
      <4>2. Front(cmd) = SubSeq(cmd, 1, Len(cmd) - 1)
        BY DEF Front
      <4>3. Front(cmd) \in Seq(Cs) /\ Len(Front(cmd)) = Len(cmd) - 1
        <5> DEFINE n == Len(cmd) - 1
        <5>1. \A j \in 1 .. n : cmd[j] \in Cs
          <6> HIDE DEF Cs
          <6>1. QED
            BY <1>1, <4>1
        <5>2. n \in Nat /\ 1 \in Int
          <6> DEFINE l == Len(cmd)
          <6> HIDE DEF l
          <6>1. l \in Nat \ {0} => l - 1 \in Nat
            OBVIOUS
          <6>2. QED
            BY <4>1, <6>1 DEF l
        <5> HIDE DEF n, cmd, Cs
        <5>3. /\ SubSeq(cmd, 1, n) \in Seq(Cs)
              /\ Len(SubSeq(cmd, 1, n)) = IF 1 <= n THEN n - 1 + 1 ELSE 0
          BY <5>1, <5>2, SubSeqProperties
        <5>4. Len(SubSeq(cmd, 1, n)) = n
          <6> DEFINE l == Len(SubSeq(cmd, 1, n))
          <6>1. l = IF 1 <= n THEN n - 1 + 1 ELSE 0
            BY <5>3
          <6> HIDE DEF l
          <6>2. l = n
            BY <5>2, <6>1
          <6>3. QED
            BY <6>2 DEF l
        <5>5. QED
          BY <4>2, <5>3, <5>4, Zenon DEF n
      <4>4. QED
        BY <1>1, <1>2, <4>1, <4>3
    <3>2. term' = [term EXCEPT !.lines = term.lines, !.input = Front(cmd)]
      BY <1>1, <2>5
    <3>3. QED
      BY <1>1, <1>7, <3>1, <3>2
  <2>6. CASE term' = [term EXCEPT !.lines = Printed(@, <<"^C">>), !.input = <<>>]
    <3>1. Fine(Printed(term.lines, <<"^C">>))
      BY <1>3, <2>3
    <3>2. Len(<<>>) <= TERM_INPUT_MAX
      BY <1>2, <1>4
    <3>3. term' = [term EXCEPT !.lines = Printed(term.lines, <<"^C">>), !.input = <<>>]
      BY <2>6
    <3>4. QED
      BY <1>4, <1>7, <3>1, <3>2, <3>3
  <2>7. CASE term' = [term EXCEPT !.input = Append(@, char)] /\ Len(term.input) < TERM_INPUT_MAX
    <3>1. Append(cmd, char) \in Seq(Cs) /\ Len(Append(cmd, char)) = Len(cmd) + 1 /\ Len(cmd) \in Nat
      BY <1>1, <2>1, AppendProperties
    <3>2. Len(Append(cmd, char)) <= TERM_INPUT_MAX
      BY <1>2, <2>7, <3>1
    <3>3. term' = [term EXCEPT !.lines = term.lines, !.input = Append(cmd, char)]
      BY <1>1, <2>7
    <3>4. QED
      BY <1>1, <1>7, <3>1, <3>2, <3>3
  <2>8. QED
    BY <1>5, <2>1, <2>4, <2>5, <2>6, <2>7 DEF Typed
<1>9. QED
  <2>1. ASSUME Next PROVE UNCHANGED term \/ Greet \/ TypeChar
    BY <2>1 DEF Next, Main, KeyIrq, MouseQuiet, MouseIrq, Tick, CreateWindow, InsertWindow,
                FirstFrame, FirstCursor, PollCode, OtherKey, SwitchWorkspace, SwitchFocus,
                PollChar, CheckFocus, Compose, Swap, ClearRedraw, NoFrame
  <2>2. UNCHANGED vars => UNCHANGED term
    BY DEF vars, deskvars
  <2>3. QED
    BY <1>5, <1>6, <1>8, <2>1, <2>2

\* The rest.
LEMMA FlowTypesNext ==
  ASSUME TypeInv, [Next]_vars PROVE FlowTypes'
<1>1. /\ OKI_MAX_WINDOWS \in Nat /\ Len(Windows) \in Nat /\ FramePause \in Nat
      /\ Len(Windows) >= 1 /\ OKI_MAX_WINDOWS >= 1
  BY WindowFacts, DesktopAssumption
<1>2. /\ slot \in -1 .. OKI_MAX_WINDOWS - 1 /\ made \in 0 .. Len(Windows)
      /\ age \in 0 .. FramePause /\ missed \in BOOLEAN /\ overtaken \in BOOLEAN
      /\ pc = "insert" => slot >= 0 /\ made < Len(Windows)
      /\ desktop.window_count \in 0 .. OKI_MAX_WINDOWS
  BY DEF TypeInv, FlowTypes, DeskTypes
<1>3. /\ missed' \in BOOLEAN /\ overtaken' \in BOOLEAN
  <2>1. \/ missed' \in {missed, FALSE}
        \/ missed' = (missed \/ Composing)
    BY DEF Next, Main, KeyIrq, MouseQuiet, MouseIrq, Tick, CreateWindow, InsertWindow, Greet,
           FirstFrame, FirstCursor, PollCode, OtherKey, SwitchWorkspace, SwitchFocus, PollChar,
           CheckFocus, TypeChar, Compose, Swap, ClearRedraw, NoFrame, vars, deskvars
  <2>2. \/ overtaken' = overtaken
        \/ overtaken' = (overtaken \/ (Holding /\ desktop'.window_count < desktop.window_count))
    BY DEF Next, Main, KeyIrq, MouseQuiet, MouseIrq, Tick, CreateWindow, InsertWindow, Greet,
           FirstFrame, FirstCursor, PollCode, OtherKey, SwitchWorkspace, SwitchFocus, PollChar,
           CheckFocus, TypeChar, Compose, Swap, ClearRedraw, NoFrame, vars, deskvars
  <2>3. QED
    BY <1>2, <2>1, <2>2, Zenon
<1>4. age' \in 0 .. FramePause
  <2>1. age' \in {age, 0} \/ Tick
    BY DEF Next, Main, KeyIrq, MouseQuiet, MouseIrq, CreateWindow, InsertWindow, Greet,
           FirstFrame, FirstCursor, PollCode, OtherKey, SwitchWorkspace, SwitchFocus, PollChar,
           CheckFocus, TypeChar, Compose, Swap, ClearRedraw, NoFrame, vars, deskvars
  <2>2. QED
    BY <1>1, <1>2, <2>1 DEF Tick
<1>5. CASE CreateWindow
  <2>1. made < Len(Windows)
    BY <1>5 DEF CreateWindow
  <2>2. \/ desktop.window_count < OKI_MAX_WINDOWS /\ slot' = desktop.window_count /\ made' = made
        \/ made' = made + 1 /\ slot' = slot /\ pc' = "create"
    BY <1>5 DEF CreateWindow
  <2>3. QED
    BY <1>1, <1>2, <1>3, <1>4, <2>1, <2>2 DEF FlowTypes
<1>6. CASE InsertWindow
  <2>1. pc = "insert" /\ made' = made + 1 /\ slot' = 0 /\ pc' # "insert"
    BY <1>6 DEF InsertWindow
  <2>2. QED
    BY <1>1, <1>2, <1>3, <1>4, <2>1 DEF FlowTypes
<1>7. CASE SwitchWorkspace
  <2>1. PICK d : /\ d = [desktop EXCEPT !.current_workspace = d.current_workspace, !.focused_window = -1]
                 /\ slot' = IF Found(d) = {} THEN -1 ELSE Max(Found(d))
    <3>1. PICK ws \in Workspaces :
            slot' = LET d == [desktop EXCEPT !.current_workspace = ws, !.focused_window = -1] IN
                    IF Found(d) = {} THEN -1 ELSE Max(Found(d))
      BY <1>7, Zenon DEF SwitchWorkspace
    <3> DEFINE d == [desktop EXCEPT !.current_workspace = ws, !.focused_window = -1]
    <3>2. d.current_workspace = ws
      BY DEF TypeInv, DeskTypes
    <3>3. slot' = IF Found(d) = {} THEN -1 ELSE Max(Found(d))
      BY <3>1
    <3>4. QED
      BY <3>2, <3>3
  <2>2. d.window_count = desktop.window_count
    BY <2>1 DEF TypeInv, DeskTypes
  <2>3. Found(d) \subseteq 0 .. desktop.window_count - 1
    BY <2>2 DEF Found, Listed
  <2>4. desktop.window_count \in Nat
    BY <1>1, <1>2
  <2>5. slot' = -1 \/ slot' \in 0 .. desktop.window_count - 1
    BY <2>1, <2>3, <2>4, MinMaxIn
  <2>6. made' = made /\ pc' # "insert"
    BY <1>7 DEF SwitchWorkspace
  <2>7. QED
    BY <1>1, <1>2, <1>3, <1>4, <2>5, <2>6 DEF FlowTypes
<1>8. CASE UNCHANGED made /\ slot' \in {slot, 0} /\ (pc' = "insert" => pc = "insert" /\ slot' = slot)
  BY <1>1, <1>2, <1>3, <1>4, <1>8 DEF FlowTypes
<1>9. QED
  <2>1. ASSUME Next
        PROVE  \/ CreateWindow \/ InsertWindow \/ SwitchWorkspace
               \/ UNCHANGED made /\ slot' \in {slot, 0} /\ (pc' = "insert" => pc = "insert" /\ slot' = slot)
    BY <2>1 DEF Next, Main, KeyIrq, MouseQuiet, MouseIrq, Tick, Greet, Wakes,
                FirstFrame, FirstCursor, PollCode, OtherKey, SwitchFocus,
                PollChar, CheckFocus, TypeChar, Compose, Swap, ClearRedraw, NoFrame
  <2>2. UNCHANGED vars => UNCHANGED <<made, slot, pc>>
    BY DEF vars, deskvars
  <2>3. QED
    BY <1>5, <1>6, <1>7, <1>8, <2>1, <2>2

\* The types hold at the start ...
LEMMA TypeInit ==
  ASSUME Init PROVE TypeInv
<1>1. KeyTypes
  <2>1. CharsOK /\ CodesOK /\ MaxKeys \in Nat
    BY RingsInit, KeyboardAssumption
  <2>2. key_held = {} /\ caps_lock = FALSE /\ char = NoChar /\ code = NoCode /\ irqs = 0 /\ typed = 0
    BY DEF Init, KeyboardInit
  <2>3. irqs \in 0 .. MaxKeys /\ typed \in 0 .. irqs
    BY <2>1, <2>2
  <2>4. caps_lock \in BOOLEAN
    BY <2>2
  <2>5. QED
    BY <2>1, <2>2, <2>3, <2>4, Zenon DEF KeyTypes
<1>2. MouseTypes
  BY MouseAssumption DEF MouseTypes, Init, MouseInit
<1>3. DeskTypes
  <2>1. OKI_MAX_WINDOWS \in Nat /\ OKI_MAX_WINDOWS >= 1 /\ 0 \in Workspaces /\ Null \in Ids \cup {Null}
        /\ \A w \in Ids : Home[w] \in 0 .. ScreenW - 1
    BY WindowFacts, DesktopAssumption
  <2>2. [i \in Slots |-> Null] \in [Slots -> Ids \cup {Null}]
    BY <2>1
  <2>3. 0 \in 0 .. OKI_MAX_WINDOWS /\ -1 \in -1 .. OKI_MAX_WINDOWS - 1
    BY <2>1
  <2>4. /\ desktop = [windows |-> [i \in Slots |-> Null], window_count |-> 0, focused_window |-> -1,
                      current_workspace |-> 0, needs_redraw |-> TRUE]
        /\ win = [w \in Ids |-> [x |-> Home[w], ws |-> 0, dragging |-> FALSE, surface |-> FALSE]]
    BY DEF Init
  <2>5. desktop \in [windows : [Slots -> Ids \cup {Null}], window_count : 0 .. OKI_MAX_WINDOWS,
                     focused_window : -1 .. OKI_MAX_WINDOWS - 1,
                     current_workspace : Workspaces, needs_redraw : BOOLEAN]
    BY <2>1, <2>2, <2>3, <2>4
  <2>6. win \in [Ids -> [x : 0 .. ScreenW - 1, ws : Workspaces, dragging : BOOLEAN, surface : BOOLEAN]]
    BY <2>1, <2>4
  <2>7. QED
    BY <2>5, <2>6 DEF DeskTypes
<1>4. TermTypes
  <2>1. <<>> \in Seq(Lines) /\ <<>> \in Seq(Chars \cup {NoChar}) /\ Len(<<>>) = 0
    BY EmptySeq
  <2>2. 0 <= TERM_ROWS /\ 0 <= TERM_INPUT_MAX
    BY DesktopAssumption
  <2>3. term = [win |-> Null, lines |-> <<>>, input |-> <<>>]
    BY DEF Init
  <2>4. QED
    BY <2>1, <2>2, <2>3 DEF TermTypes
<1>5. FlowTypes
  <2>1. OKI_MAX_WINDOWS \in Nat /\ OKI_MAX_WINDOWS >= 1 /\ Len(Windows) \in Nat /\ FramePause \in Nat
    BY WindowFacts, DesktopAssumption
  <2>2. slot = 0 /\ made = 0 /\ age = 0 /\ pc = "create" /\ missed = FALSE /\ overtaken = FALSE
    BY DEF Init
  <2>3. slot \in -1 .. OKI_MAX_WINDOWS - 1 /\ made \in 0 .. Len(Windows) /\ age \in 0 .. FramePause
    BY <2>1, <2>2
  <2>4. missed \in BOOLEAN /\ overtaken \in BOOLEAN /\ pc # "insert"
    BY <2>2
  <2>5. QED
    BY <2>3, <2>4 DEF FlowTypes
<1>6. QED
  BY <1>1, <1>2, <1>3, <1>4, <1>5 DEF TypeInv

\* ... and after every step.
LEMMA TypeNext ==
  ASSUME TypeInv, [Next]_vars PROVE TypeInv'
<1>1. KeyTypes' /\ MouseTypes'
  BY KeyTypesNext, MouseTypesNext DEF TypeInv
<1>2. DeskTypes'
  BY <1>1, DeskTypesNext
<1>3. TermTypes' /\ FlowTypes'
  BY TermTypesNext, FlowTypesNext
<1>4. QED
  BY <1>1, <1>2, <1>3 DEF TypeInv

\* The desktop's types, TypeOK: the indices the code computes stay within the
\* list (Refocus, the scans), the mouse on the screen and the terminal's text
\* within its rows and its input line.
THEOREM TypeCorrect == Spec => []TypeOK
<1>1. Init => TypeInv
  BY TypeInit
<1>2. TypeInv /\ [Next]_vars => TypeInv'
  BY TypeNext
<1>3. TypeInv => TypeOK
  BY DEF TypeInv, KeyTypes, CharsOK, CodesOK, MouseTypes, DeskTypes, TermTypes, FlowTypes, TypeOK
<1>4. QED
  BY <1>1, <1>2, <1>3, PTL DEF Spec

-----------------------------------------------------------------------------
(* The list and the focus *)

Desk == [windows : [Slots -> Ids \cup {Null}], window_count : 0 .. OKI_MAX_WINDOWS,
         focused_window : -1 .. OKI_MAX_WINDOWS - 1,
         current_workspace : Workspaces, needs_redraw : BOOLEAN]

\* The list has no hole, no window twice, and only the first m windows.
ListSound(d, m) ==
  /\ \A i \in Slots : i < d.window_count <=> d.windows[i] # Null
  /\ \A i, j \in Slots : d.windows[i] # Null /\ d.windows[i] = d.windows[j] => i = j
  /\ \A i \in Slots : d.windows[i] # Null => \E k \in 1 .. m : d.windows[i] = Windows[k]

\* Every window is on workspace 0.
FocusOK(d) == d.focused_window = -1 \/ (d.focused_window < d.window_count /\ d.current_workspace = 0)

\* The index the main flow holds is still what it was read as.
SlotOK ==
  /\ pc = "insert" => slot = desktop.window_count
  /\ pc = "switch" => slot = -1 \/ (slot >= 0 /\ slot < desktop.window_count /\ desktop.current_workspace = 0)

OnZero ==
  /\ \A w \in Ids : win[w].ws = 0
  /\ pc \in {"create", "insert", "greet"} => desktop.current_workspace = 0

FocusInv == OnZero /\ (~overtaken => ListSound(desktop, made) /\ FocusOK(desktop) /\ SlotOK)

\* A redraw that is asked for changes nothing else.
LEMMA AsksOnly ==
  ASSUME NEW d \in Desk
  PROVE  /\ Asks(d).windows = d.windows /\ Asks(d).window_count = d.window_count
         /\ Asks(d).focused_window = d.focused_window
         /\ Asks(d).current_workspace = d.current_workspace
         /\ Asks(d).needs_redraw = TRUE
  BY DEF Asks, Desk

\* The list stays one when a window is closed, and the focus in it.
LEMMA DestroyKeeps ==
  ASSUME TypeInv, NEW m, ListSound(desktop, m), FocusOK(desktop),
         NEW i \in Listed(desktop), desktop.current_workspace = 0,
         NEW d, d = Destroyed(desktop, i)
  PROVE  ListSound(d, m) /\ FocusOK(d)
<1> DEFINE n == desktop.window_count - 1
           old == desktop.windows
<1>1. /\ \A j \in Slots : d.windows[j] = IF j < i \/ j > n THEN old[j]
                                         ELSE IF j = n THEN Null ELSE old[j + 1]
      /\ d.window_count = n /\ d.focused_window = Refocus(desktop.focused_window, n)
      /\ d.current_workspace = 0
      /\ n \in 0 .. OKI_MAX_WINDOWS - 1 /\ i \in Slots
  BY DestroyedType
<1>2. OKI_MAX_WINDOWS \in Nat /\ i <= n /\ desktop.window_count = n + 1
  <2>1. i \in 0 .. desktop.window_count - 1 /\ desktop.window_count \in 0 .. OKI_MAX_WINDOWS
    BY DEF Listed, TypeInv, DeskTypes
  <2>2. QED
    BY <2>1, WindowFacts
<1>3. /\ \A j \in Slots : j < n + 1 <=> old[j] # Null
      /\ \A j, k \in Slots : old[j] # Null /\ old[j] = old[k] => j = k
      /\ \A j \in Slots : old[j] # Null => \E k \in 1 .. m : old[j] = Windows[k]
  BY <1>2 DEF ListSound
<1>4. \A j \in Slots : j \in Int /\ (j < n => j + 1 \in Slots)
  <2> HIDE DEF n
  <2>1. QED
    BY <1>1, <1>2 DEF Slots
<1> DEFINE from(j) == IF j < i THEN j ELSE j + 1
<1>5. ASSUME NEW j \in Slots
      PROVE  /\ j < n => from(j) \in Slots /\ d.windows[j] = old[from(j)] /\ d.windows[j] # Null
             /\ ~(j < n) => d.windows[j] = Null
  <2> HIDE DEF n, old
  <2>1. CASE j < i
    BY <1>1, <1>2, <1>3, <1>4, <2>1 DEF Slots
  <2>2. CASE ~(j < i) /\ j < n
    BY <1>1, <1>2, <1>3, <1>4, <2>2 DEF Slots
  <2>3. CASE ~(j < i) /\ ~(j < n)
    BY <1>1, <1>2, <1>3, <1>4, <2>3 DEF Slots
  <2>4. QED
    BY <2>1, <2>2, <2>3
<1>6. \A j \in Slots : j < d.window_count <=> d.windows[j] # Null
  BY <1>1, <1>5
<1>7. \A j, k \in Slots : d.windows[j] # Null /\ d.windows[j] = d.windows[k] => j = k
  <2> SUFFICES ASSUME NEW j \in Slots, NEW k \in Slots,
                      d.windows[j] # Null, d.windows[j] = d.windows[k]
               PROVE  j = k
    OBVIOUS
  <2>1. j < n /\ k < n
    BY <1>5
  <2>2. from(j) = from(k)
    <3> HIDE DEF from
    <3>1. QED
      BY <1>3, <1>5, <2>1
  <2>3. j \in Int /\ k \in Int /\ i \in Int
    BY <1>1, <1>4
  <2>4. QED
    BY <2>2, <2>3
<1>8. \A j \in Slots : d.windows[j] # Null => \E k \in 1 .. m : d.windows[j] = Windows[k]
  <2> SUFFICES ASSUME NEW j \in Slots, d.windows[j] # Null
               PROVE  \E k \in 1 .. m : d.windows[j] = Windows[k]
    OBVIOUS
  <2> HIDE DEF from
  <2>1. from(j) \in Slots /\ d.windows[j] = old[from(j)]
    BY <1>5
  <2>2. QED
    BY <1>3, <2>1
<1>9. FocusOK(d)
  <2>1. desktop.focused_window \in Int /\ (desktop.focused_window >= n => d.focused_window = n - 1)
        /\ (~(desktop.focused_window >= n) => d.focused_window = desktop.focused_window)
    BY <1>1 DEF Refocus, TypeInv, DeskTypes
  <2> HIDE DEF n
  <2>2. n \in Int
    BY <1>1, <1>2
  <2>3. d.focused_window < n
    BY <2>1, <2>2
  <2>4. QED
    BY <1>1, <2>3 DEF FocusOK
<1>10. QED
  BY <1>6, <1>7, <1>8, <1>9 DEF ListSound

\* A click changes neither the workspace nor, other than by closing a window of
\* it, the list.
LEMMA ClickKeeps ==
  ASSUME TypeInv, TypeInv', OnZero, OkiHandleMouse
  PROVE  /\ desktop'.current_workspace = desktop.current_workspace
         /\ desktop'.needs_redraw
         /\ desktop'.window_count = desktop.window_count \/ desktop'.window_count < desktop.window_count
         /\ \A m : ListSound(desktop, m) /\ FocusOK(desktop) => ListSound(desktop', m) /\ FocusOK(desktop')
<1>1. desktop \in Desk /\ MouseTypes'
  BY DEF TypeInv, DeskTypes, Desk
<1>2. CASE desktop' = Asks(desktop)
  <2>1. /\ desktop'.windows = desktop.windows /\ desktop'.window_count = desktop.window_count
        /\ desktop'.focused_window = desktop.focused_window
        /\ desktop'.current_workspace = desktop.current_workspace
        /\ desktop'.needs_redraw
    BY <1>1, <1>2, AsksOnly
  <2>2. QED
    BY <2>1 DEF ListSound, FocusOK
<1>3. ASSUME NEW i \in Listed(desktop), OnWorkspace(desktop, i),
             desktop' = Asks([desktop EXCEPT !.focused_window = i])
      PROVE  /\ desktop'.windows = desktop.windows /\ desktop'.window_count = desktop.window_count
             /\ desktop'.focused_window = i
             /\ desktop'.current_workspace = desktop.current_workspace
             /\ desktop'.needs_redraw
  <2>1. i \in 0 .. OKI_MAX_WINDOWS - 1 /\ OKI_MAX_WINDOWS \in Nat
    BY ListedIn, WindowFacts DEF Slots
  <2>2. i \in -1 .. OKI_MAX_WINDOWS - 1
    BY <2>1
  <2> DEFINE d == [desktop EXCEPT !.focused_window = i]
  <2>3. /\ d \in Desk /\ d.windows = desktop.windows /\ d.window_count = desktop.window_count
        /\ d.focused_window = i /\ d.current_workspace = desktop.current_workspace
    BY <1>1, <2>2 DEF Desk
  <2>4. desktop' = Asks(d)
    BY <1>3
  <2> HIDE DEF d
  <2>5. QED
    BY <2>3, <2>4, AsksOnly
<1>4. ASSUME NEW i \in Listed(desktop), OnWorkspace(desktop, i)
      PROVE  desktop.current_workspace = 0 /\ i < desktop.window_count
  <2>1. desktop.windows[i] \in Ids /\ i \in 0 .. desktop.window_count - 1 /\ desktop.window_count \in Nat
    BY ListedIn
  <2>2. QED
    BY <1>4, <2>1 DEF OnWorkspace, OnZero
<1>5. ASSUME NEW i \in Listed(desktop), OnWorkspace(desktop, i),
             desktop' = Asks(Destroyed(desktop, i)), NEW m, ListSound(desktop, m), FocusOK(desktop)
      PROVE  ListSound(desktop', m) /\ FocusOK(desktop')
  <2>1. PICK d : d = Destroyed(desktop, i)
    OBVIOUS
  <2>2. ListSound(d, m) /\ FocusOK(d)
    BY <1>4, <1>5, <2>1, DestroyKeeps
  <2>3. d \in Desk
    BY <2>1, DestroyedType DEF Desk
  <2>4. /\ desktop'.windows = d.windows /\ desktop'.window_count = d.window_count
        /\ desktop'.focused_window = d.focused_window
        /\ desktop'.current_workspace = d.current_workspace
    BY <1>5, <2>1, <2>3, AsksOnly
  <2>5. QED
    BY <2>2, <2>4 DEF ListSound, FocusOK
<1>6. ASSUME NEW i \in Listed(desktop), desktop' = Asks(Destroyed(desktop, i))
      PROVE  /\ desktop'.current_workspace = desktop.current_workspace
             /\ desktop'.window_count < desktop.window_count
             /\ desktop'.needs_redraw
  <2>1. PICK d : d = Destroyed(desktop, i)
    OBVIOUS
  <2>2. /\ d \in Desk /\ d.current_workspace = desktop.current_workspace
        /\ d.window_count = desktop.window_count - 1
    BY <2>1, DestroyedType DEF Desk
  <2>3. /\ desktop'.window_count = d.window_count
        /\ desktop'.current_workspace = d.current_workspace
        /\ desktop'.needs_redraw
    BY <1>6, <2>1, <2>2, AsksOnly
  <2>4. desktop.window_count \in Int
    BY <1>1 DEF Desk
  <2>5. QED
    BY <2>2, <2>3, <2>4
<1>7. CASE desktop' = Asks(desktop)
  BY <1>2, <1>7
<1>8. CASE desktop' # Asks(desktop)
  <2>1. PICK i \in Listed(desktop) :
          /\ OnWorkspace(desktop, i)
          /\ \/ desktop' = Asks(Destroyed(desktop, i))
             \/ desktop' = Asks([desktop EXCEPT !.focused_window = i])
    BY <1>1, <1>8, ClickDoes
  <2>2. CASE desktop' = Asks(Destroyed(desktop, i))
    BY <1>5, <1>6, <2>1, <2>2
  <2>3. CASE desktop' = Asks([desktop EXCEPT !.focused_window = i])
    <3>1. desktop.current_workspace = 0 /\ i < desktop.window_count
      BY <1>4, <2>1
    <3>2. QED
      BY <1>3, <2>1, <2>3, <3>1 DEF ListSound, FocusOK
  <2>4. QED
    BY <2>1, <2>2, <2>3
<1>9. QED
  BY <1>7, <1>8

\* All windows are on workspace 0, where the desktop starts.
LEMMA OnZeroNext ==
  ASSUME TypeInv, TypeInv', OnZero, [Next]_vars PROVE OnZero'
<1>1. \A w \in Ids : win[w].ws = 0
  BY DEF OnZero
<1>2. \A w \in Ids : win'[w].ws = 0
  <2>1. CASE UNCHANGED win
    BY <1>1, <2>1
  <2>2. CASE CreateWindow /\ ~UNCHANGED win
    <3> DEFINE v == Windows[made + 1]
    <3>1. pc = "create" /\ \E s \in BOOLEAN : win' = [win EXCEPT ![v] = [@ EXCEPT !.surface = s, !.ws = desktop.current_workspace]]
      BY <2>2 DEF CreateWindow
    <3>2. PICK s \in BOOLEAN : win' = [win EXCEPT ![v] = [win[v] EXCEPT !.surface = s, !.ws = desktop.current_workspace]]
      BY <3>1
    <3>3. desktop.current_workspace = 0
      BY <3>1 DEF OnZero
    <3>4. \A w \in Ids : win[w] \in [x : 0 .. ScreenW - 1, ws : Workspaces, dragging : BOOLEAN, surface : BOOLEAN]
      BY DEF TypeInv, DeskTypes
    <3>5. DOMAIN win = Ids
      BY DEF TypeInv, DeskTypes
    <3> HIDE DEF v
    <3>6. QED
      BY <1>1, <3>2, <3>3, <3>4, <3>5
  <2>3. CASE MouseIrq
    <3>1. OkiHandleMouse
      BY <2>3 DEF MouseIrq
    <3>2. \A w \in Ids : win'[w].ws = win[w].ws
      BY <3>1, ClickDoes DEF TypeInv
    <3>3. QED
      BY <1>1, <3>2
  <2>4. QED
    <3>1. ASSUME Next PROVE UNCHANGED win \/ CreateWindow \/ MouseIrq
      BY <3>1 DEF Next, Main, KeyIrq, MouseQuiet, Tick, InsertWindow, Greet,
                  FirstFrame, FirstCursor, PollCode, OtherKey, SwitchWorkspace, SwitchFocus,
                  PollChar, CheckFocus, TypeChar, Compose, Swap, ClearRedraw, NoFrame
    <3>2. UNCHANGED vars => UNCHANGED win
      BY DEF vars, deskvars
    <3>3. QED
      BY <2>1, <2>2, <2>3, <3>1, <3>2
<1>3. desktop \in Desk
  BY DEF TypeInv, DeskTypes, Desk
<1>4. pc' \in {"create", "insert", "greet"} =>
        pc \in {"create", "insert", "greet"} /\ desktop'.current_workspace = desktop.current_workspace
  <2>1. CASE InsertWindow \/ Greet
    BY <1>3, <2>1 DEF InsertWindow, Greet, Rendered, Desk
  <2>2. CASE MouseIrq
    <3>1. OkiHandleMouse /\ MouseTypes'
      BY <2>2 DEF MouseIrq, TypeInv
    <3>2. desktop'.current_workspace = desktop.current_workspace
      BY <3>1, ClickKeeps
    <3>3. pc' \in {pc, "codes"}
      BY <2>2 DEF MouseIrq, Wakes
    <3>4. QED
      BY <3>2, <3>3
  <2>3. CASE UNCHANGED desktop /\ (pc' \in {"create", "insert", "greet"} => pc \in {"create", "insert", "greet"})
    BY <2>3
  <2>4. CASE pc' \notin {"create", "insert", "greet"}
    BY <2>4
  <2>5. QED
    <3>1. ASSUME Next
          PROVE  \/ InsertWindow \/ Greet \/ MouseIrq \/ pc' \notin {"create", "insert", "greet"}
                 \/ UNCHANGED desktop /\ (pc' \in {"create", "insert", "greet"} => pc \in {"create", "insert", "greet"})
      BY <3>1 DEF Next, Main, KeyIrq, MouseQuiet, Tick, CreateWindow, Wakes,
                  FirstFrame, FirstCursor, PollCode, OtherKey, SwitchWorkspace, SwitchFocus,
                  PollChar, CheckFocus, TypeChar, Compose, Swap, ClearRedraw, NoFrame
    <3>2. UNCHANGED vars => UNCHANGED <<desktop, pc>>
      BY DEF vars, deskvars
    <3>3. QED
      BY <2>1, <2>2, <2>3, <2>4, <3>1, <3>2
<1>5. QED
  BY <1>2, <1>4 DEF OnZero

\* The list, the focus and the index in the main flow's hands, after a step.
LEMMA FocusNext ==
  ASSUME TypeInv, TypeInv', FocusInv, [Next]_vars PROVE FocusInv'
<1>1. OnZero /\ OnZero'
  BY OnZeroNext DEF FocusInv
<1>2. SUFFICES ASSUME ~overtaken' PROVE ListSound(desktop', made') /\ FocusOK(desktop') /\ SlotOK'
  BY <1>1 DEF FocusInv, ListSound, FocusOK
<1>3. ~overtaken
  BY <1>2 DEF Next, Main, KeyIrq, MouseQuiet, MouseIrq, Tick, CreateWindow, InsertWindow, Greet,
         FirstFrame, FirstCursor, PollCode, OtherKey, SwitchWorkspace, SwitchFocus, PollChar,
         CheckFocus, TypeChar, Compose, Swap, ClearRedraw, NoFrame, vars, deskvars
<1>4. ListSound(desktop, made) /\ FocusOK(desktop) /\ SlotOK
  BY <1>3 DEF FocusInv
<1>5. /\ desktop \in Desk /\ desktop' \in Desk /\ OKI_MAX_WINDOWS \in Nat
      /\ made \in 0 .. Len(Windows) /\ Len(Windows) \in Nat
      /\ slot \in -1 .. OKI_MAX_WINDOWS - 1
  <2>1. made \in 0 .. Len(Windows) /\ slot \in -1 .. OKI_MAX_WINDOWS - 1
    BY Zenon DEF TypeInv, FlowTypes
  <2>2. desktop \in Desk /\ desktop' \in Desk
    BY Zenon DEF TypeInv, DeskTypes, Desk
  <2>3. OKI_MAX_WINDOWS \in Nat /\ Len(Windows) \in Nat
    BY WindowFacts
  <2>4. QED
    BY <2>1, <2>2, <2>3, Zenon
<1>6. \A m \in Nat : ListSound(desktop, m) => ListSound(desktop, m + 1)
  BY DEF ListSound
<1>7. ASSUME \/ desktop' = desktop
             \/ \E b \in BOOLEAN : desktop' = [desktop EXCEPT !.needs_redraw = b]
      PROVE  /\ \A m : ListSound(desktop', m) <=> ListSound(desktop, m)
             /\ FocusOK(desktop')
             /\ desktop'.window_count = desktop.window_count
             /\ desktop'.current_workspace = desktop.current_workspace
  <2>1. /\ desktop'.windows = desktop.windows /\ desktop'.window_count = desktop.window_count
        /\ desktop'.focused_window = desktop.focused_window
        /\ desktop'.current_workspace = desktop.current_workspace
    BY <1>5, <1>7 DEF Desk
  <2>2. QED
    BY <1>4, <2>1 DEF ListSound, FocusOK
<1>8. CASE CreateWindow
  <2>1. desktop' = desktop
    BY <1>8 DEF CreateWindow
  <2>2. \/ made' = made /\ slot' = desktop.window_count /\ pc' = "insert"
        \/ made' = made + 1 /\ pc' = "create"
    BY <1>8 DEF CreateWindow
  <2>3. SlotOK'
    BY <2>1, <2>2 DEF SlotOK
  <2>4. made \in Nat
    BY <1>5
  <2>5. QED
    BY <1>4, <1>6, <2>1, <2>2, <2>3, <2>4
<1>9. CASE InsertWindow
  <2> DEFINE v == Windows[made + 1]
             c == desktop.window_count
  <2>1. /\ pc = "insert" /\ slot = c /\ made' = made + 1 /\ slot' = 0 /\ pc' \in {"create", "greet"}
        /\ desktop' = [desktop EXCEPT !.windows[c] = v, !.focused_window = c,
                                      !.window_count = c + 1, !.needs_redraw = TRUE]
    BY <1>4, <1>9 DEF InsertWindow, SlotOK
  <2>2. c \in Slots /\ c \in Nat
    BY <1>5, <2>1 DEF Desk, Slots
  <2>3. made + 1 \in 1 .. Len(Windows) /\ made < Len(Windows)
    BY <1>5, <2>1 DEF TypeInv, FlowTypes
  <2>4. v \in Ids /\ v # Null
    BY <2>3, WindowFacts
  <2> HIDE DEF v, c
  <2>5. /\ \A i \in Slots : desktop'.windows[i] = IF i = c THEN v ELSE desktop.windows[i]
        /\ desktop'.window_count = c + 1 /\ desktop'.focused_window = c
        /\ desktop'.current_workspace = desktop.current_workspace
    BY <1>5, <2>1, <2>2 DEF Desk
  <2>6. desktop.current_workspace = 0
    BY <1>1, <2>1 DEF OnZero
  <2>7. /\ \A i \in Slots : i < c <=> desktop.windows[i] # Null
        /\ \A i, j \in Slots : desktop.windows[i] # Null /\ desktop.windows[i] = desktop.windows[j] => i = j
        /\ \A i \in Slots : desktop.windows[i] # Null => \E k \in 1 .. made : desktop.windows[i] = Windows[k]
    BY <1>4 DEF ListSound, c
  <2>8. \A i \in Slots : desktop.windows[i] # v
    <3> SUFFICES ASSUME NEW i \in Slots, desktop.windows[i] = v PROVE FALSE
      OBVIOUS
    <3>1. PICK k \in 1 .. made : v = Windows[k]
      BY <2>4, <2>7
    <3>2. k \in DOMAIN Windows /\ made + 1 \in DOMAIN Windows /\ k # made + 1
      <4>1. k \in 1 .. Len(Windows) /\ k # made + 1
        BY <1>5
      <4>2. QED
        BY <2>3, <4>1, WindowFacts
    <3>3. QED
      BY <3>1, <3>2, DesktopAssumption DEF v
  <2>9. \A i \in Slots : i \in Int
    BY DEF Slots
  <2>10. \A i \in Slots : i < c + 1 <=> desktop'.windows[i] # Null
    BY <2>2, <2>4, <2>5, <2>7, <2>9
  <2>11. \A i, j \in Slots : desktop'.windows[i] # Null /\ desktop'.windows[i] = desktop'.windows[j] => i = j
    BY <2>5, <2>7, <2>8
  <2>12. \A i \in Slots : desktop'.windows[i] # Null => \E k \in 1 .. made + 1 : desktop'.windows[i] = Windows[k]
    <3> SUFFICES ASSUME NEW i \in Slots, desktop'.windows[i] # Null
                 PROVE  \E k \in 1 .. made + 1 : desktop'.windows[i] = Windows[k]
      OBVIOUS
    <3>1. CASE i = c
      <4>1. made + 1 \in 1 .. made + 1
        BY <1>5
      <4>2. desktop'.windows[i] = Windows[made + 1]
        BY <2>5, <3>1 DEF v
      <4>3. QED
        BY <4>1, <4>2
    <3>2. CASE i # c
      <4>1. PICK k \in 1 .. made : desktop.windows[i] = Windows[k]
        BY <2>5, <2>7, <3>2
      <4>2. k \in 1 .. made + 1
        BY <1>5
      <4>3. QED
        BY <2>5, <3>2, <4>1, <4>2
    <3>3. QED
      BY <3>1, <3>2
  <2>13. ListSound(desktop', made')
    BY <2>1, <2>5, <2>10, <2>11, <2>12 DEF ListSound
  <2>14. FocusOK(desktop')
    BY <2>2, <2>5, <2>6 DEF FocusOK
  <2>15. SlotOK'
    BY <2>1 DEF SlotOK
  <2>16. QED
    BY <2>13, <2>14, <2>15
<1>10. CASE SwitchWorkspace
  <2>1. PICK ws \in Workspaces :
          LET d == [desktop EXCEPT !.current_workspace = ws, !.focused_window = -1] IN
          desktop' = d /\ slot' = IF Found(d) = {} THEN -1 ELSE Max(Found(d))
    BY <1>10, Zenon DEF SwitchWorkspace
  <2> DEFINE d == [desktop EXCEPT !.current_workspace = ws, !.focused_window = -1]
  <2>2. /\ d.windows = desktop.windows /\ d.window_count = desktop.window_count
        /\ d.focused_window = -1 /\ d.current_workspace = ws
    BY <1>5 DEF Desk
  <2>3. desktop' = d /\ slot' = IF Found(d) = {} THEN -1 ELSE Max(Found(d))
    BY <2>1
  <2>4. made' = made /\ pc' = "switch"
    BY <1>10 DEF SwitchWorkspace
  <2> HIDE DEF d
  <2>5. ListSound(desktop', made')
    BY <1>4, <2>2, <2>3, <2>4 DEF ListSound
  <2>6. FocusOK(desktop')
    BY <2>2, <2>3 DEF FocusOK
  <2>7. ASSUME Found(d) # {}
        PROVE  slot' \in 0 .. desktop.window_count - 1 /\ ws = 0
    <3>1. Found(d) \subseteq 0 .. desktop.window_count - 1 /\ desktop.window_count \in Nat
      BY <1>5, <2>2 DEF Found, Listed, Desk
    <3>2. slot' \in Found(d)
      BY <2>3, <2>7, <3>1, MinMaxIn
    <3>3. OnWorkspace(d, slot')
      BY <3>2 DEF Found
    <3>4. slot' \in Slots
      BY <1>5, <3>1, <3>2 DEF Slots, Desk
    <3>5. desktop.windows[slot'] \in Ids
      BY <1>5, <2>2, <3>3, <3>4 DEF OnWorkspace, Desk
    <3>6. win[desktop.windows[slot']].ws = ws
      BY <2>2, <3>3 DEF OnWorkspace
    <3>7. QED
      BY <1>1, <3>1, <3>2, <3>5, <3>6 DEF OnZero
  <2>8. SlotOK'
    <3>1. CASE Found(d) = {}
      <4>1. slot' = -1
        BY <2>3, <3>1
      <4>2. QED
        BY <2>4, <4>1 DEF SlotOK
    <3>2. CASE Found(d) # {}
      <4>1. slot' \in 0 .. desktop.window_count - 1 /\ ws = 0 /\ desktop.window_count \in Int
        BY <1>5, <2>7, <3>2 DEF Desk
      <4>2. slot' >= 0 /\ slot' < desktop.window_count
        BY <4>1
      <4>3. QED
        BY <2>2, <2>3, <2>4, <4>1, <4>2 DEF SlotOK
    <3>3. QED
      BY <3>1, <3>2
  <2>9. QED
    BY <2>5, <2>6, <2>8
<1>11. CASE SwitchFocus
  <2> DEFINE f == IF slot = -1 THEN desktop.focused_window ELSE slot
  <2>1. /\ desktop' = [desktop EXCEPT !.focused_window = f, !.needs_redraw = TRUE]
        /\ made' = made /\ pc = "switch" /\ pc' = "chars"
    BY <1>11 DEF SwitchFocus
  <2> HIDE DEF f
  <2>2. /\ desktop'.windows = desktop.windows /\ desktop'.window_count = desktop.window_count
        /\ desktop'.focused_window = f /\ desktop'.current_workspace = desktop.current_workspace
    BY <1>5, <2>1 DEF Desk
  <2>3. ListSound(desktop', made')
    BY <1>4, <2>1, <2>2 DEF ListSound
  <2>4. FocusOK(desktop')
    BY <1>4, <2>1, <2>2 DEF FocusOK, SlotOK, f
  <2>5. SlotOK'
    BY <2>1 DEF SlotOK
  <2>6. QED
    BY <2>3, <2>4, <2>5
<1>12. CASE MouseIrq
  <2>1. OkiHandleMouse /\ made' = made /\ slot' = slot /\ pc' = IF pc = "hlt" THEN "codes" ELSE pc
    BY <1>12 DEF MouseIrq, Wakes
  <2>2. /\ desktop'.current_workspace = desktop.current_workspace
        /\ desktop'.window_count = desktop.window_count \/ desktop'.window_count < desktop.window_count
        /\ ListSound(desktop', made) /\ FocusOK(desktop')
    BY <1>1, <1>4, <2>1, ClickKeeps
  <2>3. Holding => desktop'.window_count = desktop.window_count
    BY <1>2, <1>12, <2>2 DEF MouseIrq
  <2>4. SlotOK'
    BY <1>4, <2>1, <2>2, <2>3 DEF SlotOK, Holding
  <2>5. QED
    BY <2>1, <2>2, <2>4
<1>13. CASE /\ desktop' = desktop \/ \E b \in BOOLEAN : desktop' = [desktop EXCEPT !.needs_redraw = b]
            /\ made' = made
            /\ slot' = slot
            /\ pc' \in {"insert", "switch"} => pc' = pc
  <2>1. /\ ListSound(desktop', made') /\ FocusOK(desktop')
        /\ desktop'.window_count = desktop.window_count
        /\ desktop'.current_workspace = desktop.current_workspace
    BY <1>4, <1>7, <1>13
  <2>2. SlotOK'
    BY <1>4, <1>13, <2>1 DEF SlotOK
  <2>3. QED
    BY <2>1, <2>2
<1>14. CASE Next
  <2>1. CASE Greet \/ TypeChar
    BY <1>13, <2>1 DEF Greet, TypeChar, Rendered
  <2>2. CASE KeyIrq \/ MouseQuiet \/ Tick
    BY <1>13, <2>2 DEF KeyIrq, MouseQuiet, Tick, Wakes
  <2>3. CASE \/ FirstFrame \/ FirstCursor \/ PollCode \/ OtherKey \/ PollChar \/ CheckFocus
             \/ Compose \/ Swap \/ ClearRedraw \/ NoFrame
    BY <1>13, <2>3 DEF FirstFrame, FirstCursor, PollCode, OtherKey, PollChar, CheckFocus,
                       Compose, Swap, ClearRedraw, NoFrame
  <2>4. QED
    BY <1>8, <1>9, <1>10, <1>11, <1>12, <1>14, <2>1, <2>2, <2>3 DEF Next, Main
<1>15. CASE UNCHANGED vars
  BY <1>13, <1>15 DEF vars, deskvars
<1>16. QED
  BY <1>14, <1>15

\* FocusSound: whatever is closed, dragged and switched, in whatever order with
\* the main flow, the focus names a window of the list on the workspace shown.
\* Inductive with it: the list is a gapless sequence of different windows that
\* have been created (so the next to enter is new), all windows are on workspace
\* 0, and the index the main flow is about to use is still what it was read as.
THEOREM FocusSoundHolds == Spec => []FocusSound
<1>1. Init => FocusInv
  <2> SUFFICES ASSUME Init PROVE FocusInv
    OBVIOUS
  <2>1. /\ desktop = [windows |-> [i \in Slots |-> Null], window_count |-> 0, focused_window |-> -1,
                      current_workspace |-> 0, needs_redraw |-> TRUE]
        /\ win = [w \in Ids |-> [x |-> Home[w], ws |-> 0, dragging |-> FALSE, surface |-> FALSE]]
        /\ pc = "create"
    BY DEF Init
  <2>2. OnZero /\ SlotOK /\ FocusOK(desktop)
    BY <2>1 DEF OnZero, SlotOK, FocusOK
  <2>3. ListSound(desktop, made)
    <3>1. \A i \in Slots : ~(i < 0)
      BY WindowFacts DEF Slots
    <3>2. QED
      BY <2>1, <3>1 DEF ListSound
  <2>4. QED
    BY <2>2, <2>3 DEF FocusInv
<1>2. TypeInv /\ FocusInv /\ [Next]_vars => TypeInv' /\ FocusInv'
  BY TypeNext, FocusNext
<1>3. TypeInv /\ FocusInv => FocusSound
  <2> SUFFICES ASSUME TypeInv, FocusInv, ~overtaken
               PROVE  /\ \A i, j \in Slots :
                           (i < desktop.window_count) = (desktop.windows[i] # Null)
                           /\ (i # j /\ desktop.windows[i] = desktop.windows[j] => desktop.windows[i] = Null)
                      /\ \/ desktop.focused_window = -1
                         \/ /\ desktop.focused_window < desktop.window_count
                            /\ OnWorkspace(desktop, desktop.focused_window)
    BY DEF FocusSound
  <2>1. ListSound(desktop, made) /\ FocusOK(desktop) /\ OnZero
    BY DEF FocusInv
  <2>2. ASSUME desktop.focused_window # -1
        PROVE  OnWorkspace(desktop, desktop.focused_window)
    <3>1. desktop \in Desk /\ OKI_MAX_WINDOWS \in Nat
      BY WindowFacts DEF TypeInv, DeskTypes, Desk
    <3>2. desktop.focused_window \in Slots /\ desktop.focused_window < desktop.window_count
      BY <2>1, <2>2, <3>1 DEF Slots, Desk, FocusOK
    <3>3. desktop.windows[desktop.focused_window] \in Ids /\ desktop.windows[desktop.focused_window] # Null
      BY <2>1, <3>1, <3>2 DEF ListSound, Desk
    <3>4. QED
      BY <2>1, <2>2, <3>3 DEF OnWorkspace, OnZero, FocusOK
  <2>3. QED
    BY <2>1, <2>2 DEF ListSound, FocusOK
<1>4. Init => TypeInv
  BY TypeInit
<1>5. QED
  BY <1>1, <1>2, <1>3, <1>4, PTL DEF Spec

-----------------------------------------------------------------------------
(* The screen *)

\* Where the main flow is, what is on the screen or asked for.
ShownInv ==
  /\ pc \in {"create", "insert", "greet", "first"} => desktop.needs_redraw
  /\ pc \notin {"create", "insert", "greet", "first", "switch", "cursor", "clear"} =>
       shown = Screen \/ desktop.needs_redraw \/ missed
  /\ pc = "cursor" => desktop.needs_redraw /\ (drawn = Picture \/ missed)
  /\ pc = "clear" => desktop.needs_redraw /\ (shown = Screen \/ missed)

\* A picture shows the list, the focus, the workspace, the windows and the
\* terminal, and nothing else ...
LEMMA PictureSame ==
  ASSUME desktop \in Desk, UNCHANGED <<win, term>>,
         desktop' = desktop \/ \E b \in BOOLEAN : desktop' = [desktop EXCEPT !.needs_redraw = b]
  PROVE  Picture' = Picture
<1>1. /\ desktop'.windows = desktop.windows /\ desktop'.window_count = desktop.window_count
      /\ desktop'.focused_window = desktop.focused_window
      /\ desktop'.current_workspace = desktop.current_workspace
  BY DEF Desk
<1>2. win' = win /\ term' = term
  OBVIOUS
<1>3. QED
  BY <1>1, <1>2, Zenon DEF Picture, OnWorkspace, PanelTitle

\* ... and of a terminal without a surface not even its text.
LEMMA TextUnseen ==
  ASSUME TypeInv, UNCHANGED <<win, desktop>>, term'.win = term.win, ~win[Terminal].surface
  PROVE  Picture' = Picture
<1>1. term.win \in {Null, Terminal} /\ win' = win /\ desktop' = desktop
  BY DEF TypeInv, TermTypes
<1>2. \A i : desktop.windows[i] # Null =>
        /\ ~(desktop.windows[i] = term.win /\ win[term.win].surface)
  BY <1>1
<1> DEFINE At == {j \in 0 .. desktop.window_count - 1 : OnWorkspace(desktop, j)}
           Text(t, i) == IF desktop.windows[i] = t.win /\ win[t.win].surface
                           THEN <<t.lines, t.input>> ELSE <<>>
           Look(t, i) == [id |-> desktop.windows[i], x |-> win[desktop.windows[i]].x, text |-> Text(t, i)]
<1>3. Picture = [windows |-> [i \in At |-> Look(term, i)], title |-> PanelTitle(desktop),
                 workspace |-> desktop.current_workspace]
  BY Zenon DEF Picture
<1>4. Picture' = [windows |-> [i \in At |-> Look(term', i)], title |-> PanelTitle(desktop),
                  workspace |-> desktop.current_workspace]
  BY <1>1, Zenon DEF Picture, OnWorkspace, PanelTitle
<1>5. \A i \in At : Text(term, i) = <<>> /\ Text(term', i) = <<>>
  BY <1>1, <1>2 DEF OnWorkspace
<1>6. [i \in At |-> Look(term, i)] = [i \in At |-> Look(term', i)]
  <2> HIDE DEF At, Text
  <2>1. QED
    BY <1>5, Zenon
<1>7. QED
  BY <1>3, <1>4, <1>6, Zenon

\* What is seen has been asked for after every step.
LEMMA ShownNext ==
  ASSUME TypeInv, TypeInv', OnZero, ShownInv, [Next]_vars PROVE ShownInv'
<1>1. desktop \in Desk /\ Screen = <<Picture, mouse.x>> /\ Screen' = <<Picture', mouse'.x>>
  BY DEF TypeInv, DeskTypes, Desk, Screen
<1>2. CASE CreateWindow \/ InsertWindow \/ Greet \/ FirstFrame
  <2>1. /\ pc \in {"create", "insert", "greet"} /\ pc' \in {"create", "insert", "greet", "first"}
        /\ desktop'.needs_redraw \in {desktop.needs_redraw, TRUE}
    BY <1>1, <1>2 DEF CreateWindow, InsertWindow, Greet, FirstFrame, Rendered, Desk
  <2>2. desktop.needs_redraw
    BY <2>1 DEF ShownInv
  <2>3. QED
    BY <2>1, <2>2 DEF ShownInv
<1>3. CASE FirstCursor
  BY <1>3 DEF FirstCursor, ShownInv
<1>4. CASE MouseIrq
  <2>1. desktop'.needs_redraw
    BY <1>4, ClickKeeps DEF MouseIrq
  <2>2. pc' \in {pc, "codes"} /\ (pc \in {"cursor", "clear"} => missed') /\ pc' = IF pc = "hlt" THEN "codes" ELSE pc
    BY <1>4 DEF MouseIrq, Wakes, Composing
  <2>3. QED
    BY <2>1, <2>2 DEF ShownInv
<1>5. CASE SwitchWorkspace
  BY <1>5 DEF SwitchWorkspace, ShownInv
<1>6. CASE SwitchFocus
  <2>1. desktop'.needs_redraw /\ pc' = "chars"
    BY <1>1, <1>6 DEF SwitchFocus, Desk
  <2>2. QED
    BY <2>1 DEF ShownInv
<1>7. CASE TypeChar
  <2>1. /\ pc = "type" /\ pc' = "frame" /\ UNCHANGED <<win, mouse, shown, missed>>
        /\ term' \in Typed(char) /\ desktop' = IF term' # term THEN Rendered(desktop) ELSE desktop
    BY <1>7 DEF TypeChar, mousevars
  <2>2. CASE term' = term
    <3>1. Picture' = Picture
      BY <1>1, <2>1, <2>2, PictureSame
    <3>2. QED
      BY <1>1, <2>1, <2>2, <3>1 DEF ShownInv
  <2>3. CASE term' # term /\ win[Terminal].surface
    <3>1. desktop'.needs_redraw
      BY <1>1, <2>1, <2>3 DEF Rendered, Desk
    <3>2. QED
      BY <2>1, <3>1 DEF ShownInv
  <2>4. CASE term' # term /\ ~win[Terminal].surface
    <3>1. desktop' = desktop
      BY <2>1, <2>4 DEF Rendered
    <3>2. term'.win = term.win
      BY <2>1 DEF Typed, TypeInv, TermTypes
    <3>3. Picture' = Picture
      BY <2>1, <2>4, <3>1, <3>2, TextUnseen
    <3>4. QED
      BY <1>1, <2>1, <3>1, <3>3 DEF ShownInv
  <2>5. QED
    BY <2>2, <2>3, <2>4
<1>8. CASE Compose
  <2>1. /\ pc' = "cursor" /\ drawn' = Picture /\ desktop' = desktop /\ UNCHANGED <<win, term>>
        /\ desktop.needs_redraw
    BY <1>8 DEF Compose
  <2>2. Picture' = Picture
    BY <1>1, <2>1, PictureSame
  <2>3. QED
    BY <2>1, <2>2 DEF ShownInv
<1>9. CASE Swap
  <2>1. /\ pc = "cursor" /\ pc' = "clear" /\ shown' = <<drawn, mouse.x>> /\ desktop' = desktop
        /\ UNCHANGED <<win, term, mouse, missed>>
    BY <1>9 DEF Swap, mousevars
  <2>2. Picture' = Picture
    BY <1>1, <2>1, PictureSame
  <2>3. QED
    BY <1>1, <2>1, <2>2 DEF ShownInv
<1>10. CASE ClearRedraw
  <2>1. /\ pc = "clear" /\ pc' = "hlt" /\ desktop' = [desktop EXCEPT !.needs_redraw = FALSE]
        /\ UNCHANGED <<win, term, mouse, missed, shown>>
    BY <1>10 DEF ClearRedraw, mousevars
  <2>2. Picture' = Picture
    BY <1>1, <2>1, PictureSame
  <2>3. QED
    BY <1>1, <2>1, <2>2 DEF ShownInv
<1>11. CASE /\ UNCHANGED <<desktop, win, term, shown, drawn, missed>> /\ mouse'.x = mouse.x
            /\ \/ pc' = pc
               \/ {pc, pc'} \subseteq {"codes", "key", "chars", "char", "type", "frame", "hlt"}
  <2>1. Picture' = Picture
    BY <1>1, <1>11, PictureSame
  <2>2. QED
    BY <1>1, <1>11, <2>1 DEF ShownInv
<1>12. CASE Next
  <2>1. CASE KeyIrq \/ Tick
    BY <1>11, <2>1 DEF KeyIrq, Tick, Wakes, mousevars
  <2>2. CASE MouseQuiet
    <3>1. PICK p \in Packet : ~Notifies(p) /\ mouse' = Decoded(p)
      BY <2>2 DEF MouseQuiet, Complete
    <3>2. mouse'.x = mouse.x
      BY <3>1 DEF Decoded, Notifies, TypeInv, MouseTypes
    <3>3. QED
      BY <1>11, <2>2, <3>2 DEF MouseQuiet, Wakes
  <2>3. CASE PollCode \/ OtherKey \/ PollChar \/ CheckFocus \/ NoFrame
    BY <1>11, <2>3 DEF PollCode, OtherKey, PollChar, CheckFocus, NoFrame, mousevars
  <2>4. QED
    BY <1>2, <1>3, <1>4, <1>5, <1>6, <1>7, <1>8, <1>9, <1>10, <1>12, <2>1, <2>2, <2>3 DEF Next, Main
<1>13. CASE UNCHANGED vars
  BY <1>11, <1>13 DEF vars, deskvars, mousevars
<1>14. QED
  BY <1>12, <1>13

\* ShownOrAsked: no change of what can be seen goes unnoticed, wherever in the
\* main flow an interrupt makes it, but for the requests that come while a frame
\* is composed.  Inductive with it: which of screen, back buffer and flag the
\* state is in at each point of the frame.
THEOREM ShownOrAskedHolds == Spec => []ShownOrAsked
<1>1. Init => TypeInv /\ OnZero /\ ShownInv
  <2>1. Init => OnZero
    BY DEF Init, OnZero
  <2>2. Init => ShownInv
    BY DEF Init, ShownInv
  <2>3. QED
    BY <2>1, <2>2, TypeInit
<1>2. TypeInv /\ OnZero /\ ShownInv /\ [Next]_vars => TypeInv' /\ OnZero' /\ ShownInv'
  BY TypeNext, OnZeroNext, ShownNext
<1>3. ShownInv => ShownOrAsked
  BY DEF ShownInv, ShownOrAsked
<1>4. QED
  BY <1>1, <1>2, <1>3, PTL DEF Spec
=============================================================================
