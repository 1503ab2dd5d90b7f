----------------------------- MODULE MCDesktop -----------------------------
(* The desktop with its two windows, for TLC. *)
EXTENDS Desktop

MCKeys == {"F1", "F2", "c", "enter"}
MCCharKeys == {"c", "enter"}
MCMoves == {-3, 0, 1}
MCWindows == <<"terminal", "sysinfo">>
MCHome == [w \in {"terminal", "sysinfo"} |-> IF w = "terminal" THEN 0 ELSE 3]
MCWorkspaceKey == [ws \in {0, 1} |-> IF ws = 0 THEN "F1" ELSE "F2"]
============================================================================
