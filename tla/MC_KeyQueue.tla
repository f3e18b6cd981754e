---------------------------- MODULE MC_KeyQueue ----------------------------
(* Two keys: Power, which selects, and Volume Down, which repeats; the   *)
(* touch scroll code KEY_PAGEDOWN; flings of 0, 1 and 2 screen heights;  *)
(* a trackball rolled up 2 per event, so that two events fake KEY_UP,  *)
(* which moves the highlight up while Volume Down moves it down;        *)
(* KEY_UP and KEY_DOWN repeat, as touch_init() makes them.               *)
EXTENDS KeyQueue

MCRepeatable == {VolDown, Up, Down}
MCTextStates == {"now", "before", "never"}
MCFlings == {0, 1, 2}
MCRelSteps == {-2}

(* One header row and three rows in all, so two rows for items; the root  *)
(* menu (ui_root_menu, no Go Back row) with three items, one more than the *)
(* window holds; a fling moves at most one extra row.                      *)
MCMenuLists == {[n |-> 3, back |-> FALSE]}
MCJumps == {0, 1}
=============================================================================
