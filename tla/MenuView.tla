------------------------------ MODULE MenuView ------------------------------
(***************************************************************************)
(* The menu view of ui.c: which item is highlighted (menu_sel) and which   *)
(* item is drawn on the first menu row (menu_show_start), below the        *)
(* menu_top header rows, with max_menu_rows rows in all for headers and    *)
(* items.  The functions that change them run on the main thread under     *)
(* gUpdateMutex; draw_menu() draws items menu_show_start ..               *)
(* menu_show_start + max_menu_rows - menu_top - 1 and highlights menu_sel *)
(* only when it is among them.                                              *)
(*                                                                         *)
(* A view is a record [items, sel, start] of menu_items, menu_sel and     *)
(* menu_show_start; the operators below compute the view a function       *)
(* leaves.  Item texts and drawing are left out.                           *)
(***************************************************************************)
LOCAL INSTANCE Integers

CONSTANTS
  MenuTop,      \* menu_top: header rows of the menu
  MaxMenuRows,  \* max_menu_rows, from the screen height (ui_init 1524-1527)
  MenuMaxRows   \* MENU_MAX_ROWS, the rows of the menu[] array

(* The rows draw_menu() has for items. *)
Window == MaxMenuRows - MenuTop

Views == [items : Nat, sel : Int, start : Int]

(* ui_start_menu(headers, items, 0) (1736-1770): the items are copied up  *)
(* to MENU_MAX_ROWS rows counting the headers, a "Go Back" row follows     *)
(* when the back button is shown outside the root menu, and both menu_sel *)
(* and menu_show_start take the initial selection, which every caller in  *)
(* recovery.c passes as 0.                                                 *)
StartMenu(n, back) ==
  LET copied == IF n < MenuMaxRows - MenuTop THEN n ELSE MenuMaxRows - MenuTop
  IN [items |-> copied + (IF back THEN 1 ELSE 0), sel |-> 0, start |-> 0]

(* The wrap of ui_menu_select(): one step past either end comes round.    *)
Wrap(s, n) == IF s < 0 THEN n + s ELSE IF s >= n THEN s - n ELSE s

(* Mutant: the scroll down taken only once the item is a row past the    *)
(* window.                                                                  *)
MenuSelectLate(v, s) ==
  LET sel == Wrap(s, v.items)
      up == IF sel < v.start /\ v.start > 0 THEN sel ELSE v.start
      down == IF sel - up + MenuTop > MaxMenuRows THEN sel + MenuTop - MaxMenuRows + 1 ELSE up
  IN [v EXCEPT !.sel = sel, !.start = down]

(* ui_menu_select(s) (1772-1797), which get_menu_selection() calls with   *)
(* the selection plus or minus one: wrap it, scroll up to it when it is   *)
(* above the window, and scroll down so that it is the last row when it   *)
(* is below.                                                                *)
MenuSelect(v, s) ==
  LET sel == Wrap(s, v.items)
      up == IF sel < v.start /\ v.start > 0 THEN sel ELSE v.start
      down == IF sel - up + MenuTop >= MaxMenuRows THEN sel + MenuTop - MaxMenuRows + 1 ELSE up
  IN [v EXCEPT !.sel = sel, !.start = down]

(* The first row scroll_touch_menu() (669-695) moves the window to for    *)
(* now_scrolling ns and the extra rows jump of a fling, before its checks. *)
Moved(v, ns, jump) == v.start + ns + (IF ns > 0 THEN jump ELSE -jump)

(* Mutant: a scroll that only stops at the top of the menu.                *)
ScrollNoEnd(v, ns, jump) ==
  LET s == Moved(v, ns, jump)
  IN [start |-> IF s < 0 THEN 0 ELSE s, stops |-> s < 0]

(* scroll_touch_menu(): the window moves by the scroll; past the end of   *)
(* the list it is put back so that the last item is on the last row, and  *)
(* above the first item it is put back to the first; either stops the     *)
(* scroll (now_scrolling = 0).  The result is the new menu_show_start and *)
(* whether the scroll stopped.                                              *)
ScrollTouchMenu(v, ns, jump) ==
  LET s1 == Moved(v, ns, jump)
      pastEnd == v.items - s1 + MenuTop < MaxMenuRows
      s2 == IF pastEnd THEN v.items - MaxMenuRows + MenuTop ELSE s1
  IN [start |-> IF s2 < 0 THEN 0 ELSE s2, stops |-> pastEnd \/ s2 < 0]

(* draw_menu() (464-466) highlights the selected item: it is on screen.   *)
Shown(v) == v.start <= v.sel /\ v.sel < v.start + Window

=============================================================================
