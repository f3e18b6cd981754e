------------------------------ MODULE KeyQueue ------------------------------
(***************************************************************************)
(* The key queue of ui.c between the input thread and the menu loop of     *)
(* recovery.c.  The input thread (key_handle_input, reached through        *)
(* input_callback and touch_handle_input for every EV_KEY event) appends   *)
(* pressed keys under key_queue_mutex and signals key_queue_cond.  The     *)
(* main thread runs get_menu_selection(): it clears the queue, then calls  *)
(* ui_wait_key() until a key selects an item.  touch_init() sets           *)
(* boardEnableKeyRepeat and nothing reachable clears it, so ui_wait_key()  *)
(* is ui_wait_key_with_repeat(): a pthread_cond_timedwait loop of Rounds   *)
(* rounds (UI_WAIT_KEY_TIMEOUT_SEC / REFRESH_TIME_USB_INTERVAL), then a   *)
(* loop that pops keys, drops released keys that already repeated, and     *)
(* puts a held repeatable key back at the tail until its repeat is due.   *)
(*                                                                         *)
(* Data abstraction.  Time is abstracted away: whether a held key's repeat *)
(* is due, whether a timed wait times out, and usb_connected() are free    *)
(* choices at the step where the code reads them.  key_last_repeat is     *)
(* "zero" or "set"; the menu actions of the two keys are those of          *)
(* default_recovery_keys.c (Power selects, Volume Down moves).             *)
(***************************************************************************)
EXTENDS Integers, Sequences

CONSTANTS
  Power, VolDown,   \* KEY_POWER and KEY_VOLUMEDOWN
  Repeatable,       \* boardRepeatableKeys (touch_init adds KEY_VOLUMEDOWN)
  QueueMax,         \* sizeof(key_queue) / sizeof(key_queue[0])
  Rounds,           \* timed waits before ui_wait_key gives up
  TextStates,       \* show_text / show_text_ever: "now", "before", "never"
  MaxEvents,        \* input events the model lets the user make
  Scroll,           \* KEY_PAGEDOWN, the code touch scrolling queues
  Flings,           \* values scroll_speed / gr_fb_height() can take
  Up, Down,         \* KEY_UP and KEY_DOWN, the keys a trackball fakes
  RelSteps,         \* REL_Y values a trackball event can carry
  MenuTop, MaxMenuRows, MenuMaxRows,  \* the menu geometry of MenuView
  MenuLists,        \* the menus shown: [n |-> items, back |-> Go Back row]
  Jumps             \* extra rows scroll_speed can add to a fling's step

Keys == {Power, VolDown}
Fakes == {Up, Down}
Codes == Keys \cup {Scroll} \cup Fakes   \* what key_queue can hold
ETIMEDOUT == 110  \* errno value on Linux

MV == INSTANCE MenuView

VARIABLES
  q,           \* key_queue[0 .. key_queue_len-1]
  pressed,     \* key_pressed[]
  lastRep,     \* key_last_repeat[]: "zero" or "set"
  mpc,         \* where the main thread is
  rc,          \* rc of the last pthread_cond_timedwait
  timeouts,    \* timed waits left in this call
  key,         \* the value ui_wait_key() returned
  events,      \* input events so far
  text,        \* whether the menu text is shown now, was shown before, or never
  pending,     \* keys with a queued press not yet returned or cleared
  scrolling,   \* now_scrolling: -1, 0 or 1
  inTouch,     \* in_touch
  relSum,      \* rel_sum: trackball motion not yet turned into a key
  menu         \* the MenuView view: menu_items, menu_sel, menu_show_start

vars == <<q, pressed, lastRep, mpc, rc, timeouts, key, events, text, pending,
          scrolling, inTouch, relSum, menu>>

(* key_pressed[] of a code: the touch path never records KEY_PAGEDOWN, nor *)
(* the trackball path its fake keys.                                        *)
Held(k) == k \in Keys /\ pressed[k]

-----------------------------------------------------------------------------
(* The input thread: key_handle_input() (ui.c 1121-1153).                  *)

(* key_queue_len < queue_max: the queue has room for one more key.        *)
RoomOffByOne == Len(q) <= QueueMax
Room == Len(q) < QueueMax

(* A pressed code is appended while the queue has room, with its repeat   *)
(* state reset, and the waiter signalled.                                  *)
Enqueue(k) ==
  IF Room
  THEN /\ q' = Append(q, k)
       /\ lastRep' = [lastRep EXCEPT ![k] = "zero"]
       /\ pending' = pending \cup {k}
  ELSE UNCHANGED <<q, lastRep, pending>>

(* A press (value 1) or the kernel's auto-repeat of a held key (value 2):  *)
(* recorded in key_pressed and queued.                                     *)
KeyDown(k) ==
  /\ events < MaxEvents
  /\ pressed' = [pressed EXCEPT ![k] = TRUE]
  /\ Enqueue(k)
  /\ events' = events + 1
  /\ UNCHANGED <<mpc, rc, timeouts, key, text, scrolling, inTouch, relSum, menu>>

Press(k) == ~pressed[k] /\ KeyDown(k)
AutoRepeat(k) == pressed[k] /\ KeyDown(k)

Release(k) ==
  /\ events < MaxEvents /\ pressed[k]
  /\ pressed' = [pressed EXCEPT ![k] = FALSE]
  /\ events' = events + 1
  /\ UNCHANGED <<q, lastRep, mpc, rc, timeouts, key, text, pending, scrolling, inTouch, relSum, menu>>

(* input_callback() (1430-1484) for a trackball's REL_Y event, which       *)
(* touch_handle_input() lets through: rel_sum accumulates the motion; past *)
(* 3 either way it is reset and becomes a fake KEY_DOWN or KEY_UP press,   *)
(* queued as key_handle_input queues one but never recorded in             *)
(* key_pressed, since no release will follow.                              *)
Trackball ==
  /\ events < MaxEvents
  /\ \E v \in RelSteps :
       LET sum == relSum + v IN
       IF sum > 3 \/ sum < -3
       THEN relSum' = 0 /\ Enqueue(IF sum > 3 THEN Down ELSE Up)
       ELSE relSum' = sum /\ UNCHANGED <<q, lastRep, pending>>
  /\ events' = events + 1
  /\ UNCHANGED <<pressed, mpc, rc, timeouts, key, text, scrolling, inTouch, menu>>

-----------------------------------------------------------------------------
(* The touch path of touch_handle_input() (1169-1409).  ignore_key_action *)
(* is never set, virtual buttons and keys are left out, and coordinates   *)
(* become the choice of which of three touch events happens.              *)

(* scroll_persist of a fling (1383-1387): four keys per screen height of *)
(* speed, capped below the queue size.                                    *)
Persist(f) ==
  LET p == IF 4 * f # 0 /\ 4 * f < 4 THEN 4 ELSE 4 * f
  IN IF p > QueueMax THEN QueueMax - 1 ELSE p

(* The tail of touch_handle_input() (1366-1409) for a synthesised         *)
(* KEY_PAGEDOWN, which is only made with now_scrolling set: under the     *)
(* mutex and with room in the queue, the queue is replaced by n copies    *)
(* of the code, discarding whatever hardware keys were still queued.      *)
ScrollQueued(n) ==
  IF Room
  THEN /\ q' = [i \in 1..n |-> Scroll]
       /\ lastRep' = [lastRep EXCEPT ![Scroll] = "zero"]
       /\ pending' = {}
  ELSE UNCHANGED <<q, lastRep, pending>>

(* A finger lands (1239-1253): during a scroll the queue is emptied, and  *)
(* when it was already empty and 650 ms passed the scroll ends.           *)
TouchDown ==
  /\ events < MaxEvents /\ ~inTouch
  /\ inTouch' = TRUE
  /\ IF scrolling # 0
     THEN /\ q' = <<>> /\ pending' = {}
          /\ scrolling' \in (IF q = <<>> THEN {scrolling, 0} ELSE {scrolling})
     ELSE UNCHANGED <<q, pending, scrolling>>
  /\ events' = events + 1
  /\ UNCHANGED <<pressed, lastRep, mpc, rc, timeouts, key, text, relSum, menu>>

(* The finger moves over the menu past SCROLL_SENSITIVITY (1317-1334):    *)
(* now_scrolling is set to -1 for a move down the screen and to 1 for a  *)
(* move up, and one KEY_PAGEDOWN replaces the queue.                        *)
TouchScroll ==
  /\ events < MaxEvents /\ inTouch
  /\ \E d \in {-1, 1} : scrolling' = d
  /\ ScrollQueued(1)
  /\ events' = events + 1
  /\ UNCHANGED <<pressed, mpc, rc, timeouts, key, text, inTouch, relSum, menu>>

(* The finger lifts (1199-1238).  A scroll either stops (no speed, or     *)
(* 300 ms since the last move) or flings: KEY_PAGEDOWN outside a touch,   *)
(* queued Persist(speed) times.                                            *)
TouchUp ==
  /\ events < MaxEvents /\ inTouch
  /\ inTouch' = FALSE
  /\ IF scrolling # 0
     THEN \E stop \in BOOLEAN, f \in Flings :
            IF stop THEN scrolling' = 0 /\ UNCHANGED <<q, lastRep, pending>>
            ELSE UNCHANGED scrolling /\ ScrollQueued(Persist(f))
     ELSE UNCHANGED <<q, lastRep, pending, scrolling>>
  /\ events' = events + 1
  /\ UNCHANGED <<pressed, mpc, rc, timeouts, key, text, relSum, menu>>

-----------------------------------------------------------------------------
(* The main thread.                                                        *)

(* ui_clear_key_queue() (1999-2003).                                       *)
Cleared == q' = <<>> /\ pending' = {}

(* ui_wait_key() returns k with the mutex released.                        *)
Return(k) == key' = k /\ mpc' = "handle" /\ pending' = pending \ {k}

(* get_menu_selection() (recovery.c 527-535): clear the queue, show one of *)
(* the menus with ui_start_menu(), call ui_wait_key().                     *)
MenuStart ==
  /\ mpc = "menu"
  /\ Cleared /\ mpc' = "lock"
  /\ \E l \in MenuLists : menu' = MV!StartMenu(l.n, l.back)
  /\ UNCHANGED <<pressed, lastRep, rc, timeouts, key, events, text, scrolling, inTouch, relSum>>

(* ui_wait_key_with_repeat() 1911-1917: lock, and wait while the queue is  *)
(* empty; with a key queued go straight to the pop loop.                   *)
Lock ==
  /\ mpc = "lock"
  /\ timeouts' = Rounds /\ rc' = 0
  /\ mpc' = IF q = <<>> THEN "wait" ELSE "scan"
  /\ UNCHANGED <<q, pressed, lastRep, key, events, text, pending, scrolling, inTouch, relSum, menu>>

(* The end of one timed wait round (1918-1930).  The wait returns 0 when   *)
(* signalled, or ETIMEDOUT when the round's deadline passes, which may     *)
(* happen with a key already appended.  Another round follows while the    *)
(* queue is empty and rounds are left; otherwise the mutex is released     *)
(* and a timeout without USB returns -1 (1932-1934).                       *)
WaitEnds ==
  /\ mpc = "wait"
  /\ \E r \in IF q = <<>> THEN {ETIMEDOUT} ELSE {0, ETIMEDOUT} :
       /\ rc' = r
       /\ timeouts' = timeouts - 1
       /\ IF q = <<>> /\ timeouts - 1 > 0 THEN mpc' = "wait" /\ UNCHANGED <<key, pending>>
          ELSE \E usb \in BOOLEAN :
                 IF r = ETIMEDOUT /\ ~usb THEN Return(-1)
                 ELSE mpc' = "scan" /\ UNCHANGED <<key, pending>>
  /\ UNCHANGED <<q, pressed, lastRep, events, text, scrolling, inTouch, relSum, menu>>

(* The queue after popping a repeatable key k: put back at the tail while *)
(* it is still held (1968-1977).                                           *)
ReAddFront(k) == IF Held(k) THEN <<k>> \o Tail(q) ELSE Tail(q)
ReAdd(k) == IF Held(k) THEN Append(Tail(q), k) ELSE Tail(q)

(* One iteration of the pop loop (1937-1987), under the mutex.             *)
Scan ==
  /\ mpc = "scan"
  /\ IF q = <<>> THEN mpc' = "lock" /\ UNCHANGED <<q, lastRep, key, pending>>
     ELSE LET k == Head(q) IN
       CASE ~Held(k) /\ lastRep[k] = "set" ->
              q' = Tail(q) /\ UNCHANGED <<mpc, lastRep, key, pending>>
         [] k \in Repeatable ->
              /\ q' = ReAdd(k)
              /\ \E due \in BOOLEAN :
                   IF due \/ lastRep[k] = "zero"
                   THEN lastRep' = [lastRep EXCEPT ![k] = "set"] /\ Return(k)
                   ELSE UNCHANGED <<mpc, lastRep, key, pending>>
         [] OTHER ->
              q' = Tail(q) /\ Return(k) /\ UNCHANGED lastRep
  /\ UNCHANGED <<pressed, rc, timeouts, events, text, scrolling, inTouch, relSum, menu>>

(* get_menu_selection() 541-590 on the key.  -1 continues when the text    *)
(* was ever shown and otherwise returns ITEM_REBOOT.  ui_handle_key()     *)
(* gives NO_ACTION for every key while the text is hidden; with the text  *)
(* shown Power is SELECT_ITEM, which ends the menu with                    *)
(* ui_clear_key_queue(), Volume Down and KEY_DOWN are HIGHLIGHT_DOWN and    *)
(* KEY_UP is HIGHLIGHT_UP (default_recovery_keys.c): ui_menu_select() of   *)
(* ui_get_selected_item() plus or minus one.                               *)
Highlight ==
  CASE key \in {VolDown, Down} /\ text = "now" -> menu' = MV!MenuSelect(menu, menu.sel + 1)
    [] key = Up /\ text = "now" -> menu' = MV!MenuSelect(menu, menu.sel - 1)
    [] OTHER -> UNCHANGED menu

(* KEY_PAGEDOWN with now_scrolling set runs scroll_touch_menu() (669-695):  *)
(* a fling, made with the finger up, moves Jumps extra rows, and a scroll  *)
(* that reaches either end of the menu stops.                              *)
TouchMenuScroll ==
  IF key = Scroll /\ text = "now" /\ scrolling # 0
  THEN \E j \in (IF inTouch THEN {0} ELSE Jumps) :
         LET r == MV!ScrollTouchMenu(menu, scrolling, j) IN
         /\ menu' = [menu EXCEPT !.start = r.start]
         /\ scrolling' = IF r.stops THEN 0 ELSE scrolling
  ELSE UNCHANGED <<scrolling, menu>>

Handle ==
  /\ mpc = "handle"
  /\ CASE key = -1 ->
            mpc' = (IF text # "never" THEN "lock" ELSE "reboot") /\ UNCHANGED <<q, pending>>
       [] key = Power /\ text = "now" -> mpc' = "menu" /\ Cleared
       [] OTHER -> mpc' = "lock" /\ UNCHANGED <<q, pending>>
  /\ IF key = Scroll THEN TouchMenuScroll ELSE Highlight /\ UNCHANGED scrolling
  /\ UNCHANGED <<pressed, lastRep, rc, timeouts, key, events, text, inTouch, relSum>>

Main == MenuStart \/ Lock \/ WaitEnds \/ Scan \/ Handle
Input == (\E k \in Keys : Press(k) \/ AutoRepeat(k) \/ Release(k))
         \/ TouchDown \/ TouchScroll \/ TouchUp \/ Trackball

Init ==
  /\ q = <<>> /\ pressed = [k \in Keys |-> FALSE] /\ lastRep = [k \in Codes |-> "zero"]
  /\ mpc = "menu" /\ rc = 0 /\ timeouts = 0 /\ key = 0
  /\ events = 0 /\ text \in TextStates /\ pending = {}
  /\ scrolling = 0 /\ inTouch = FALSE /\ relSum = 0
  /\ menu = [items |-> 0, sel |-> 0, start |-> 0]

Next == Main \/ Input

(* The main thread always has a step but in a wait on an empty queue,     *)
(* which times out by itself; the user owes nothing.                       *)
Spec == Init /\ [][Next]_vars /\ WF_vars(Main)

-----------------------------------------------------------------------------
(* The queue never holds more than key_queue[] has room for, and the main  *)
(* thread is always at one of the points of get_menu_selection().          *)
TypeOK ==
  /\ q \in Seq(Codes) /\ Len(q) <= QueueMax
  /\ pressed \in [Keys -> BOOLEAN] /\ lastRep \in [Codes -> {"zero", "set"}]
  /\ mpc \in {"menu", "lock", "wait", "scan", "handle", "reboot"}
  /\ rc \in {0, ETIMEDOUT} /\ timeouts \in 0..Rounds
  /\ key \in Codes \cup {0, -1}
  /\ events \in 0..MaxEvents /\ text \in TextStates /\ pending \subseteq Keys \cup Fakes
  /\ scrolling \in -1..1 /\ inTouch \in BOOLEAN /\ relSum \in -3..3
  /\ menu \in MV!Views

(* Once the menu text has been shown, every key press that key_handle_input *)
(* or the trackball path queued is eventually returned by                  *)
(* ui_wait_key_with_repeat(), or thrown away by ui_clear_key_queue() when  *)
(* a menu starts or ends, or by a touch scroll: the drop of                *)
(* released keys, the re-adding of held ones and the timed waits never      *)
(* lose a press or starve it behind a held key.                             *)
PressAnswered ==
  \A k \in Keys \cup Fakes : (k \in pending /\ text # "never") ~> (k \notin pending)


(* After get_menu_selection() handled a HIGHLIGHT_UP or HIGHLIGHT_DOWN, the *)
(* item ui_menu_select() highlighted is among the rows draw_menu() shows:  *)
(* also when a touch scroll or fling had moved the window away from the    *)
(* selection before the key, and when the move wrapped round an end.       *)
SelectionShown ==
  (mpc \in {"lock", "wait", "scan"} /\ text = "now" /\ key \in {VolDown, Up, Down})
    => MV!Shown(menu)

(* menu_show_start never goes above the first item, and once the window    *)
(* has moved down it never shows rows past the last item: a fling's extra *)
(* rows in scroll_touch_menu() and the scroll of ui_menu_select() both     *)
(* stop at the end of the list.                                            *)
WindowInList ==
  /\ menu.start >= 0
  /\ menu.start > 0 => menu.start + MV!Window <= menu.items

=============================================================================
