------------------------------- MODULE Desktop -------------------------------
(***************************************************************************)
(* The desktop of kernel/de/desktop.c: its window table, the menu bar it   *)
(* hands clicks to, and desktop_main, the loop that reads the mouse and    *)
(* the keyboard.  A place on the screen is a point; a window's rectangle   *)
(* is the set of points it covers.  Other callers may use the interface    *)
(* (create, close, focus, move, resize, handle_mouse) between any two      *)
(* steps of the loop: what a key press or a callback may come to call.     *)
(***************************************************************************)
EXTENDS MenuBar, FiniteSets

CONSTANTS
  MaxWindows,   \* MAX_WINDOWS
  DefaultItems, \* the items desktop_init gives each menu
  Points,       \* places below the menu bar of the desktop
  Shapes        \* the rectangles windows are given, as sets of points

ASSUME DesktopAssumption ==
  /\ MaxWindows \in Nat
  /\ DefaultItems \in [0 .. MaxMenus - 1 -> 0 .. MaxItems]
  /\ Shapes \subseteq SUBSET Points

VARIABLES
  visible,        \* windows[i].is_visible
  active,         \* windows[i].is_active
  shape,          \* windows[i].x, y, width and height
  active_window,  \* an index, or -1
  click,          \* desktop_main's copies x, y, left_button
  pc              \* "init", "start", "mouse" or "key"

windowVars == <<visible, active, shape, active_window>>
vars == <<menuVars, windowVars, click, pc>>

Windows == 0 .. MaxWindows - 1
NoWindow == -1
None == <<>>

(* What a click may hit.  The menu bar ends 5 rows above where the desktop *)
(* takes it to end (MENU_BAR_HEIGHT is 20 in one and 25 in the other).     *)
Places ==
  {<<"name", i>> : i \in Menus} \cup {<<"beside">>, <<"gap">>} \cup {<<"desk", p>> : p \in Points}

Init ==
  /\ MenuInit
  /\ visible = [i \in Windows |-> FALSE]
  /\ active = [i \in Windows |-> FALSE]
  /\ shape = [i \in Windows |-> {}]
  /\ active_window = NoWindow
  /\ click = None /\ pc = "init"

(* desktop_init: the calls that fill the menu bar, one by one.  The window *)
(* table it clears is the zeroed static one.                               *)
InitMenus ==
  /\ pc = "init" /\ AddMenu
  /\ UNCHANGED <<windowVars, click, pc>>

InitItems ==
  /\ pc = "init" /\ menu_count = MaxMenus
  /\ \E m \in Menus : item_count[m] < DefaultItems[m] /\ AddItem(m)
  /\ UNCHANGED <<windowVars, click, pc>>

InitDone ==
  /\ pc = "init" /\ menu_count = MaxMenus /\ item_count = DefaultItems
  /\ pc' = "start"
  /\ UNCHANGED <<menuVars, windowVars, click>>

-----------------------------------------------------------------------------
(* The interface.                                                          *)

(* Bug: a window may be put in a slot that shows one.                      *)
AnySlot == {i \in Windows : \A j \in Windows : j < i => visible[j]}

(* The first slot that shows nothing; none when all are taken.             *)
FreeSlot == {i \in Windows : ~visible[i] /\ \A j \in Windows : j < i => visible[j]}

CreateWindow(s) ==
  /\ \E i \in FreeSlot :
       /\ visible' = [visible EXCEPT ![i] = TRUE]
       /\ active' = [active EXCEPT ![i] = TRUE]
       /\ shape' = [shape EXCEPT ![i] = s]
       /\ active_window' = i
  /\ UNCHANGED menuVars

(* Bug: the index of the active window is left behind.                     *)
AfterCloseKept(i) == active_window

AfterClose(i) == IF active_window = i THEN NoWindow ELSE active_window

CloseWindow(i) ==
  /\ visible' = [visible EXCEPT ![i] = FALSE]
  /\ active' = [active EXCEPT ![i] = FALSE]
  /\ active_window' = AfterClose(i)
  /\ UNCHANGED <<menuVars, shape>>

CanFocus(i) == visible[i]

FocusWindow(i) ==
  /\ CanFocus(i)
  /\ active' = [j \in Windows |-> IF j = i THEN TRUE ELSE active[j] /\ j # active_window]
  /\ active_window' = i
  /\ UNCHANGED <<menuVars, visible, shape>>

(* desktop_move_window and desktop_resize_window.                          *)
Reshape(i, s) ==
  /\ visible[i]
  /\ shape' = [shape EXCEPT ![i] = s]
  /\ UNCHANGED <<menuVars, visible, active, active_window>>

(* The first window in the table that shows the point.                     *)
HitBy(p) ==
  {i \in Windows : /\ visible[i] /\ p \in shape[i]
                   /\ \A j \in Windows : j < i => ~(visible[j] /\ p \in shape[j])}

HandleMouse(place) ==
  \/ /\ place[1] = "name" /\ ClickName(place[2])
     /\ UNCHANGED windowVars
  \/ /\ place[1] = "gap" /\ ClickBelow
     /\ UNCHANGED windowVars
  \/ /\ place[1] = "desk"
     /\ \E i \in HitBy(place[2]) : FocusWindow(i)
  \/ /\ place[1] = "beside" \/ (place[1] = "desk" /\ HitBy(place[2]) = {})
     /\ UNCHANGED <<menuVars, windowVars>>

(* No caller is in the tree yet.  Every menu is in use after desktop_init, *)
(* so menu_bar_add_menu does nothing.                                      *)
Interface ==
  /\ pc # "init"
  /\ \/ \E s \in Shapes : CreateWindow(s)
     \/ \E i \in Windows : CloseWindow(i) \/ FocusWindow(i)
     \/ \E i \in Windows, s \in Shapes : Reshape(i, s)
     \/ \E m \in Menus : AddItem(m) /\ UNCHANGED windowVars
     \/ \E place \in Places : HandleMouse(place)
  /\ UNCHANGED <<click, pc>>

-----------------------------------------------------------------------------
(* desktop_main.  The mouse state is read once, before the loop.           *)
MainStart ==
  /\ pc = "start"
  /\ click' \in Places \cup {None} /\ pc' = "mouse"
  /\ UNCHANGED <<menuVars, windowVars>>

MainMouse ==
  /\ pc = "mouse"
  /\ IF click = None THEN UNCHANGED <<menuVars, windowVars>> ELSE HandleMouse(click)
  /\ pc' = "key"
  /\ UNCHANGED click

(* keyboard_getchar waits for a key; the loop then redraws and goes round. *)
MainKey ==
  /\ pc = "key" /\ pc' = "mouse"
  /\ UNCHANGED <<menuVars, windowVars, click>>

Main == MainStart \/ MainMouse \/ MainKey

Next == InitMenus \/ InitItems \/ InitDone \/ Interface \/ Main

Spec == Init /\ [][Next]_vars

-----------------------------------------------------------------------------
TypeOK ==
  /\ MenuTypeOK
  /\ visible \in [Windows -> BOOLEAN]
  /\ active \in [Windows -> BOOLEAN]
  /\ shape \in [Windows -> Shapes \cup {{}}]
  /\ active_window \in Windows \cup {NoWindow}
  /\ click \in Places \cup {None}
  /\ pc \in {"init", "start", "mouse", "key"}

(* The window the desktop takes to be active is shown, and shown as        *)
(* active, whatever was closed, reused and clicked since it was focused.   *)
ActiveWindowShown ==
  active_window # NoWindow => visible[active_window] /\ active[active_window]

(* A window that is not shown is not marked active: a slot that is reused  *)
(* or skipped by desktop_draw carries no mark over.                        *)
ActiveAreVisible == \A i \in Windows : active[i] => visible[i]

(* The table, the marks and the index stay together through every sequence *)
(* of calls and clicks: the invariant the proof of the desktop rests on.   *)
WindowsInOrder == TypeOK /\ ActiveWindowShown /\ ActiveAreVisible

(* A window that stays open stays where it is until it is moved or         *)
(* resized: opening others in reused slots never overwrites it.            *)
ShownStaysPut ==
  [][\A i \in Windows : (visible[i] /\ visible'[i] /\ shape'[i] # shape[i])
                            => \E s \in Shapes : Reshape(i, s)]_vars

(* "Deactivate current active window" (desktop.c:199): once a window is    *)
(* given the focus no other one is marked active.                          *)
FocusIsExclusive ==
  [][\A i \in Windows : FocusWindow(i) => \A j \in Windows : active'[j] => j = i]_vars
=============================================================================
