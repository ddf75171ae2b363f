-------------------------------- MODULE Dock --------------------------------
(***************************************************************************)
(* The dock of kernel/de/dock.c: a row of items drawn by one loop and      *)
(* looked up by another, with the same geometry worked out in each.  What  *)
(* the screen shows is the items as they were when they were last drawn,   *)
(* or nothing: desktop_draw paints its background over them.               *)
(***************************************************************************)
EXTENDS Integers, Sequences

CONSTANTS
  DeskWidth, DeskHeight,           \* DESKTOP_WIDTH, DESKTOP_HEIGHT
  DockHeight, ItemSize, ItemGap,   \* DOCK_HEIGHT, DOCK_ITEM_SIZE, DOCK_PADDING
  MaxDockItems                     \* DOCK_MAX_ITEMS

ASSUME DockAssumption ==
  /\ {DeskWidth, DeskHeight, DockHeight, ItemSize, ItemGap, MaxDockItems} \subseteq Nat
  /\ ItemSize <= DockHeight

VARIABLES
  dock_x, dock_y,
  dock_items,   \* dock_items[0 .. dock_item_count - 1]
  canvas        \* the items' colours on the screen

dockVars == <<dock_x, dock_y, dock_items, canvas>>

Wiped == <<"nothing">>

DockInit ==
  /\ dock_x = (DeskWidth - MaxDockItems * (ItemSize + ItemGap)) \div 2
  /\ dock_y = DeskHeight - DockHeight - 10
  /\ dock_items = <<>> /\ canvas = Wiped

ColourOf(item) ==
  CASE item.is_running -> "running"
    [] item.is_active /\ ~item.is_running -> "active"
    [] OTHER -> "plain"

(* Bug: the dock is drawn before the items change.                         *)
DockDrawEarly == canvas' = [i \in DOMAIN dock_items |-> ColourOf(dock_items[i])]

DockDraw == canvas' = [i \in DOMAIN dock_items' |-> ColourOf(dock_items'[i])]

AddDockItem ==
  /\ Len(dock_items) < MaxDockItems
  /\ dock_items' = Append(dock_items, [is_running |-> FALSE, is_active |-> FALSE])
  /\ DockDraw
  /\ UNCHANGED <<dock_x, dock_y>>

\* An id that is not in the dock changes nothing.
SetRunning(id, running) ==
  /\ id + 1 \in DOMAIN dock_items
  /\ dock_items' = [dock_items EXCEPT ![id + 1].is_running = running]
  /\ DockDraw
  /\ UNCHANGED <<dock_x, dock_y>>

SetActive(id, on) ==
  /\ id + 1 \in DOMAIN dock_items
  /\ dock_items' = [dock_items EXCEPT ![id + 1].is_active = on]
  /\ DockDraw
  /\ UNCHANGED <<dock_x, dock_y>>

\* desktop_draw, called by desktop_init after the items are added.
DesktopWipes ==
  /\ canvas' = Wiped
  /\ UNCHANGED <<dock_x, dock_y, dock_items>>

DockNext ==
  \/ AddDockItem \/ DesktopWipes
  \/ \E id \in -1 .. MaxDockItems, on \in BOOLEAN : SetRunning(id, on) \/ SetActive(id, on)

DockSpec == DockInit /\ [][DockNext]_dockVars

-----------------------------------------------------------------------------
ItemX(i) == dock_x + i * (ItemSize + ItemGap)
ItemY == dock_y + (DockHeight - ItemSize) \div 2

\* dock_draw: what each pixel of the dock shows, the last one painted on top.
Square(i) == {<<ItemX(i) + x, ItemY + y>> : x \in 0 .. ItemSize - 1, y \in 0 .. ItemSize - 1}
Seen(p) ==
  LET over == {i \in DOMAIN canvas : p \in Square(i - 1)}
  IN  IF over = {} THEN -1 ELSE (CHOOSE i \in over : \A j \in over : j <= i) - 1

\* dock_handle_click.
HandleClick(x, y) ==
  LET hit == {i \in 0 .. Len(dock_items) - 1 :
                /\ x >= ItemX(i) /\ x < ItemX(i) + ItemSize
                /\ y >= ItemY /\ y < ItemY + ItemSize}
  IN  IF y < dock_y \/ y > dock_y + DockHeight \/ hit = {} THEN -1
      ELSE CHOOSE i \in hit : \A j \in hit : i <= j

(* A click goes to the item the screen shows there, and the screen shows   *)
(* the item as it is now: every call that changes an item draws the dock   *)
(* again.  After desktop_draw the items are there to be clicked, unseen.   *)
ClickMeetsWhatIsSeen ==
  \A x \in 0 .. DeskWidth - 1, y \in 0 .. DeskHeight - 1 :
    LET i == HandleClick(x, y) IN
    canvas # Wiped =>
      /\ Seen(<<x, y>>) = i
      /\ i >= 0 => canvas[i + 1] = ColourOf(dock_items[i + 1])
=============================================================================
