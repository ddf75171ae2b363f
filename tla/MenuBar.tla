------------------------------- MODULE MenuBar -------------------------------
(***************************************************************************)
(* The menu bar of kernel/de/menu_bar.c.  A click is given by what it      *)
(* hits: a menu's name, the bar beside the names, or a place below the     *)
(* bar.  Every item that is added has a NULL callback, so a click on an    *)
(* item does what a click beside it does.                                  *)
(***************************************************************************)
EXTENDS Integers

CONSTANTS
  MaxMenus,      \* MAX_MENUS, which is also how many menus menu_bar_init adds
  MaxItems       \* the items a menu has room for

ASSUME MenuAssumption == MaxMenus \in Nat /\ MaxItems \in Nat

VARIABLES
  menu_count,    \* menus in use, the first of the array
  item_count,    \* menus[i].item_count
  is_open,       \* menus[i].is_open
  active_menu    \* the open menu, or -1

menuVars == <<menu_count, item_count, is_open, active_menu>>

Menus == 0 .. MaxMenus - 1
NoMenu == -1

MenuTypeOK ==
  /\ menu_count \in 0 .. MaxMenus
  /\ item_count \in [Menus -> 0 .. MaxItems]
  /\ is_open \in [Menus -> BOOLEAN]
  /\ active_menu \in Menus \cup {NoMenu}

(* The static data, which menu_bar_init's memset leaves as it is.          *)
MenuInit ==
  /\ menu_count = 0
  /\ item_count = [i \in Menus |-> 0]
  /\ is_open = [i \in Menus |-> FALSE]
  /\ active_menu = NoMenu

(* menu_bar_init is MaxMenus of these.                                     *)
AddMenu ==
  /\ menu_count < MaxMenus
  /\ item_count' = [item_count EXCEPT ![menu_count] = 0]
  /\ is_open' = [is_open EXCEPT ![menu_count] = FALSE]
  /\ menu_count' = menu_count + 1
  /\ UNCHANGED active_menu

AddItem(menu_id) ==
  /\ menu_id < menu_count /\ item_count[menu_id] < MaxItems
  /\ item_count' = [item_count EXCEPT ![menu_id] = @ + 1]
  /\ UNCHANGED <<menu_count, is_open, active_menu>>

(* Bug: the other menus are not closed.                                    *)
ToggleOnly(i) == [is_open EXCEPT ![i] = ~@]

(* Every menu is closed, the clicked one among them, and that one toggled. *)
ClosedThenToggled(i) == [j \in Menus |-> IF j < menu_count THEN j = i ELSE is_open[j]]

ClickName(i) ==
  /\ i < menu_count
  /\ is_open' = ClosedThenToggled(i)
  /\ active_menu' = IF is_open'[i] THEN i ELSE NoMenu
  /\ UNCHANGED <<menu_count, item_count>>

(* Any click below the bar closes the open menu.                           *)
ClickBelow ==
  /\ IF active_menu # NoMenu /\ is_open[active_menu]
       THEN /\ is_open' = [is_open EXCEPT ![active_menu] = FALSE]
            /\ active_menu' = NoMenu
       ELSE UNCHANGED <<is_open, active_menu>>
  /\ UNCHANGED <<menu_count, item_count>>

-----------------------------------------------------------------------------
(* The menu drawn open (is_open) is the one whose items a click is tested  *)
(* against (active_menu), and no other menu is open: the two are set at    *)
(* different places of menu_bar_handle_click.                              *)
OpenIsActive == \A i \in Menus : is_open[i] <=> i = active_menu
=============================================================================
