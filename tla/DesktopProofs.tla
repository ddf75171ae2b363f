---------------------------- MODULE DesktopProofs ----------------------------
(***************************************************************************)
(* The desktop keeps its windows and menus in order for tables of any      *)
(* size: the type invariant and the agreement of marks and indices, the    *)
(* agreement of the open menu with the active one, and that a window which *)
(* stays open stays put.                                                   *)
(***************************************************************************)
EXTENDS Desktop, TLAPS

(* OpenIsActive is not inductive: a menu added over the active one would   *)
(* be closed and stay active.  The active menu is one of those in use.     *)
MenuInv == MenuTypeOK /\ OpenIsActive /\ active_menu < menu_count

WindowInv ==
  /\ visible \in [Windows -> BOOLEAN]
  /\ active \in [Windows -> BOOLEAN]
  /\ shape \in [Windows -> Shapes \cup {{}}]
  /\ active_window \in Windows \cup {NoWindow}
  /\ ActiveWindowShown /\ ActiveAreVisible

LoopInv ==
  /\ click \in Places \cup {None}
  /\ pc \in {"init", "start", "mouse", "key"}

IInv == MenuInv /\ WindowInv /\ LoopInv

-----------------------------------------------------------------------------
(* The menu bar.                                                           *)

LEMMA MenuStarts == MenuInit => MenuInv
<1>1. ASSUME MenuInit PROVE MenuTypeOK /\ active_menu < menu_count
  BY <1>1, MenuAssumption DEF MenuInit, MenuTypeOK, Menus, NoMenu
<1>2. ASSUME MenuInit PROVE OpenIsActive
  BY <1>2, MenuAssumption DEF MenuInit, OpenIsActive, Menus, NoMenu
<1> QED BY <1>1, <1>2 DEF MenuInv

LEMMA AddMenuKeeps == ASSUME MenuInv, AddMenu PROVE MenuInv'
<1> USE MenuAssumption DEF Menus, NoMenu
<1>1. menu_count \in Menus
  BY DEF MenuInv, MenuTypeOK, AddMenu
<1>2. MenuTypeOK' /\ (active_menu < menu_count)'
  BY <1>1 DEF MenuInv, MenuTypeOK, AddMenu
<1>3. OpenIsActive'
  BY <1>1 DEF MenuInv, MenuTypeOK, OpenIsActive, AddMenu
<1> QED BY <1>2, <1>3 DEF MenuInv

LEMMA AddItemKeeps ==
  ASSUME MenuInv, NEW m \in Menus, AddItem(m) PROVE MenuInv'
<1> USE MenuAssumption DEF Menus, NoMenu
<1>1. item_count[m] + 1 \in 0 .. MaxItems
  BY DEF MenuInv, MenuTypeOK, AddItem
<1>2. MenuTypeOK' /\ (active_menu < menu_count)'
  BY <1>1 DEF MenuInv, MenuTypeOK, AddItem
<1>3. OpenIsActive'
  BY DEF MenuInv, OpenIsActive, AddItem
<1> QED BY <1>2, <1>3 DEF MenuInv

LEMMA ClickNameKeeps ==
  ASSUME MenuInv, NEW i \in Menus, ClickName(i) PROVE MenuInv'
<1> USE MenuAssumption DEF Menus, NoMenu
<1>1. \A j \in Menus : is_open'[j] <=> j = i
  <2>1. \A j \in Menus : j >= menu_count => ~is_open[j]
    BY DEF MenuInv, MenuTypeOK, OpenIsActive
  <2>2. \A j \in Menus : is_open'[j] = (IF j < menu_count THEN j = i ELSE is_open[j])
    BY DEF ClickName, ClosedThenToggled
  <2>3. \A j \in Menus : j < menu_count \/ j >= menu_count
    BY DEF MenuInv, MenuTypeOK
  <2>4. i < menu_count
    BY DEF ClickName
  <2> QED
    BY <2>1, <2>2, <2>3, <2>4
<1>2. active_menu' = i
  BY <1>1 DEF ClickName
<1>3. is_open' \in [Menus -> BOOLEAN]
  BY DEF MenuInv, MenuTypeOK, ClickName, ClosedThenToggled
<1>4. MenuTypeOK' /\ (active_menu < menu_count)'
  BY <1>2, <1>3 DEF MenuInv, MenuTypeOK, ClickName
<1>5. OpenIsActive'
  BY <1>1, <1>2 DEF OpenIsActive
<1> QED BY <1>4, <1>5 DEF MenuInv

LEMMA ClickBelowKeeps == ASSUME MenuInv, ClickBelow PROVE MenuInv'
<1> USE MenuAssumption DEF Menus, NoMenu
<1>1. CASE active_menu # NoMenu /\ is_open[active_menu]
  <2>1. is_open' = [is_open EXCEPT ![active_menu] = FALSE] /\ active_menu' = NoMenu
    BY <1>1 DEF ClickBelow
  <2>2. MenuTypeOK' /\ (active_menu < menu_count)'
    <3>1. is_open' \in [Menus -> BOOLEAN]
      BY <2>1 DEF MenuInv, MenuTypeOK
    <3>2. menu_count' = menu_count /\ item_count' = item_count
      BY DEF ClickBelow
    <3> QED BY <2>1, <3>1, <3>2 DEF MenuInv, MenuTypeOK
  <2>3. OpenIsActive'
    BY <2>1 DEF MenuInv, MenuTypeOK, OpenIsActive
  <2> QED BY <2>2, <2>3 DEF MenuInv
<1>2. CASE ~(active_menu # NoMenu /\ is_open[active_menu])
  <2>1. UNCHANGED menuVars
    BY <1>2 DEF ClickBelow, menuVars
  <2> QED BY <2>1 DEF MenuInv, MenuTypeOK, OpenIsActive, menuVars
<1> QED BY <1>1, <1>2

LEMMA MenuUnchanged == ASSUME MenuInv, UNCHANGED menuVars PROVE MenuInv'
BY DEF MenuInv, MenuTypeOK, OpenIsActive, menuVars

-----------------------------------------------------------------------------
(* The window table.                                                       *)

LEMMA WindowsUnchanged == ASSUME WindowInv, UNCHANGED windowVars PROVE WindowInv'
BY DEF WindowInv, ActiveWindowShown, ActiveAreVisible, windowVars

LEMMA CreateKeeps ==
  ASSUME WindowInv, NEW s \in Shapes, CreateWindow(s) PROVE WindowInv'
<1>1. PICK i \in FreeSlot :
        /\ visible' = [visible EXCEPT ![i] = TRUE]
        /\ active' = [active EXCEPT ![i] = TRUE]
        /\ shape' = [shape EXCEPT ![i] = s]
        /\ active_window' = i
  BY DEF CreateWindow
<1>2. i \in Windows
  BY DEF FreeSlot
<1> QED
  BY <1>1, <1>2 DEF WindowInv, ActiveWindowShown, ActiveAreVisible

LEMMA CloseKeeps ==
  ASSUME WindowInv, NEW i \in Windows, CloseWindow(i) PROVE WindowInv'
<1>1. /\ visible' = [visible EXCEPT ![i] = FALSE]
      /\ active' = [active EXCEPT ![i] = FALSE]
      /\ active_window' = IF active_window = i THEN NoWindow ELSE active_window
      /\ shape' = shape
  BY DEF CloseWindow, AfterClose
<1> QED
  BY <1>1 DEF WindowInv, ActiveWindowShown, ActiveAreVisible

LEMMA FocusKeeps ==
  ASSUME WindowInv, NEW i \in Windows, FocusWindow(i) PROVE WindowInv'
<1>1. /\ visible[i] /\ visible' = visible /\ shape' = shape
      /\ active' = [j \in Windows |-> IF j = i THEN TRUE ELSE active[j] /\ j # active_window]
      /\ active_window' = i
  BY DEF FocusWindow, CanFocus
<1>2. active' \in [Windows -> BOOLEAN] /\ active'[i] = TRUE
  BY <1>1 DEF WindowInv
<1>3. \A j \in Windows : active'[j] => j = i \/ active[j]
  BY <1>1
<1> QED
  BY <1>1, <1>2, <1>3 DEF WindowInv, ActiveWindowShown, ActiveAreVisible

LEMMA ReshapeKeeps ==
  ASSUME WindowInv, NEW i \in Windows, NEW s \in Shapes, Reshape(i, s) PROVE WindowInv'
BY DEF WindowInv, ActiveWindowShown, ActiveAreVisible, Reshape

-----------------------------------------------------------------------------
(* A click changes one of the two and leaves the other as it was.          *)
LEMMA ClickKeeps ==
  ASSUME MenuInv, WindowInv, NEW place \in Places, HandleMouse(place)
  PROVE  MenuInv' /\ WindowInv'
<1>1. CASE place[1] = "name" /\ ClickName(place[2]) /\ UNCHANGED windowVars
  <2>1. place[2] \in Menus
    BY <1>1 DEF Places
  <2> QED BY <1>1, <2>1, ClickNameKeeps, WindowsUnchanged
<1>2. CASE ClickBelow /\ UNCHANGED windowVars
  BY <1>2, ClickBelowKeeps, WindowsUnchanged
<1>3. CASE \E i \in HitBy(place[2]) : FocusWindow(i)
  <2>1. PICK i \in HitBy(place[2]) : FocusWindow(i)
    BY <1>3
  <2>2. i \in Windows
    BY DEF HitBy
  <2>3. UNCHANGED menuVars
    BY <2>1 DEF FocusWindow
  <2> QED BY <2>1, <2>2, <2>3, FocusKeeps, MenuUnchanged
<1>4. CASE UNCHANGED <<menuVars, windowVars>>
  BY <1>4, MenuUnchanged, WindowsUnchanged
<1> QED BY <1>1, <1>2, <1>3, <1>4 DEF HandleMouse

-----------------------------------------------------------------------------
LEMMA StartsInOrder == Init => IInv
<1> SUFFICES ASSUME Init PROVE IInv
  OBVIOUS
<1>1. MenuInv
  BY MenuStarts DEF Init
<1>2. WindowInv
  BY DEF Init, WindowInv, ActiveWindowShown, ActiveAreVisible
<1>3. LoopInv
  BY DEF Init, LoopInv
<1> QED BY <1>1, <1>2, <1>3 DEF IInv

LEMMA StepKeepsOrder == IInv /\ [Next]_vars => IInv'
<1> SUFFICES ASSUME IInv, [Next]_vars PROVE IInv'
  OBVIOUS
<1> USE DEF IInv
<1>1. CASE InitMenus
  <2>1. AddMenu /\ UNCHANGED windowVars /\ LoopInv'
    BY <1>1 DEF InitMenus, LoopInv
  <2> QED BY <2>1, AddMenuKeeps, WindowsUnchanged
<1>2. CASE InitItems
  <2>1. PICK m \in Menus : AddItem(m)
    BY <1>2 DEF InitItems
  <2>2. UNCHANGED windowVars /\ LoopInv'
    BY <1>2 DEF InitItems, LoopInv
  <2> QED BY <2>1, <2>2, AddItemKeeps, WindowsUnchanged
<1>3. CASE InitDone
  <2>1. UNCHANGED menuVars /\ UNCHANGED windowVars /\ LoopInv'
    BY <1>3 DEF InitDone, LoopInv
  <2> QED BY <2>1, MenuUnchanged, WindowsUnchanged
<1>4. CASE Interface
  <2>1. LoopInv'
    BY <1>4 DEF Interface, LoopInv
  <2>2. ASSUME NEW s \in Shapes, CreateWindow(s) PROVE MenuInv' /\ WindowInv'
    <3>1. UNCHANGED menuVars
      BY <2>2 DEF CreateWindow
    <3> QED BY <2>2, <3>1, CreateKeeps, MenuUnchanged
  <2>3. ASSUME NEW i \in Windows, CloseWindow(i) PROVE MenuInv' /\ WindowInv'
    <3>1. UNCHANGED menuVars
      BY <2>3 DEF CloseWindow
    <3> QED BY <2>3, <3>1, CloseKeeps, MenuUnchanged
  <2>4. ASSUME NEW i \in Windows, FocusWindow(i) PROVE MenuInv' /\ WindowInv'
    <3>1. UNCHANGED menuVars
      BY <2>4 DEF FocusWindow
    <3> QED BY <2>4, <3>1, FocusKeeps, MenuUnchanged
  <2>5. ASSUME NEW i \in Windows, NEW s \in Shapes, Reshape(i, s) PROVE MenuInv' /\ WindowInv'
    <3>1. UNCHANGED menuVars
      BY <2>5 DEF Reshape
    <3> QED BY <2>5, <3>1, ReshapeKeeps, MenuUnchanged
  <2>6. ASSUME NEW m \in Menus, AddItem(m), UNCHANGED windowVars PROVE MenuInv' /\ WindowInv'
    BY <2>6, AddItemKeeps, WindowsUnchanged
  <2>7. ASSUME NEW place \in Places, HandleMouse(place) PROVE MenuInv' /\ WindowInv'
    BY <2>7, ClickKeeps
  <2> QED BY <1>4, <2>1, <2>2, <2>3, <2>4, <2>5, <2>6, <2>7 DEF Interface
<1>5. CASE MainStart
  <2>1. UNCHANGED menuVars /\ UNCHANGED windowVars /\ LoopInv'
    BY <1>5 DEF MainStart, LoopInv
  <2> QED BY <2>1, MenuUnchanged, WindowsUnchanged
<1>6. CASE MainMouse
  <2>1. LoopInv'
    BY <1>6 DEF MainMouse, LoopInv
  <2>2. CASE click = None
    <3>1. UNCHANGED menuVars /\ UNCHANGED windowVars
      BY <1>6, <2>2 DEF MainMouse
    <3> QED BY <2>1, <3>1, MenuUnchanged, WindowsUnchanged
  <2>3. CASE click # None
    <3>1. click \in Places /\ HandleMouse(click)
      BY <1>6, <2>3 DEF MainMouse, LoopInv
    <3> QED BY <2>1, <3>1, ClickKeeps
  <2> QED BY <2>2, <2>3
<1>7. CASE MainKey
  <2>1. UNCHANGED menuVars /\ UNCHANGED windowVars /\ LoopInv'
    BY <1>7 DEF MainKey, LoopInv
  <2> QED BY <2>1, MenuUnchanged, WindowsUnchanged
<1>8. CASE UNCHANGED vars
  <2>1. UNCHANGED menuVars /\ UNCHANGED windowVars /\ LoopInv'
    BY <1>8 DEF vars, LoopInv
  <2> QED BY <2>1, MenuUnchanged, WindowsUnchanged
<1> QED BY <1>1, <1>2, <1>3, <1>4, <1>5, <1>6, <1>7, <1>8 DEF Next, Main

LEMMA IInvAlways == Spec => []IInv
BY StartsInOrder, StepKeepsOrder, PTL DEF Spec

(* The window table, the marks and the index of the active window agree,   *)
(* for any number of windows, after any calls and clicks (desktop.c).      *)
THEOREM InOrderAlways == Spec => []WindowsInOrder
<1>1. IInv => WindowsInOrder
  BY DEF IInv, MenuInv, WindowInv, LoopInv, WindowsInOrder, TypeOK
<1> QED BY <1>1, IInvAlways, PTL

(* The menu drawn open is the one clicks go to, for any number of menus    *)
(* (menu_bar.c).                                                           *)
THEOREM OpenIsActiveAlways == Spec => []OpenIsActive
<1>1. IInv => OpenIsActive
  BY DEF IInv, MenuInv
<1> QED BY <1>1, IInvAlways, PTL

-----------------------------------------------------------------------------
(* What each call does to the rectangles.                                  *)
LEMMA CreateLeavesShown ==
  ASSUME WindowInv, NEW s \in Shapes, CreateWindow(s), NEW k \in Windows, visible[k]
  PROVE  shape'[k] = shape[k]
<1>1. PICK i \in FreeSlot : shape' = [shape EXCEPT ![i] = s]
  BY DEF CreateWindow
<1>2. i # k
  BY DEF FreeSlot
<1> QED BY <1>1, <1>2 DEF WindowInv

LEMMA ClickLeavesShapes ==
  ASSUME NEW place, HandleMouse(place) PROVE shape' = shape
BY DEF HandleMouse, windowVars, FocusWindow

(* No call but a move or a resize of that window changes the rectangle of  *)
(* a window that stays open (desktop.c:167-224).                           *)
THEOREM ShownStaysPutAlways == Spec => ShownStaysPut
<1> DEFINE Moved(i) == visible[i] /\ visible'[i] /\ shape'[i] # shape[i]
<1>1. ASSUME IInv, [Next]_vars, NEW i \in Windows, Moved(i)
      PROVE  \E s \in Shapes : Reshape(i, s)
  <2> USE <1>1 DEF IInv
  <2>1. CASE Interface
    <3>1. ASSUME NEW s \in Shapes, CreateWindow(s) PROVE FALSE
      BY <3>1, CreateLeavesShown
    <3>2. ASSUME NEW j \in Windows, CloseWindow(j) \/ FocusWindow(j) PROVE FALSE
      BY <3>2 DEF CloseWindow, FocusWindow
    <3>3. ASSUME NEW j \in Windows, NEW s \in Shapes, Reshape(j, s) PROVE Reshape(i, s)
      <4>1. shape' = [shape EXCEPT ![j] = s]
        BY <3>3 DEF Reshape
      <4>2. i = j
        BY <4>1 DEF WindowInv
      <4> QED BY <3>3, <4>2
    <3>4. ASSUME UNCHANGED windowVars PROVE FALSE
      BY <3>4 DEF windowVars
    <3>5. ASSUME NEW place \in Places, HandleMouse(place) PROVE FALSE
      BY <3>5, ClickLeavesShapes
    <3> QED BY <2>1, <3>1, <3>2, <3>3, <3>4, <3>5 DEF Interface
  <2>2. CASE ~Interface
    <3>1. shape' = shape
      <4>1. CASE MainMouse
        <5>1. CASE click = None
          BY <4>1, <5>1 DEF MainMouse, windowVars
        <5>2. CASE click # None
          BY <4>1, <5>2, ClickLeavesShapes DEF MainMouse
        <5> QED BY <5>1, <5>2
      <4>2. CASE ~MainMouse
        BY <2>2, <4>2 DEF Next, Main, MainStart, MainKey, InitMenus, InitItems, InitDone,
                          vars, windowVars
      <4> QED BY <4>1, <4>2
    <3> QED BY <3>1
  <2> QED BY <2>1, <2>2
<1>2. IInv /\ [Next]_vars =>
        [\A i \in Windows : Moved(i) => \E s \in Shapes : Reshape(i, s)]_vars
  BY <1>1
<1> QED BY <1>2, IInvAlways, PTL DEF Spec, ShownStaysPut
=============================================================================
