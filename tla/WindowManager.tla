---------------------------- MODULE WindowManager ----------------------------
(***************************************************************************)
(* The window manager of kernel/de/window_manager.c as a client of the     *)
(* kernel heap, of which it sees what Allocator promises.  Lengths are in  *)
(* words of four bytes, so that a window's buffer has one word a pixel.    *)
(* Drawing is left out but for what it reads: width * height pixels of the *)
(* buffer.                                                                 *)
(***************************************************************************)
EXTENDS Allocator, FiniteSets

CONSTANTS
  MaxWindows,   \* MAX_WINDOWS
  WordMod,      \* size_t counts bytes modulo 4 * WordMod
  Shapes        \* windows to create: pixels, and the points of the title bar

ASSUME WindowAssumption ==
  /\ MaxWindows \in Nat /\ WordMod \in Nat \ {0}
  /\ \A s \in Shapes : s.area \in Nat

VARIABLES
  shape,          \* x, y, width and height of each slot
  is_active,      \* windows[i].is_active
  buffer,         \* windows[i].buffer
  active_window,  \* an index, or -1
  window_count,   \* the slots in use are the first window_count
  creating        \* wm_create_window has called kmalloc and waits

windowVars == <<shape, is_active, buffer, active_window, window_count, creating>>

Slots == 0 .. MaxWindows - 1
Windows == 0 .. window_count - 1
NoWindow == -1
Null == -1
NoShape == [area |-> 0, bar |-> {}]

WmInit ==
  /\ shape = [i \in Slots |-> NoShape]
  /\ is_active = [i \in Slots |-> FALSE]
  /\ buffer = [i \in Slots |-> Null]
  /\ active_window = NoWindow
  /\ window_count = 0
  /\ creating = FALSE

(* Bug: the window that loses the focus keeps its flag.                    *)
ActivatedAlso(id) ==
  IF id \in Windows THEN [is_active EXCEPT ![id] = TRUE] ELSE is_active

(* The flags after wm_set_active(id), which returns early for an id that   *)
(* is not in use.                                                          *)
Activated(id) ==
  IF id \in Windows THEN [i \in Slots |-> i = id \/ (is_active[i] /\ i # active_window)]
                    ELSE is_active

ActiveAfter(id) == IF id \in Windows THEN id ELSE active_window

SetActive(id) ==
  /\ ~creating
  /\ is_active' = Activated(id)
  /\ active_window' = ActiveAfter(id)
  /\ UNCHANGED <<shape, buffer, window_count, creating, granted, pending>>

(* width * height * sizeof(uint32_t), in size_t.                           *)
BufferWords(s) == s.area % WordMod

CanCreate == window_count < MaxWindows

(* Up to the call of kmalloc, which answers a request of zero at once.     *)
WmCreate(s) ==
  /\ ~creating /\ CanCreate
  /\ shape' = [shape EXCEPT ![window_count] = s]
  /\ is_active' = [is_active EXCEPT ![window_count] = FALSE]
  /\ IF BufferWords(s) = 0
       THEN /\ buffer' = [buffer EXCEPT ![window_count] = Null]
            /\ UNCHANGED <<creating, granted, pending>>
       ELSE Request(BufferWords(s)) /\ creating' = TRUE /\ UNCHANGED buffer
  /\ UNCHANGED <<active_window, window_count>>

(* Bug: the slot is taken although it has no buffer.                       *)
CountAfterRefusalTaken == window_count + 1

CountAfterRefusal == window_count

WmRefused ==
  /\ creating /\ Refuse
  /\ buffer' = [buffer EXCEPT ![window_count] = Null]
  /\ creating' = FALSE
  /\ window_count' = CountAfterRefusal
  /\ UNCHANGED <<shape, is_active, active_window>>

(* The window is drawn and made active before it is counted, so that       *)
(* wm_draw_window and wm_set_active return early.                          *)
WmCreated ==
  /\ creating
  /\ \E p \in 0 .. PoolSize, g \in 0 .. PoolSize :
       Grant(p, g) /\ buffer' = [buffer EXCEPT ![window_count] = p]
  /\ is_active' = Activated(window_count)
  /\ active_window' = ActiveAfter(window_count)
  /\ window_count' = window_count + 1
  /\ creating' = FALSE
  /\ UNCHANGED shape

(* A press of the left button at a point activates the first window whose  *)
(* title bar is there; wm_main_loop reads the mouse afresh in each round.  *)
WmHandleMouse(point) ==
  \E i \in Windows :
    /\ point \in shape[i].bar /\ \A j \in 0 .. i - 1 : point \notin shape[j].bar
    /\ SetActive(i)

WmNext ==
  \/ \E s \in Shapes : WmCreate(s) \/ \E point \in s.bar : WmHandleMouse(point)
  \/ \E id \in Slots : SetActive(id)
  \/ WmRefused \/ WmCreated
-----------------------------------------------------------------------------
WmTypeOK ==
  /\ shape \in [Slots -> Shapes \cup {NoShape}]
  /\ is_active \in [Slots -> BOOLEAN]
  /\ buffer \in [Slots -> (0 .. PoolSize) \cup {Null}]
  /\ active_window \in Windows \cup {NoWindow}
  /\ window_count \in 0 .. MaxWindows
  /\ creating \in BOOLEAN

(* The flag a window is drawn by and the index input is sent by agree,     *)
(* whatever windows were created, refused, clicked and activated.          *)
FlagIsIndex == \A i \in Slots : is_active[i] <=> i = active_window

(* Every window in use has a buffer of its own that the heap still grants, *)
(* also after creations the heap refused.                                  *)
WindowsHaveBuffers ==
  /\ \A i \in Windows : buffer[i] \in DOMAIN granted
  /\ \A i, j \in Windows : buffer[i] = buffer[j] => i = j

(* wm_draw_window reads a pixel of the buffer for each of the window's     *)
(* width * height: it stays in the buffer of every window whose size in    *)
(* bytes size_t can hold, also when kmalloc has rounded it up.             *)
DrawStaysInBuffer ==
  \A i \in Windows :
    shape[i].area < WordMod /\ shape[i].area <= MaxRequest => shape[i].area <= granted[buffer[i]]

(* "Make it active" (window_manager.c:63): a window is the active one when *)
(* wm_create_window has made it.                                           *)
NewWindowIsActive ==
  [][window_count' > window_count => active_window' = window_count]_<<windowVars>>
=============================================================================
