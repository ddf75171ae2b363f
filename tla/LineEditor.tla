----------------------------- MODULE LineEditor -----------------------------
(***************************************************************************)
(* keyboard_update_command_line of kernel/keyboard.c: the command buffer,  *)
(* its cursor, and the console it draws on.  One step handles one key.     *)
(*                                                                         *)
(* The buffer is an array of BufSize bytes whose text ends at the first NUL.   *)
(* Every loop of the editor runs to that NUL; where there is none the loop *)
(* leaves the array, and what the program does from then on is undefined:  *)
(* the model raises wild and stops.                                        *)
(***************************************************************************)
EXTENDS TerminalOps

CONSTANTS
  BufSize,    \* max_size, the KEYBOARD_BUFFER_SIZE of the only caller
  Chars,      \* what keyboard_process_scancode yields for the typing keys
  Nul,        \* the character '\0'
  BackspaceGlyph \* the character '\b', which the console prints like any other

ASSUME EditorAssumption ==
  /\ BufSize \in Nat \ {0}
  /\ {Nul, Newline} \cap Chars = {}

VARIABLES
  buffer,     \* command_buffer
  pos,        \* command_pos
  term,       \* the console
  wild,       \* the editor has left its buffer
  inStep      \* the screen has been redrawn as the text was edited

vars == <<buffer, pos, term, wild, inStep>>

Indices == 0 .. BufSize - 1

(* The first NUL at or behind i: one index or none.                        *)
FirstNul(i) ==
  {e \in i .. BufSize - 1 : buffer[e] = Nul /\ \A k \in i .. e - 1 : buffer[k] # Nul}

NoNulFrom(i) == \A k \in i .. BufSize - 1 : buffer[k] # Nul

(* n times the operation Op on the console.                                *)
Repeat(Op(_), n, t) ==
  LET times[i \in 0 .. n] == IF i = 0 THEN t ELSE Op(times[i - 1]) IN times[n]

(* The array is static: zeroes.                                            *)
Init ==
  /\ buffer = [i \in Indices |-> Nul]
  /\ pos = 0
  /\ term = InitialTerminal
  /\ wild = FALSE /\ inStep = TRUE

-----------------------------------------------------------------------------
(* The cursor keys.                                                        *)

KeyLeft ==
  /\ pos > 0
  /\ pos' = pos - 1
  /\ term' = TerminalMoveCursorLeft(term)
  /\ UNCHANGED <<buffer, wild, inStep>>

(* Bug: the end of the text does not stop the cursor.                      *)
KeyRightUnchecked ==
  /\ pos \in Indices
  /\ pos' = pos + 1
  /\ term' = TerminalMoveCursorRight(term)
  /\ UNCHANGED <<buffer, wild, inStep>>

KeyRight ==
  /\ pos \in Indices /\ buffer[pos] # Nul
  /\ pos' = pos + 1
  /\ term' = TerminalMoveCursorRight(term)
  /\ UNCHANGED <<buffer, wild, inStep>>

KeyHome ==
  /\ pos > 0
  /\ pos' = 0
  /\ term' = Repeat(TerminalMoveCursorLeft, pos, term)
  /\ UNCHANGED <<buffer, wild, inStep>>

KeyEnd ==
  /\ \E e \in FirstNul(pos) :
       /\ pos' = e
       /\ term' = Repeat(TerminalMoveCursorRight, e - pos, term)
  /\ UNCHANGED <<buffer, wild, inStep>>

-----------------------------------------------------------------------------
(* The editing keys.                                                       *)

(* Bug: the NUL is not carried along.                                      *)
ShiftedLeftNoNul(from, e) ==
  [i \in Indices |-> IF i \in from .. e - 2 THEN buffer[i + 1] ELSE buffer[i]]

(* The text from index from up to its NUL, the NUL included, one byte left.*)
ShiftedLeft(from, e) ==
  [i \in Indices |-> IF i \in from .. e - 1 THEN buffer[i + 1] ELSE buffer[i]]

(* Bug: the bytes are copied upwards, from the first to the last.          *)
ShiftedRightSmeared(from) ==
  [i \in Indices |-> IF i > from THEN buffer[from] ELSE buffer[i]]

(* Every byte behind index from one to the right; the last one is lost.    *)
ShiftedRight(from) ==
  [i \in Indices |-> IF i > from THEN buffer[i - 1] ELSE buffer[i]]

(* The console moves its characters up to the end of the row only.         *)
KeyDelete ==
  /\ \E e \in FirstNul(pos) :
       /\ e # pos
       /\ buffer' = ShiftedLeft(pos, e)
       /\ inStep' = (inStep /\ (e - 1) \div Width = term.row)
  /\ term' = TerminalDeleteChar(term)
  /\ UNCHANGED <<pos, wild>>

(* The cursor steps back in the buffer; the console prints a glyph.        *)
KeyBackspace ==
  /\ pos > 0
  /\ \E e \in FirstNul(pos - 1) : buffer' = ShiftedLeft(pos - 1, e)
  /\ pos' = pos - 1
  /\ term' = TerminalPutchar(term, BackspaceGlyph)
  /\ inStep' = FALSE
  /\ UNCHANGED wild

(* Enter cuts the text at the cursor, and leaves the cursor there.         *)
KeyEnter ==
  /\ pos \in Indices
  /\ buffer' = [buffer EXCEPT ![pos] = Nul]
  /\ term' = TerminalPutchar(term, Newline)
  /\ inStep' = FALSE
  /\ UNCHANGED <<pos, wild>>

HasRoom == pos < BufSize - 1

(* A character is inserted at the cursor.  The console prints it over what *)
(* stood there, so the screen keeps step only at the end of the text, and  *)
(* until the console starts again at its first cell.                       *)
KeyChar(c) ==
  /\ HasRoom
  /\ buffer' = [ShiftedRight(pos) EXCEPT ![pos] = c]
  /\ pos' = pos + 1
  /\ term' = TerminalPutchar(term, c)
  /\ inStep' = (inStep /\ buffer[pos] = Nul /\ Position(term) < LastCell)
  /\ UNCHANGED wild

(* With no NUL ahead of the cursor, End runs past the array, Delete and    *)
(* Backspace shift from beyond it, and with the cursor just behind it Right *)
(* reads and Enter writes there.                                           *)
RunsWild ==
  /\ NoNulFrom(pos)
  /\ wild' = TRUE
  /\ UNCHANGED <<buffer, pos, term, inStep>>

(* A time-out, a key release, a modifier, an arrow up or down, a key the   *)
(* guards above turn away: nothing changes.                                *)
KeyIgnored == UNCHANGED vars

Next ==
  /\ ~wild
  /\ \/ KeyLeft \/ KeyRight \/ KeyHome \/ KeyEnd
     \/ KeyDelete \/ KeyBackspace \/ KeyEnter
     \/ \E c \in Chars : KeyChar(c)
     \/ RunsWild \/ KeyIgnored

Spec == Init /\ [][Next]_vars

-----------------------------------------------------------------------------
(* The editor's arrays and indices keep their types.                       *)
TypeOK ==
  /\ buffer \in [Indices -> Chars \cup {Nul}]
  /\ pos \in 0 .. BufSize
  /\ term \in [row : Rows, col : Cols, crtc : Cells,
               cell : [Cells -> Chars \cup {Blank, BackspaceGlyph}]]
  /\ wild \in BOOLEAN /\ inStep \in BOOLEAN

(* The cursor never passes the end of the text: whatever keys are pressed, *)
(* no NUL stands in front of it, so that what is typed next is part of the *)
(* command.                                                                *)
CursorInText == \A i \in Indices : i < pos => buffer[i] # Nul

(* The editor leaves its array only when every byte of it holds a          *)
(* character: nothing but the loss of the last NUL makes a loop run wild.  *)
WildOnlyWhenFull == wild => \A i \in Indices : buffer[i] # Nul

TextLen == IF NoNulFrom(0) THEN BufSize ELSE CHOOSE e \in FirstNul(0) : TRUE

(* Until a key that the console does not follow is pressed (a backspace, an*)
(* insertion before the end, a deletion from a text of several rows, an    *)
(* enter, a character in the last cell), the screen shows the text and its *)
(* cursor stands where the editor's does.                                  *)
ScreenShowsLine ==
  inStep => /\ Position(term) = pos
            /\ \A k \in Cells :
                 term.cell[k] = IF k < TextLen THEN buffer[k] ELSE Blank

(* The cursor keys move the two cursors by the same number of characters,  *)
(* also over the ends of rows and when the screen has long been out of     *)
(* step, unless the console's cursor is stopped by a corner of the screen. *)
CursorKeysTogether ==
  [][KeyLeft \/ KeyRight \/ KeyHome \/ KeyEnd =>
       LET there == Position(term) + (pos' - pos)
       IN there \in Cells => Position(term') = there]_vars

(* The command buffer is an editable line of at most BufSize characters.       *)
Line == INSTANCE EditLine WITH
  text   <- [i \in 1 .. TextLen |-> buffer[i - 1]],
  cursor <- pos,
  lost   <- wild
ImplementsEditLine == Line!Spec

(* "Keyboard buffer size" (include/keyboard.h:8): the editor stays within  *)
(* the KEYBOARD_BUFFER_SIZE bytes it was given.                            *)
StaysInBuffer == ~wild
=============================================================================
