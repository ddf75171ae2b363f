---------------------------- MODULE TerminalOps ----------------------------
(***************************************************************************)
(* The operations of kernel/terminal.c on the state of the text console.   *)
(* A terminal is a record: row and col are terminal_row and                *)
(* terminal_column, crtc the position last written to the cursor registers *)
(* of the CRT controller, and cell the characters of VGA memory (colours   *)
(* are left out: no operation depends on them).                            *)
(***************************************************************************)
EXTENDS Integers, Sequences, SequencesExt

CONSTANTS
  Width, Height,  \* VGA_WIDTH and VGA_HEIGHT
  Blank,          \* the character ' '
  Newline         \* the character '\n'

ASSUME SizeAssumption ==
  /\ Width \in Nat \ {0, 1} /\ Height \in Nat \ {0}
  /\ Blank # Newline

Rows == 0 .. Height - 1
Cols == 0 .. Width - 1
LastCell == Width * Height - 1
Cells == 0 .. LastCell

(* The index of a position in VGA memory.                                  *)
At(row, col) == row * Width + col
Position(t) == At(t.row, t.col)

UpdateCursor(t) == [t EXCEPT !.crtc = Position(t)]

BlankScreen == [k \in Cells |-> Blank]

TerminalClear(t) ==
  UpdateCursor([t EXCEPT !.cell = BlankScreen, !.row = 0, !.col = 0])

(* Column zero of the next row; below the last row comes the first again.  *)
NextRow(t) ==
  [t EXCEPT !.col = 0, !.row = IF @ + 1 = Height THEN 0 ELSE @ + 1]

(* Bug: only the first row is ever written.                                *)
PutCharFirstRow(t, c) ==
  IF c = Newline
    THEN NextRow(t)
    ELSE LET u == [t EXCEPT !.cell[t.col] = c] IN
         UpdateCursor(IF t.col + 1 = Width THEN NextRow(u) ELSE [u EXCEPT !.col = @ + 1])

(* Bug: the hardware cursor is told of the move only at the end of a row.  *)
PutCharLazy(t, c) ==
  IF c = Newline
    THEN NextRow(t)
    ELSE LET u == [t EXCEPT !.cell[Position(t)] = c] IN
         IF t.col + 1 = Width THEN UpdateCursor(NextRow(u)) ELSE [u EXCEPT !.col = @ + 1]

(* Bug: the column runs one past the end of the row.                       *)
PutCharLateWrap(t, c) ==
  IF c = Newline
    THEN NextRow(t)
    ELSE LET u == [t EXCEPT !.cell[Position(t)] = c] IN
         UpdateCursor(IF t.col = Width THEN NextRow(u) ELSE [u EXCEPT !.col = @ + 1])

(* A newline returns before the hardware cursor is updated.                *)
TerminalPutChar(t, c) ==
  IF c = Newline
    THEN NextRow(t)
    ELSE LET u == [t EXCEPT !.cell[Position(t)] = c] IN
         UpdateCursor(IF t.col + 1 = Width THEN NextRow(u) ELSE [u EXCEPT !.col = @ + 1])

TerminalPutchar(t, c) == UpdateCursor(TerminalPutChar(t, c))

TerminalWriteString(t, str) == FoldLeft(TerminalPutChar, t, str)

TerminalPutPixel(t, x, y) ==
  IF x \in Cols /\ y \in Rows THEN [t EXCEPT !.cell[At(y, x)] = Blank] ELSE t

(* The part of str left of the right edge, on a row of the screen.         *)
TerminalDrawString(t, x, y, str) ==
  [t EXCEPT !.cell =
     [k \in Cells |-> IF \E i \in 1 .. Len(str) : x + i - 1 < Width /\ k = At(y, x + i - 1)
                        THEN str[k - At(y, x) + 1]
                        ELSE @[k]]]

(* terminal_move_cursor and terminal_move_cursor_to.                       *)
TerminalMoveCursor(t, row, col) ==
  IF row \in Rows /\ col \in Cols
    THEN UpdateCursor([t EXCEPT !.row = row, !.col = col])
    ELSE t

(* Bug: stepping back from the first column stays on the row.              *)
MoveCursorLeftSameRow(t) ==
  IF t.col > 0
    THEN UpdateCursor([t EXCEPT !.col = @ - 1])
    ELSE UpdateCursor([t EXCEPT !.col = Width - 1])

TerminalMoveCursorLeft(t) ==
  IF t.col > 0
    THEN UpdateCursor([t EXCEPT !.col = @ - 1])
    ELSE IF t.row > 0
           THEN UpdateCursor([t EXCEPT !.row = @ - 1, !.col = Width - 1])
           ELSE t

TerminalMoveCursorRight(t) ==
  IF t.col < Width - 1
    THEN UpdateCursor([t EXCEPT !.col = @ + 1])
    ELSE IF t.row < Height - 1
           THEN UpdateCursor([t EXCEPT !.row = @ + 1, !.col = 0])
           ELSE t

(* What stands right of the cursor on its row moves one column left.       *)
TerminalDeleteChar(t) ==
  [t EXCEPT !.cell =
     [k \in Cells |-> CASE k \in Position(t) .. At(t.row, Width - 2) -> @[k + 1]
                        [] k = At(t.row, Width - 1) -> Blank
                        [] OTHER -> @[k]]]

TerminalClearLine(t) ==
  UpdateCursor([t EXCEPT !.cell = [k \in Cells |->
                             IF k \in At(t.row, 0) .. At(t.row, Width - 1) THEN Blank ELSE @[k]],
                         !.col = 0])

(* terminal_initialize, before which the program uses no other operation.  *)
InitialTerminal == [row |-> 0, col |-> 0, crtc |-> 0, cell |-> BlankScreen]
=============================================================================
