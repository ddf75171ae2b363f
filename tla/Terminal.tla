------------------------------ MODULE Terminal ------------------------------
(***************************************************************************)
(* The text console of kernel/terminal.c driven by any sequence of its     *)
(* operations.                                                             *)
(***************************************************************************)
EXTENDS TerminalOps

CONSTANTS
  Chars,       \* the characters callers write
  Strings      \* the strings callers write, with newlines among them

ASSUME WrittenAssumption == \A str \in Strings : str \in Seq(Chars \cup {Newline})

VARIABLE term

termVars == <<term>>

TermInit == term = InitialTerminal

PutChar(c) == term' = TerminalPutChar(term, c)
Putchar(c) == term' = TerminalPutchar(term, c)
WriteString(str) == term' = TerminalWriteString(term, str)
ClearScreen == term' = TerminalClear(term)
PutPixel(x, y) == term' = TerminalPutPixel(term, x, y)
DrawStringAt(x, y, str) == term' = TerminalDrawString(term, x, y, str)
MoveCursor(row, col) == term' = TerminalMoveCursor(term, row, col)
MoveCursorLeft == term' = TerminalMoveCursorLeft(term)
MoveCursorRight == term' = TerminalMoveCursorRight(term)
DeleteChar == term' = TerminalDeleteChar(term)
ClearLine == term' = TerminalClearLine(term)

(* Coordinates one outside the screen are tried where the code tests them. *)
TermNext ==
  \/ \E c \in Chars \cup {Newline} : PutChar(c) \/ Putchar(c)
  \/ \E str \in Strings : WriteString(str)
  \/ ClearScreen
  \/ \E x \in -1 .. Width, y \in -1 .. Height : PutPixel(x, y) \/ MoveCursor(y, x)
  \/ \E x \in Cols, y \in Rows, str \in Strings : DrawStringAt(x, y, str)
  \/ MoveCursorLeft
  \/ MoveCursorRight
  \/ DeleteChar
  \/ ClearLine

TermSpec == TermInit /\ [][TermNext]_termVars

-----------------------------------------------------------------------------
(* The cursor is on the screen, so every write lands in VGA memory.        *)
CursorOnScreen ==
  term \in [row : Rows, col : Cols, crtc : Cells,
            cell : [Cells -> Chars \cup {Blank, Newline}]]

(* A newline moves the cursor without telling the CRT controller.  The     *)
(* cursor a user sees is therefore wrong only while the next character     *)
(* goes to the start of a row, and the next printed character or cursor    *)
(* key puts it right, whatever operations came before.                     *)
StaleOnlyAtRowStart == term.crtc # Position(term) => term.col = 0

(* The rows are one line that closes on itself: a string without newlines  *)
(* is laid out from the cursor on, across row ends and from the last cell  *)
(* to the first, touches no other cell, and leaves the cursor behind it.   *)
WritesAreLinear ==
  \A str \in Strings :
    (Newline \notin ToSet(str) /\ Len(str) <= LastCell) =>
      LET u == TerminalWriteString(term, str)
          offset(k) == (k - Position(term)) % (LastCell + 1)
      IN /\ Position(u) = (Position(term) + Len(str)) % (LastCell + 1)
         /\ \A k \in Cells :
              u.cell[k] = IF offset(k) < Len(str) THEN str[offset(k) + 1] ELSE term.cell[k]
=============================================================================
