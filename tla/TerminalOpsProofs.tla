------------------------- MODULE TerminalOpsProofs --------------------------
(***************************************************************************)
(* Facts about the operations of the text console, for every size of the   *)
(* screen and any characters: what each of them leaves of the cursor and   *)
(* of the cells, and where the characters of a string go.                  *)
(*                                                                         *)
(* terminal_writestring is a loop over a string of any length. What a loop *)
(* does is shown by induction over its rounds, and induction over the      *)
(* naturals from the theorem that strict inclusion is well-founded on      *)
(* finite sets.                                                            *)
(***************************************************************************)
EXTENDS TerminalOps, FiniteSetTheorems, TLAPS

(* Every set of naturals that is not empty has a least element: strict     *)
(* inclusion is well-founded on finite sets, and n stands for 0 .. n - 1.  *)
LEMMA LeastNat ==
  ASSUME NEW T, T \subseteq Nat, T # {}
  PROVE  \E n \in T : \A m \in T : n <= m
<1> DEFINE Below(n) == 0 .. n - 1
           U == {Below(n) : n \in T}
<1>1. U \subseteq FiniteSubsetsOf(Nat)
  <2>1. ASSUME NEW n \in Nat PROVE Below(n) \in FiniteSubsetsOf(Nat)
    <3>1. IsFiniteSet(Below(n))
      <4>1. n - 1 \in Int
        OBVIOUS
      <4> QED BY <4>1, FS_Interval
    <3>2. Below(n) \in SUBSET Nat
      OBVIOUS
    <3> HIDE DEF Below
    <3> QED BY <3>1, <3>2 DEF FiniteSubsetsOf
  <2> HIDE DEF Below
  <2> QED BY <2>1
<1>2. PICK u \in U : \A v \in U : ~(<<v, u>> \in StrictSubsetOrdering(Nat))
  <2>1. U # {}
    OBVIOUS
  <2> HIDE DEF U
  <2> QED BY <1>1, <2>1, WFMin, FS_StrictSubsetOrderingWellFounded
<1>3. PICK n \in T : u = Below(n)
  OBVIOUS
<1>4. ASSUME NEW m \in T, m < n PROVE FALSE
  <2>1. /\ Below(m) \subseteq Below(n) /\ m \in Below(n) /\ m \notin Below(m)
        /\ Below(m) \subseteq Nat /\ Below(n) \subseteq Nat
    BY <1>4
  <2>2. <<Below(m), Below(n)>> \in StrictSubsetOrdering(Nat)
    <3> HIDE DEF Below
    <3> QED BY <2>1 DEF StrictSubsetOrdering
  <2> QED BY <1>2, <1>3, <2>2
<1> QED BY <1>4

(* A set that holds 0 and is closed under + 1 holds every natural: there   *)
(* is no least one outside it.                                             *)
LEMMA Induction ==
  ASSUME NEW S, 0 \in S, \A n \in Nat : n \in S => n + 1 \in S
  PROVE  Nat \subseteq S
<1> SUFFICES ASSUME Nat \ S # {} PROVE FALSE
  OBVIOUS
<1>1. PICK n \in Nat \ S : \A m \in Nat \ S : n <= m
  <2> DEFINE T == Nat \ S
  <2>1. T \subseteq Nat /\ T # {}
    OBVIOUS
  <2> HIDE DEF T
  <2>2. \E n \in T : \A m \in T : n <= m
    BY <2>1, LeastNat
  <2> QED BY <2>2 DEF T
<1>2. n # 0 /\ n - 1 \in Nat /\ n - 1 \in S
  BY <1>1
<1> QED BY <1>2

(* A function on 0 .. n given by its value at 0 and the step to each next. *)
Iterates(g, S, base, step, n) ==
  /\ g \in [0 .. n -> S]
  /\ g[0] = base
  /\ \A i \in 1 .. n : g[i] = step[i][g[i - 1]]

Steps(step, S) == step \in [Nat -> [S -> S]]

(* A function given by its first value and by a step exists on every 0 ..  *)
(* n: the state of a loop of the code after each of its rounds.            *)
LEMMA Recursion ==
  ASSUME NEW S, NEW base \in S, NEW step, Steps(step, S), NEW n \in Nat
  PROVE  \E g : Iterates(g, S, base, step, n)
<1> USE DEF Iterates, Steps
<1> DEFINE Has(k) == \E g \in [0 .. k -> S] :
                       g[0] = base /\ \A i \in 1 .. k : g[i] = step[i][g[i - 1]]
           D == {k \in Nat : Has(k)}
<1>1. 0 \in D
  <2> DEFINE h == [i \in 0 .. 0 |-> base]
  <2>1. h \in [0 .. 0 -> S] /\ h[0] = base
    OBVIOUS
  <2> HIDE DEF h
  <2> QED BY <2>1
<1>2. ASSUME NEW k \in Nat, k \in D PROVE k + 1 \in D
  <2>1. PICK g \in [0 .. k -> S] : g[0] = base /\ \A i \in 1 .. k : g[i] = step[i][g[i - 1]]
    BY <1>2
  <2> DEFINE h == [i \in 0 .. k + 1 |-> IF i = k + 1 THEN step[k + 1][g[k]] ELSE g[i]]
  <2>2. h \in [0 .. k + 1 -> S]
    <3>1. step[k + 1][g[k]] \in S
      OBVIOUS
    <3> QED BY <3>1
  <2>3. h[0] = base
    BY <2>1
  <2>4. ASSUME NEW i \in 1 .. k + 1 PROVE h[i] = step[i][h[i - 1]]
    <3>1. CASE i = k + 1
      BY <3>1
    <3>2. CASE i # k + 1
      <4>1. i \in 1 .. k /\ h[i] = g[i] /\ h[i - 1] = g[i - 1]
        BY <3>2
      <4> QED BY <2>1, <4>1
    <3> QED BY <3>1, <3>2
  <2> HIDE DEF h
  <2>5. Has(k + 1)
    BY <2>2, <2>3, <2>4
  <2> HIDE DEF Has
  <2> QED BY <2>5
<1> HIDE DEF D
<1>3. n \in D
  BY <1>1, <1>2, Induction
<1> QED BY <1>3 DEF D

(* What holds before a loop and is carried by each of its rounds holds     *)
(* after every round.                                                      *)
LEMMA Throughout ==
  ASSUME NEW n \in Nat, NEW D, 0 \in D, \A i \in 1 .. n : i - 1 \in D => i \in D
  PROVE  0 .. n \subseteq D
<1> DEFINE E == {i \in Nat : i <= n => i \in D}
<1>1. 0 \in E
  OBVIOUS
<1>2. ASSUME NEW k \in Nat, k \in E PROVE k + 1 \in E
  <2>1. k + 1 <= n => k + 1 \in 1 .. n /\ (k + 1) - 1 = k
    OBVIOUS
  <2> QED BY <1>2, <2>1
<1> HIDE DEF E
<1>3. Nat \subseteq E
  BY <1>1, <1>2, Induction
<1> QED BY <1>3 DEF E

-----------------------------------------------------------------------------
(* A console of characters of X whose cursor is on the screen.             *)
Console(X) == [row : Rows, col : Cols, crtc : Cells, cell : [Cells -> X]]

(* The hardware's cursor lags behind only at the start of a row.           *)
Fresh(t) == t.crtc # Position(t) => t.col = 0

Told(t) == t.crtc = Position(t)

Sized == LastCell \in Nat /\ LastCell + 1 = Width * Height /\ 0 \in Rows /\ 0 \in Cols
         /\ Width \in Nat \ {0, 1} /\ Height \in Nat \ {0} /\ Rows \subseteq Nat /\ Cols \subseteq Nat

(* The size of the screen: VGA_WIDTH * VGA_HEIGHT cells, one at least.     *)
LEMMA ScreenSize == Sized
<1>1. Width * Height \in Nat /\ Width * Height >= 1
  <2>1. (Width - 1) * (Height - 1) \in Nat
    <3>1. Width - 1 \in Nat /\ Height - 1 \in Nat
      BY SizeAssumption
    <3> QED BY <3>1
  <2>2. Width * Height = (Width - 1) * (Height - 1) + (Width - 1) + (Height - 1) + 1
    BY SizeAssumption
  <2> QED BY <2>1, <2>2, SizeAssumption
<1> QED BY <1>1, SizeAssumption DEF Sized, LastCell, Rows, Cols

(* Every row and column has a cell of its own in the buffer, and the rows  *)
(* follow one another in it: the arithmetic of y * VGA_WIDTH + x.          *)
LEMMA CellOf ==
  ASSUME NEW r \in Rows, NEW c \in Cols
  PROVE  /\ At(r, c) \in Cells
         /\ r * Width \in Nat /\ At(r, c) = r * Width + c
         /\ At(r, c) = LastCell <=> r + 1 = Height /\ c + 1 = Width
         /\ r + 1 # Height => At(r, c) + Width <= LastCell
         /\ At(r + 1, 0) = r * Width + Width
         /\ At(0, 0) = 0
<1> DEFINE left == Height - 1 - r
<1>1. r \in Nat /\ c \in Nat /\ c <= Width - 1 /\ left \in Nat /\ Width \in Nat /\ Width >= 2
  BY SizeAssumption DEF Rows, Cols
<1>2. r * Width \in Nat /\ left * Width \in Nat /\ (left # 0 => left * Width >= Width)
  <2>1. \A a, b \in Nat : a * b \in Nat /\ (a # 0 => a * b >= b)
    <3> TAKE a, b \in Nat
    <3>1. a * b \in Nat
      OBVIOUS
    <3>2. ASSUME a # 0 PROVE a * b >= b
      <4>1. a - 1 \in Nat
        BY <3>2
      <4>2. (a - 1) * b \in Nat
        BY <4>1
      <4>3. a * b = (a - 1) * b + b
        BY <4>1
      <4> QED BY <3>1, <4>2, <4>3
    <3> QED BY <3>1, <3>2
  <2> HIDE DEF left
  <2> QED BY <1>1, <2>1
<1>3. LastCell = r * Width + left * Width + Width - 1
  <2>1. Width * Height = (r + left + 1) * Width
    <3>1. Height = r + left + 1
      BY <1>1, SizeAssumption
    <3> HIDE DEF left
    <3> QED BY <1>1, <3>1
  <2>2. (r + left + 1) * Width = r * Width + left * Width + Width
    <3> HIDE DEF left
    <3> QED BY <1>1
  <2> HIDE DEF left
  <2> QED BY <1>1, <1>2, <2>1, <2>2 DEF LastCell
<1>4. left = 0 <=> r + 1 = Height
  BY <1>1, SizeAssumption
<1>5. left = 0 => left * Width = 0
  <2> HIDE DEF left
  <2> QED BY <1>1
<1>6. At(r + 1, 0) = r * Width + Width /\ At(0, 0) = 0
  BY <1>1 DEF At
<1> HIDE DEF left
<1> DEFINE a == r * Width
           b == left * Width
<1>7. At(r, c) = a + c
  BY DEF At
<1>8. a \in Nat /\ b \in Nat /\ (left # 0 => b >= Width) /\ LastCell = a + b + Width - 1 /\ (left = 0 => b = 0)
  BY <1>2, <1>3, <1>5
<1>9. At(r + 1, 0) = a + Width
  BY <1>6
<1> HIDE DEF a, b
<1>10. /\ At(r, c) \in Cells
       /\ At(r, c) = LastCell <=> r + 1 = Height /\ c + 1 = Width
       /\ r + 1 # Height => At(r, c) + Width <= LastCell
  BY <1>1, <1>4, <1>7, <1>8 DEF Cells
<1> QED BY <1>2, <1>6, <1>10 DEF At

-----------------------------------------------------------------------------
(* terminal_update_cursor tells the hardware the cell of row and column,   *)
(* and moves nothing.                                                      *)
LEMMA Updated ==
  ASSUME NEW X, NEW t \in Console(X)
  PROVE  /\ UpdateCursor(t) \in Console(X) /\ Told(UpdateCursor(t))
         /\ UpdateCursor(t) = [t EXCEPT !.crtc = Position(t)]
         /\ Position(UpdateCursor(t)) = Position(t)
         /\ Position(t) \in Cells
<1>1. Position(t) \in Cells
  BY CellOf DEF Console, Position
<1> QED BY <1>1 DEF Console, UpdateCursor, Told, Position

(* A step to the next row (after the last one, the first) keeps the cursor *)
(* on the screen; from the last column it is a step to the next cell.      *)
LEMMA Rowed ==
  ASSUME NEW X, NEW t \in Console(X)
  PROVE  /\ NextRow(t) \in Console(X) /\ NextRow(t).col = 0 /\ NextRow(t).cell = t.cell
         /\ t.col + 1 = Width =>
              Position(NextRow(t)) = IF Position(t) = LastCell THEN 0 ELSE Position(t) + 1
<1>1. t.row \in Rows /\ t.col \in Cols
  BY DEF Console
<1>2. NextRow(t) = [t EXCEPT !.col = 0, !.row = IF t.row + 1 = Height THEN 0 ELSE t.row + 1]
  BY DEF NextRow
<1>3. (IF t.row + 1 = Height THEN 0 ELSE t.row + 1) \in Rows /\ 0 \in Cols
  BY <1>1, SizeAssumption DEF Rows, Cols
<1>4. /\ NextRow(t) \in Console(X)
      /\ NextRow(t).col = 0 /\ NextRow(t).cell = t.cell
      /\ NextRow(t).row = IF t.row + 1 = Height THEN 0 ELSE t.row + 1
  BY <1>2, <1>3 DEF Console
<1>5. ASSUME t.col + 1 = Width
      PROVE  Position(NextRow(t)) = IF Position(t) = LastCell THEN 0 ELSE Position(t) + 1
  <2>1. /\ At(t.row, t.col) = LastCell <=> t.row + 1 = Height
        /\ At(t.row, t.col) = t.row * Width + t.col /\ t.row * Width \in Nat
        /\ At(t.row + 1, 0) = t.row * Width + Width /\ At(0, 0) = 0
    BY <1>1, <1>5, CellOf
  <2>2. At(t.row + 1, 0) = At(t.row, t.col) + 1
    BY <1>1, <1>5, <2>1, SizeAssumption DEF Cols
  <2>3. CASE t.row + 1 = Height
    BY <1>4, <2>1, <2>3 DEF Position
  <2>4. CASE t.row + 1 # Height
    BY <1>4, <2>1, <2>2, <2>4 DEF Position
  <2> QED BY <2>3, <2>4
<1> QED BY <1>4, <1>5

(* A newline moves the cursor and writes nothing.                          *)
LEMMA Newlined ==
  ASSUME NEW X, NEW t \in Console(X)
  PROVE  TerminalPutChar(t, Newline) = NextRow(t)
<1> QED BY DEF TerminalPutChar

(* Any other character is written where the cursor stands, and the cursor  *)
(* steps to the next cell, after the last one to the first.                *)
LEMMA Printed ==
  ASSUME NEW X, NEW t \in Console(X), NEW c \in X, c # Newline
  PROVE  LET u == TerminalPutChar(t, c) IN
         /\ u \in Console(X) /\ Told(u)
         /\ u.cell = [t.cell EXCEPT ![Position(t)] = c]
         /\ Position(u) = IF Position(t) = LastCell THEN 0 ELSE Position(t) + 1
         /\ Position(t) \in Cells
<1> DEFINE w == [t EXCEPT !.cell[Position(t)] = c]
           v == IF t.col + 1 = Width THEN NextRow(w) ELSE [w EXCEPT !.col = @ + 1]
           u == TerminalPutChar(t, c)
<1>1. t.row \in Rows /\ t.col \in Cols /\ Position(t) \in Cells
  BY CellOf DEF Console, Position
<1>2. u = UpdateCursor(v)
  BY DEF TerminalPutChar
<1>3. /\ w \in Console(X) /\ Position(w) = Position(t) /\ w.cell = [t.cell EXCEPT ![Position(t)] = c]
      /\ w.row = t.row /\ w.col = t.col
  <2>1. w = [t EXCEPT !.cell = [t.cell EXCEPT ![Position(t)] = c]]
    OBVIOUS
  <2>2. [t.cell EXCEPT ![Position(t)] = c] \in [Cells -> X]
    BY DEF Console
  <2> HIDE DEF w
  <2> QED BY <2>1, <2>2 DEF Console, Position
<1> HIDE DEF w
<1>4. /\ v \in Console(X) /\ v.cell = w.cell
      /\ Position(v) = IF Position(w) = LastCell THEN 0 ELSE Position(w) + 1
  <2>1. CASE t.col + 1 = Width
    BY <1>3, <2>1, Rowed
  <2>2. CASE t.col + 1 # Width
    <3>1. v = [w EXCEPT !.col = w.col + 1]
      BY <2>2
    <3>2. w.col + 1 \in Cols
      BY <1>1, <1>3, <2>2, SizeAssumption DEF Cols
    <3>3. v \in Console(X) /\ v.cell = w.cell /\ v.row = w.row /\ v.col = w.col + 1
      BY <1>3, <3>1, <3>2 DEF Console
    <3>4. /\ At(w.row, w.col) # LastCell
          /\ At(w.row, w.col) = w.row * Width + w.col /\ At(w.row, w.col + 1) = w.row * Width + (w.col + 1)
          /\ w.row * Width \in Nat /\ w.col \in Nat
      BY <1>1, <1>3, <2>2, <3>2, CellOf DEF Cols
    <3>5. Position(v) = Position(w) + 1 /\ Position(w) # LastCell
      BY <3>3, <3>4 DEF Position
    <3> QED BY <3>3, <3>5
  <2> QED BY <2>1, <2>2
<1> HIDE DEF v
<1>5. /\ u \in Console(X) /\ Told(u) /\ Position(u) = Position(v) /\ u.cell = v.cell
  <2>1. u = [v EXCEPT !.crtc = Position(v)]
    BY <1>2, <1>4, Updated
  <2>2. u.cell = v.cell
    BY <1>4, <2>1 DEF Console
  <2> QED BY <1>2, <1>4, <2>2, Updated
<1> QED BY <1>1, <1>3, <1>4, <1>5 DEF u

(* Whichever character terminal_put_char and terminal_putchar are given,   *)
(* the cursor stays on the screen; the hardware lags behind only at the    *)
(* start of a row, and after terminal_putchar never.                       *)
LEMMA PutCharKeeps ==
  ASSUME NEW X, NEW t \in Console(X), NEW c \in X \cup {Newline}
  PROVE  /\ TerminalPutChar(t, c) \in Console(X) /\ Fresh(TerminalPutChar(t, c))
         /\ TerminalPutchar(t, c) \in Console(X) /\ Fresh(TerminalPutchar(t, c))
<1>1. TerminalPutChar(t, c) \in Console(X) /\ Fresh(TerminalPutChar(t, c))
  <2>1. CASE c = Newline
    BY <2>1, Newlined, Rowed DEF Fresh
  <2>2. CASE c # Newline
    <3>1. c \in X
      BY <2>2
    <3>2. TerminalPutChar(t, c) \in Console(X) /\ Told(TerminalPutChar(t, c))
      BY <2>2, <3>1, Printed
    <3> QED BY <3>2 DEF Fresh, Told
  <2> QED BY <2>1, <2>2
<1>2. TerminalPutchar(t, c) \in Console(X) /\ Told(TerminalPutchar(t, c))
  BY <1>1, Updated DEF TerminalPutchar
<1> QED BY <1>1, <1>2 DEF Fresh, Told

(* So it does whatever terminal_move_cursor is asked for, and with the     *)
(* cursor keys at every edge.                                              *)
LEMMA CursorMovesKeep ==
  ASSUME NEW X, NEW t \in Console(X), Fresh(t)
  PROVE  /\ \A row \in Int, col \in Int : LET u == TerminalMoveCursor(t, row, col) IN
                                           u \in Console(X) /\ Fresh(u)
         /\ TerminalMoveCursorLeft(t) \in Console(X) /\ Fresh(TerminalMoveCursorLeft(t))
         /\ TerminalMoveCursorRight(t) \in Console(X) /\ Fresh(TerminalMoveCursorRight(t))
<1>1. t.row \in Rows /\ t.col \in Cols
  BY DEF Console
<1>2. ASSUME NEW r \in Rows, NEW c \in Cols
      PROVE  LET u == UpdateCursor([t EXCEPT !.row = r, !.col = c]) IN u \in Console(X) /\ Fresh(u)
  <2>1. [t EXCEPT !.row = r, !.col = c] \in Console(X)
    BY DEF Console
  <2> QED BY <2>1, Updated DEF Fresh, Told
<1>3. ASSUME NEW row \in Int, NEW col \in Int
      PROVE  TerminalMoveCursor(t, row, col) \in Console(X) /\ Fresh(TerminalMoveCursor(t, row, col))
  BY <1>2 DEF TerminalMoveCursor
<1>4. ASSUME NEW c \in Cols
      PROVE  LET u == UpdateCursor([t EXCEPT !.col = c]) IN u \in Console(X) /\ Fresh(u)
  <2>1. [t EXCEPT !.col = c] \in Console(X)
    BY DEF Console
  <2> QED BY <2>1, Updated DEF Fresh, Told
<1>5. /\ t.col > 0 => t.col - 1 \in Cols
      /\ t.row > 0 => t.row - 1 \in Rows
      /\ t.col < Width - 1 => t.col + 1 \in Cols
      /\ t.row < Height - 1 => t.row + 1 \in Rows
      /\ 0 \in Cols /\ Width - 1 \in Cols
  BY <1>1, SizeAssumption DEF Rows, Cols
<1>6. TerminalMoveCursorLeft(t) \in Console(X) /\ Fresh(TerminalMoveCursorLeft(t))
  <2>1. CASE t.col > 0
    <3>1. TerminalMoveCursorLeft(t) = UpdateCursor([t EXCEPT !.col = t.col - 1])
      BY <2>1 DEF TerminalMoveCursorLeft
    <3> QED BY <1>4, <1>5, <2>1, <3>1
  <2>2. CASE ~(t.col > 0) /\ t.row > 0
    <3>1. TerminalMoveCursorLeft(t) = UpdateCursor([t EXCEPT !.row = t.row - 1, !.col = Width - 1])
      BY <2>2 DEF TerminalMoveCursorLeft
    <3> QED BY <1>2, <1>5, <2>2, <3>1
  <2>3. CASE ~(t.col > 0) /\ ~(t.row > 0)
    BY <2>3 DEF TerminalMoveCursorLeft
  <2> QED BY <2>1, <2>2, <2>3
<1>7. TerminalMoveCursorRight(t) \in Console(X) /\ Fresh(TerminalMoveCursorRight(t))
  <2>1. CASE t.col < Width - 1
    <3>1. TerminalMoveCursorRight(t) = UpdateCursor([t EXCEPT !.col = t.col + 1])
      BY <2>1 DEF TerminalMoveCursorRight
    <3> QED BY <1>4, <1>5, <2>1, <3>1
  <2>2. CASE ~(t.col < Width - 1) /\ t.row < Height - 1
    <3>1. TerminalMoveCursorRight(t) = UpdateCursor([t EXCEPT !.row = t.row + 1, !.col = 0])
      BY <2>2 DEF TerminalMoveCursorRight
    <3> QED BY <1>2, <1>5, <2>2, <3>1
  <2>3. CASE ~(t.col < Width - 1) /\ ~(t.row < Height - 1)
    BY <2>3 DEF TerminalMoveCursorRight
  <2> QED BY <2>1, <2>2, <2>3
<1> QED BY <1>3, <1>6, <1>7

(* A change of the cells alone leaves the cursor and what the hardware     *)
(* knows of it.                                                            *)
LEMMA Rewritten ==
  ASSUME NEW X, NEW t \in Console(X), Fresh(t), NEW cells \in [Cells -> X]
  PROVE  LET u == [t EXCEPT !.cell = cells] IN
         u \in Console(X) /\ Fresh(u) /\ u.cell = cells /\ Position(u) = Position(t)
<1> QED BY DEF Console, Fresh, Position

(* Clearing the screen or a row and deleting a character read and write    *)
(* cells of the screen only, and leave the cursor on it.                   *)
LEMMA ClearsKeep ==
  ASSUME NEW X, Blank \in X, NEW t \in Console(X), Fresh(t)
  PROVE  /\ TerminalClear(t) \in Console(X) /\ Fresh(TerminalClear(t))
         /\ TerminalClearLine(t) \in Console(X) /\ Fresh(TerminalClearLine(t))
         /\ TerminalDeleteChar(t) \in Console(X) /\ Fresh(TerminalDeleteChar(t))
<1>1. t.row \in Rows /\ t.col \in Cols /\ 0 \in Rows /\ 0 \in Cols
  BY ScreenSize DEF Console, Sized
<1>2. TerminalClear(t) \in Console(X) /\ Fresh(TerminalClear(t))
  <2>1. BlankScreen \in [Cells -> X]
    BY DEF BlankScreen
  <2>2. [t EXCEPT !.cell = BlankScreen, !.row = 0, !.col = 0] \in Console(X)
    BY <1>1, <2>1 DEF Console
  <2> QED BY <2>2, Updated DEF TerminalClear, Fresh, Told
<1>3. TerminalClearLine(t) \in Console(X) /\ Fresh(TerminalClearLine(t))
  <2> DEFINE cells == [k \in Cells |-> IF k \in At(t.row, 0) .. At(t.row, Width - 1) THEN Blank ELSE t.cell[k]]
  <2>1. cells \in [Cells -> X]
    BY DEF Console
  <2>2. TerminalClearLine(t) = UpdateCursor([t EXCEPT !.cell = cells, !.col = 0])
    BY DEF TerminalClearLine
  <2> HIDE DEF cells
  <2>3. [t EXCEPT !.cell = cells, !.col = 0] \in Console(X)
    BY <1>1, <2>1 DEF Console
  <2> QED BY <2>2, <2>3, Updated DEF Fresh, Told
<1>4. TerminalDeleteChar(t) \in Console(X) /\ Fresh(TerminalDeleteChar(t))
  <2> DEFINE cells == [k \in Cells |-> CASE k \in Position(t) .. At(t.row, Width - 2) -> t.cell[k + 1]
                                         [] k = At(t.row, Width - 1) -> Blank
                                         [] OTHER -> t.cell[k]]
  <2>1. TerminalDeleteChar(t) = [t EXCEPT !.cell = cells]
    BY DEF TerminalDeleteChar
  <2>2. ASSUME NEW k \in Cells PROVE cells[k] \in X
    <3>1. CASE k \in Position(t) .. At(t.row, Width - 2)
      <4> DEFINE c == Width - 2
      <4>1. c \in Cols /\ c + 1 # Width
        BY SizeAssumption DEF Cols
      <4>2. At(t.row, Width - 2) \in Cells /\ At(t.row, Width - 2) # LastCell
        <5>1. At(t.row, c) \in Cells /\ At(t.row, c) # LastCell
          <6> HIDE DEF c
          <6> QED BY <1>1, <4>1, CellOf
        <5> QED BY <5>1
      <4>3. k + 1 \in Cells
        BY <3>1, <4>2, ScreenSize DEF Cells, Sized
      <4> QED BY <3>1, <4>3 DEF Console
    <3>2. CASE k \notin Position(t) .. At(t.row, Width - 2)
      BY <3>2 DEF Console
    <3> QED BY <3>1, <3>2
  <2>3. cells \in [Cells -> X]
    BY <2>2
  <2> HIDE DEF cells
  <2> QED BY <2>1, <2>3, Rewritten
<1> QED BY <1>2, <1>3, <1>4

(* So do a pixel and a string drawn at any place, on the screen or off it: *)
(* what lies off it is not drawn.                                          *)
LEMMA PaintingKeeps ==
  ASSUME NEW X, Blank \in X, NEW t \in Console(X), Fresh(t)
  PROVE  /\ \A x \in Int, y \in Int : LET u == TerminalPutPixel(t, x, y) IN
                                       u \in Console(X) /\ Fresh(u)
         /\ \A x \in Int, y \in Int, str \in Seq(X) : LET u == TerminalDrawString(t, x, y, str) IN
                                                       u \in Console(X) /\ Fresh(u)
<1>1. ASSUME NEW x \in Int, NEW y \in Int
      PROVE  TerminalPutPixel(t, x, y) \in Console(X) /\ Fresh(TerminalPutPixel(t, x, y))
  <2>1. CASE x \in Cols /\ y \in Rows
    <3>1. At(y, x) \in Cells
      BY <2>1, CellOf
    <3> DEFINE cells == [t.cell EXCEPT ![At(y, x)] = Blank]
    <3>2. cells \in [Cells -> X]
      BY <3>1 DEF Console
    <3>3. TerminalPutPixel(t, x, y) = [t EXCEPT !.cell = cells]
      BY <2>1 DEF TerminalPutPixel
    <3> HIDE DEF cells
    <3> QED BY <3>2, <3>3, Rewritten
  <2>2. CASE ~(x \in Cols /\ y \in Rows)
    BY <2>2 DEF TerminalPutPixel
  <2> QED BY <2>1, <2>2
<1>2. ASSUME NEW x \in Int, NEW y \in Int, NEW str \in Seq(X)
      PROVE  TerminalDrawString(t, x, y, str) \in Console(X) /\ Fresh(TerminalDrawString(t, x, y, str))
  <2> DEFINE drawn(k) == \E i \in 1 .. Len(str) : x + i - 1 < Width /\ k = At(y, x + i - 1)
             cells == [k \in Cells |-> IF drawn(k) THEN str[k - At(y, x) + 1] ELSE t.cell[k]]
  <2>1. TerminalDrawString(t, x, y, str) = [t EXCEPT !.cell = cells]
    BY DEF TerminalDrawString
  <2>2. ASSUME NEW k \in Cells PROVE cells[k] \in X
    <3>1. CASE drawn(k)
      <4>1. PICK i \in 1 .. Len(str) : k = At(y, x + i - 1)
        BY <3>1
      <4>2. y * Width \in Int
        BY SizeAssumption
      <4>3. k - At(y, x) + 1 = i
        BY <4>1, <4>2 DEF At
      <4> QED BY <3>1, <4>3
    <3>2. CASE ~drawn(k)
      BY <3>2 DEF Console
    <3> QED BY <3>1, <3>2
  <2>3. cells \in [Cells -> X]
    BY <2>2
  <2> HIDE DEF cells
  <2> QED BY <2>1, <2>3, Rewritten
<1> QED BY <1>1, <1>2

-----------------------------------------------------------------------------
(* The console after each character of a string.                           *)
Written(after, t, str) ==
  /\ after[0] = t
  /\ \A i \in 1 .. Len(str) : after[i] = TerminalPutChar(after[i - 1], str[i])
  /\ TerminalWriteString(t, str) = after[Len(str)]

(* terminal_writestring is a loop: a console before the string, one after  *)
(* each of its characters, the last one being its result.                  *)
LEMMA WritesOneByOne ==
  ASSUME NEW t, NEW str, Len(str) \in Nat, DOMAIN str = 1 .. Len(str)
  PROVE  \E after : Written(after, t, str)
<1> DEFINE n == Len(str)
           Largest(s) == CHOOSE x \in s : \A y \in s : x >= y
           Folds(f, k) == f = [s \in SUBSET (1 .. k) |->
                            IF s = {} THEN t ELSE TerminalPutChar(f[s \ {Largest(s)}], str[Largest(s)])]
           D == {k \in Nat : \E f : Folds(f, k)}
<1>1. 0 \in D
  <2> DEFINE h == [s \in SUBSET (1 .. 0) |-> t]
  <2>1. Folds(h, 0)
    <3>1. \A s \in SUBSET (1 .. 0) : s = {}
      OBVIOUS
    <3> HIDE DEF Largest
    <3> QED BY <3>1
  <2> HIDE DEF Folds
  <2> QED BY <2>1
<1>2. ASSUME NEW k \in Nat, k \in D PROVE k + 1 \in D
  <2>1. PICK g : Folds(g, k)
    <3> HIDE DEF Folds
    <3> QED BY <1>2
  <2> DEFINE h == [s \in SUBSET (1 .. k + 1) |->
                     IF k + 1 \in s THEN TerminalPutChar(g[s \ {k + 1}], str[k + 1]) ELSE g[s]]
             Next1(s) == IF s = {} THEN t ELSE TerminalPutChar(h[s \ {Largest(s)}], str[Largest(s)])
  <2>2. ASSUME NEW s \in SUBSET (1 .. k + 1) PROVE h[s] = Next1(s)
    <3>1. CASE k + 1 \in s
      <4>1. Largest(s) = k + 1
        <5>1. \A x \in s : x \in 1 .. k + 1
          OBVIOUS
        <5>2. \A x \in s : (\A y \in s : x >= y) <=> x = k + 1
          BY <3>1, <5>1
        <5> QED BY <3>1, <5>2
      <4>2. s \ {k + 1} \in SUBSET (1 .. k + 1) /\ k + 1 \notin s \ {k + 1} /\ s # {}
        BY <3>1
      <4>3. h[s \ {k + 1}] = g[s \ {k + 1}]
        <5> HIDE DEF Largest
        <5> QED BY <4>2
      <4>4. h[s] = TerminalPutChar(g[s \ {k + 1}], str[k + 1])
        <5> HIDE DEF Largest
        <5> QED BY <3>1
      <4> HIDE DEF h, Largest
      <4> QED BY <4>1, <4>2, <4>3, <4>4
    <3>2. CASE k + 1 \notin s
      <4>1. s \in SUBSET (1 .. k)
        BY <3>2
      <4>2. g[s] = IF s = {} THEN t ELSE TerminalPutChar(g[s \ {Largest(s)}], str[Largest(s)])
        <5> HIDE DEF Largest
        <5> QED BY <2>1, <4>1
      <4>3. /\ s \ {Largest(s)} \in SUBSET (1 .. k + 1)
            /\ k + 1 \notin s \ {Largest(s)}
        <5> HIDE DEF Largest
        <5> QED BY <3>2
      <4>4. h[s] = g[s] /\ h[s \ {Largest(s)}] = g[s \ {Largest(s)}]
        <5> HIDE DEF Largest
        <5> QED BY <3>2, <4>3
      <4> HIDE DEF h, Largest
      <4> QED BY <4>2, <4>4
    <3> QED BY <3>1, <3>2
  <2>3. h = [s \in SUBSET (1 .. k + 1) |-> h[s]]
    OBVIOUS
  <2>4. Folds(h, k + 1)
    <3> HIDE DEF h, Largest
    <3> QED BY <2>2, <2>3
  <2> HIDE DEF Folds
  <2> QED BY <2>4
<1>3. \E f : Folds(f, n)
  <2> HIDE DEF D
  <2>1. n \in D
    BY <1>1, <1>2, Induction
  <2> QED BY <2>1 DEF D
<1> DEFINE f == CHOOSE f : Folds(f, n)
<1>4. Folds(f, n)
  <2> HIDE DEF Folds
  <2> QED BY <1>3
<1>5. TerminalWriteString(t, str) = f[1 .. n]
  BY DEF TerminalWriteString, FoldLeft, MapThenFoldSet, Max
<1> HIDE DEF f
<1> DEFINE after == [i \in 0 .. n |-> f[1 .. i]]
<1>6. after[0] = t
  <2>1. after[0] = f[1 .. 0]
    OBVIOUS
  <2>2. 1 .. 0 = {} /\ {} \in SUBSET (1 .. n)
    OBVIOUS
  <2>3. f[{}] = t
    <3> HIDE DEF Largest
    <3> QED BY <1>4, <2>2
  <2> QED BY <2>1, <2>2, <2>3
<1>7. ASSUME NEW i \in 1 .. n PROVE after[i] = TerminalPutChar(after[i - 1], str[i])
  <2>1. 1 .. i \in SUBSET (1 .. n) /\ 1 .. i # {} /\ (1 .. i) \ {i} = 1 .. i - 1
    <3>1. n \in Nat /\ i \in Nat /\ i >= 1 /\ i <= n
      OBVIOUS
    <3> HIDE DEF n
    <3>2. 1 .. i \subseteq 1 .. n /\ i \in 1 .. i
      BY <3>1
    <3>3. (1 .. i) \ {i} = 1 .. i - 1
      BY <3>1
    <3> QED BY <3>2, <3>3
  <2>2. Largest(1 .. i) = i
    OBVIOUS
  <2>3. f[1 .. i] = TerminalPutChar(f[(1 .. i) \ {i}], str[i])
    <3>1. f[1 .. i] = TerminalPutChar(f[(1 .. i) \ {Largest(1 .. i)}], str[Largest(1 .. i)])
      <4> HIDE DEF Largest
      <4> QED BY <1>4, <2>1
    <3> HIDE DEF Largest
    <3> QED BY <2>2, <3>1
  <2>4. after[i] = f[1 .. i] /\ after[i - 1] = f[1 .. i - 1]
    OBVIOUS
  <2> HIDE DEF after
  <2> QED BY <2>1, <2>3, <2>4
<1>8. after[n] = f[1 .. n]
  OBVIOUS
<1> HIDE DEF after
<1> QED BY <1>5, <1>6, <1>7, <1>8 DEF Written

(* The remainder of a number that is one divisor too large or too small at *)
(* most.                                                                   *)
LEMMA ModOnce ==
  ASSUME NEW m \in Nat \ {0}, NEW n \in Int
  PROVE  /\ n \in 0 .. m - 1 => n % m = n
         /\ n \in m .. 2 * m - 1 => n % m = n - m
         /\ n \in -m .. -1 => n % m = n + m
<1>1. n \in 0 .. m - 1 => n % m = n
  BY SMTT(30)
<1>2. n \in m .. 2 * m - 1 => n % m = n - m
  BY SMTT(30)
<1>3. n \in -m .. -1 => n % m = n + m
  BY SMTT(30)
<1> QED BY <1>1, <1>2, <1>3

-----------------------------------------------------------------------------
\* On a ring of m cells: the place j behind p, and how far k is behind p.
OnRing(m, p) ==
  /\ \A k \in 0 .. m - 1 : (k - p) % m \in 0 .. m - 1
  /\ \A j \in 0 .. m - 1 :
       /\ (p + j) % m \in 0 .. m - 1
       /\ (p + j + 1) % m = IF (p + j) % m = m - 1 THEN 0 ELSE ((p + j) % m) + 1
       /\ \A k \in 0 .. m - 1 : (k - p) % m = j <=> k = (p + j) % m
  /\ p % m = p

(* The cells form a ring: the cell j places behind p, and how far a cell   *)
(* is behind p, are inverse to one another.                                *)
LEMMA RingFacts ==
  ASSUME NEW m \in Nat \ {0}, NEW p \in 0 .. m - 1
  PROVE  OnRing(m, p)
<1>1. ASSUME NEW k \in 0 .. m - 1 PROVE (k - p) % m = IF k >= p THEN k - p ELSE k - p + m
  <2> DEFINE d == k - p
  <2>1. d \in Int /\ (k >= p => d \in 0 .. m - 1) /\ (~(k >= p) => d \in -m .. -1)
    OBVIOUS
  <2>2. d % m = IF k >= p THEN d ELSE d + m
    <3> HIDE DEF d
    <3> QED BY <2>1, ModOnce
  <2> QED BY <2>2
<1>2. ASSUME NEW j \in 0 .. m PROVE (p + j) % m = IF p + j < m THEN p + j ELSE p + j - m
  <2> DEFINE d == p + j
  <2>1. d \in Int /\ (d < m => d \in 0 .. m - 1) /\ (~(d < m) => d \in m .. 2 * m - 1)
    OBVIOUS
  <2>2. d % m = IF d < m THEN d ELSE d - m
    <3> HIDE DEF d
    <3> QED BY <2>1, ModOnce
  <2> QED BY <2>2
<1>3. ASSUME NEW k \in 0 .. m - 1 PROVE (k - p) % m \in 0 .. m - 1
  BY <1>1
<1>4. ASSUME NEW j \in 0 .. m - 1
      PROVE  /\ (p + j) % m \in 0 .. m - 1
             /\ (p + j + 1) % m = IF (p + j) % m = m - 1 THEN 0 ELSE ((p + j) % m) + 1
             /\ \A k \in 0 .. m - 1 : (k - p) % m = j <=> k = (p + j) % m
  <2>1. (p + j) % m = IF p + j < m THEN p + j ELSE p + j - m
    BY <1>2
  <2>2. (p + j + 1) % m = IF p + j + 1 < m THEN p + j + 1 ELSE p + j + 1 - m
    <3>1. j + 1 \in 0 .. m /\ p + (j + 1) = p + j + 1
      OBVIOUS
    <3> QED BY <1>2, <3>1
  <2>3. \A k \in 0 .. m - 1 : (k - p) % m = j <=> k = (p + j) % m
    BY <1>1, <2>1
  <2> QED BY <2>1, <2>2, <2>3
<1>5. p % m = p
  BY ModOnce
<1> QED BY <1>3, <1>4, <1>5 DEF OnRing

Offset(k, t) == (k - Position(t)) % (LastCell + 1)

\* The console u after i characters of str have been written to the console t.
LaidOut(u, i, t, str) ==
  /\ Position(u) = (Position(t) + i) % (LastCell + 1)
  /\ \A k \in Cells :
       u.cell[k] = IF Offset(k, t) < i THEN str[Offset(k, t) + 1] ELSE t.cell[k]

(* One more character of a string lays out one more cell behind the first. *)
LEMMA OneMore ==
  ASSUME NEW X, NEW t \in Console(X), NEW str, NEW i \in 1 .. LastCell,
         NEW u \in Console(X), LaidOut(u, i - 1, t, str),
         str[i] \in X, str[i] # Newline
  PROVE  /\ TerminalPutChar(u, str[i]) \in Console(X)
         /\ LaidOut(TerminalPutChar(u, str[i]), i, t, str)
<1> DEFINE m == LastCell + 1
           P == Position(t)
           Q == Position(u)
           v == TerminalPutChar(u, str[i])
           j == i - 1
<1>1. m \in Nat \ {0} /\ P \in 0 .. m - 1 /\ j \in 0 .. m - 1 /\ j + 1 = i /\ Cells = 0 .. m - 1
  <2>1. P \in Cells
    BY Updated
  <2> QED BY <2>1, ScreenSize DEF Sized, Cells
<1>2. /\ v \in Console(X)
      /\ v.cell = [u.cell EXCEPT ![Q] = str[i]]
      /\ Position(v) = IF Q = LastCell THEN 0 ELSE Q + 1
      /\ Q \in Cells
  BY Printed
<1>3. Q = (P + j) % m /\ \A k \in Cells : u.cell[k] = IF Offset(k, t) < j THEN str[Offset(k, t) + 1] ELSE t.cell[k]
  BY DEF LaidOut
<1>4. /\ (P + j + 1) % m = IF (P + j) % m = m - 1 THEN 0 ELSE ((P + j) % m) + 1
      /\ \A k \in 0 .. m - 1 : (k - P) % m \in 0 .. m - 1 /\ ((k - P) % m = j <=> k = (P + j) % m)
  <2> HIDE DEF m, P, j
  <2>1. /\ \A k \in 0 .. m - 1 : (k - P) % m \in 0 .. m - 1
        /\ \A h \in 0 .. m - 1 :
             /\ (P + h + 1) % m = IF (P + h) % m = m - 1 THEN 0 ELSE ((P + h) % m) + 1
             /\ \A k \in 0 .. m - 1 : (k - P) % m = h <=> k = (P + h) % m
    <3>1. OnRing(m, P)
      BY <1>1, RingFacts
    <3> QED BY <3>1 DEF OnRing
  <2> QED BY <1>1, <2>1
<1>5. \A k \in Cells : Offset(k, t) = (k - P) % m
  BY DEF Offset
<1>6. LastCell = m - 1 /\ LastCell \in Nat
  BY ScreenSize DEF Sized
<1> HIDE DEF m, P, Q, v, j
<1>7. Position(v) = (P + i) % m
  <2>1. P + i = P + j + 1 /\ P \in Int
    BY <1>1
  <2> QED BY <1>2, <1>3, <1>4, <1>6, <2>1
<1>8. ASSUME NEW k \in Cells
      PROVE  v.cell[k] = IF Offset(k, t) < i THEN str[Offset(k, t) + 1] ELSE t.cell[k]
  <2> DEFINE o == Offset(k, t)
  <2>1. o \in 0 .. m - 1 /\ (o = j <=> k = Q)
    BY <1>1, <1>3, <1>4, <1>5
  <2>2. DOMAIN u.cell = Cells
    BY DEF Console
  <2>3. v.cell[k] = IF k = Q THEN str[i] ELSE u.cell[k]
    BY <1>2, <2>2
  <2>4. u.cell[k] = IF o < j THEN str[o + 1] ELSE t.cell[k]
    BY <1>3
  <2> HIDE DEF o
  <2>5. v.cell[k] = IF o < i THEN str[o + 1] ELSE t.cell[k]
    BY <1>1, <2>1, <2>3, <2>4
  <2> QED BY <2>5 DEF o
<1> QED BY <1>2, <1>7, <1>8 DEF LaidOut, v, P, m

(* Whatever string is written, the cursor stays on the screen and the      *)
(* hardware lags behind only at the start of a row.                        *)
LEMMA WritingKeeps ==
  ASSUME NEW X, NEW t \in Console(X), Fresh(t), NEW str \in Seq(X \cup {Newline})
  PROVE  TerminalWriteString(t, str) \in Console(X) /\ Fresh(TerminalWriteString(t, str))
<1> DEFINE n == Len(str)
<1>1. n \in Nat /\ DOMAIN str = 1 .. n /\ \A i \in 1 .. n : str[i] \in X \cup {Newline}
  OBVIOUS
<1>2. PICK after : Written(after, t, str)
  BY <1>1, WritesOneByOne
<1> DEFINE D == {i \in 0 .. n : after[i] \in Console(X) /\ Fresh(after[i])}
<1>3. 0 \in D
  BY <1>1, <1>2 DEF Written
<1>4. ASSUME NEW i \in 1 .. n, i - 1 \in D PROVE i \in D
  <2>1. after[i] = TerminalPutChar(after[i - 1], str[i])
    BY <1>2 DEF Written
  <2>2. after[i - 1] \in Console(X) /\ str[i] \in X \cup {Newline}
    BY <1>1, <1>4
  <2>3. TerminalPutChar(after[i - 1], str[i]) \in Console(X) /\ Fresh(TerminalPutChar(after[i - 1], str[i]))
    BY <2>2, PutCharKeeps
  <2> QED BY <1>1, <2>1, <2>3
<1> HIDE DEF n, D
<1>5. n \in D
  BY <1>1, <1>3, <1>4, Throughout
<1> QED BY <1>2, <1>5 DEF Written, D, n

(* A string without newlines that is shorter than the screen lies in the   *)
(* cells from the cursor on, around the end of the screen, and every other *)
(* cell is as it was.                                                      *)
LEMMA WritingIsLinear ==
  ASSUME NEW X, NEW t \in Console(X), NEW str \in Seq(X),
         Newline \notin ToSet(str), Len(str) <= LastCell
  PROVE  LaidOut(TerminalWriteString(t, str), Len(str), t, str)
<1> DEFINE n == Len(str)
<1>1. n \in Nat /\ DOMAIN str = 1 .. n /\ \A i \in 1 .. n : str[i] \in X /\ str[i] # Newline
  BY DEF ToSet
<1>2. PICK after : Written(after, t, str)
  BY <1>1, WritesOneByOne
<1> DEFINE D == {i \in 0 .. n : after[i] \in Console(X) /\ LaidOut(after[i], i, t, str)}
<1>3. 0 \in D
  <2>1. after[0] = t
    BY <1>2 DEF Written
  <2>2. LaidOut(t, 0, t, str)
    <3> DEFINE m == LastCell + 1
               P == Position(t)
    <3>1. m \in Nat \ {0} /\ P \in 0 .. m - 1 /\ Cells = 0 .. m - 1
      <4>1. P \in Cells
        BY Updated
      <4> QED BY <4>1, ScreenSize DEF Sized, Cells
    <3>2. P % m = P /\ \A k \in 0 .. m - 1 : (k - P) % m \in 0 .. m - 1
      <4> HIDE DEF m, P
      <4>1. OnRing(m, P)
        BY <3>1, RingFacts
      <4> QED BY <4>1 DEF OnRing
    <3>3. P + 0 = P
      BY <3>1
    <3>4. \A k \in Cells : ~(Offset(k, t) < 0)
      BY <3>1, <3>2 DEF Offset
    <3> QED BY <3>2, <3>3, <3>4 DEF LaidOut
  <2> QED BY <1>1, <2>1, <2>2
<1>4. ASSUME NEW i \in 1 .. n, i - 1 \in D PROVE i \in D
  <2>1. after[i] = TerminalPutChar(after[i - 1], str[i])
    BY <1>2 DEF Written
  <2>2. /\ after[i - 1] \in Console(X) /\ LaidOut(after[i - 1], i - 1, t, str)
        /\ str[i] \in X /\ str[i] # Newline
    BY <1>1, <1>4
  <2>3. i \in 1 .. LastCell
    BY <1>1, ScreenSize DEF Sized
  <2>4. after[i] \in Console(X) /\ LaidOut(after[i], i, t, str)
    BY <2>1, <2>2, <2>3, OneMore
  <2> QED BY <1>1, <2>4
<1>5. n \in D
  <2> HIDE DEF n, D
  <2> QED BY <1>1, <1>3, <1>4, Throughout
<1> QED BY <1>2, <1>5 DEF Written

-----------------------------------------------------------------------------
(* terminal_move_cursor_left writes nothing and moves by one cell, also    *)
(* from the start of a row to the end of the one above.                    *)
LEMMA OneStepLeft ==
  ASSUME NEW X, NEW t \in Console(X), Fresh(t)
  PROVE  LET u == TerminalMoveCursorLeft(t) IN
         /\ u \in Console(X) /\ Fresh(u) /\ u.cell = t.cell
         /\ Position(t) \in Cells
         /\ Position(t) > 0 => Position(u) = Position(t) - 1
<1> DEFINE u == TerminalMoveCursorLeft(t)
<1>1. t.row \in Rows /\ t.col \in Cols /\ Position(t) \in Cells
  BY Updated DEF Console
<1>2. u \in Console(X) /\ Fresh(u)
  BY CursorMovesKeep
<1>3. Position(t) = t.row * Width + t.col /\ t.row * Width \in Nat
  BY <1>1, CellOf DEF Position
<1>4. CASE t.col > 0
  <2>1. u = UpdateCursor([t EXCEPT !.col = t.col - 1])
    BY <1>4 DEF TerminalMoveCursorLeft
  <2>2. u.row = t.row /\ u.col = t.col - 1 /\ u.cell = t.cell
    BY <2>1 DEF UpdateCursor, Console
  <2>3. u.col \in Cols
    BY <1>2 DEF Console
  <2>4. Position(u) = t.row * Width + u.col
    BY <1>1, <2>2, <2>3, CellOf DEF Position
  <2>5. Position(u) = Position(t) - 1
    BY <1>1, <1>3, <2>2, <2>4 DEF Cols
  <2> QED BY <1>1, <1>2, <2>2, <2>5
<1>5. CASE ~(t.col > 0) /\ t.row > 0
  <2>1. u = UpdateCursor([t EXCEPT !.row = t.row - 1, !.col = Width - 1])
    BY <1>5 DEF TerminalMoveCursorLeft
  <2>2. u.row = t.row - 1 /\ u.col = Width - 1 /\ u.cell = t.cell
    BY <2>1 DEF UpdateCursor, Console
  <2>3. u.row \in Rows /\ u.col \in Cols /\ 0 \in Cols
    BY <1>2, ScreenSize DEF Console, Sized
  <2> DEFINE r == u.row
             a == r * Width
  <2>4. Position(u) = a + u.col /\ a \in Nat /\ At(r + 1, 0) = a + Width
    <3> HIDE DEF r
    <3>1. At(r, u.col) = r * Width + u.col /\ At(r + 1, 0) = r * Width + Width /\ r * Width \in Nat
      BY <2>3, CellOf DEF r
    <3> QED BY <3>1 DEF Position, r
  <2>5. r + 1 = t.row /\ t.col = 0
    BY <1>1, <1>5, <2>2 DEF Rows, Cols
  <2>6. At(r + 1, 0) = Position(t)
    BY <2>5 DEF Position
  <2> HIDE DEF r, a
  <2>7. Position(u) = Position(t) - 1
    BY <2>2, <2>4, <2>6, SizeAssumption
  <2> QED BY <1>1, <1>2, <2>2, <2>7
<1>6. CASE ~(t.col > 0) /\ ~(t.row > 0)
  <2>1. u = t
    BY <1>6 DEF TerminalMoveCursorLeft
  <2>2. t.row = 0 /\ t.col = 0
    BY <1>1, <1>6 DEF Rows, Cols
  <2>3. Position(t) = 0
    BY <2>2, <1>1, CellOf DEF Position
  <2> QED BY <1>1, <1>2, <2>1, <2>3
<1> QED BY <1>4, <1>5, <1>6

(* terminal_move_cursor_right writes nothing and moves by one cell, also   *)
(* from the end of a row to the start of the one below.                    *)
LEMMA OneStepRight ==
  ASSUME NEW X, NEW t \in Console(X), Fresh(t)
  PROVE  LET u == TerminalMoveCursorRight(t) IN
         /\ u \in Console(X) /\ Fresh(u) /\ u.cell = t.cell
         /\ Position(t) \in Cells
         /\ Position(t) < LastCell => Position(u) = Position(t) + 1
<1> DEFINE u == TerminalMoveCursorRight(t)
<1>1. t.row \in Rows /\ t.col \in Cols /\ Position(t) \in Cells
  BY Updated DEF Console
<1>2. u \in Console(X) /\ Fresh(u)
  BY CursorMovesKeep
<1>3. /\ Position(t) = t.row * Width + t.col /\ t.row * Width \in Nat
      /\ At(t.row + 1, 0) = t.row * Width + Width
      /\ Position(t) = LastCell <=> t.row + 1 = Height /\ t.col + 1 = Width
  BY <1>1, CellOf DEF Position
<1>4. CASE t.col < Width - 1
  <2>1. u = UpdateCursor([t EXCEPT !.col = t.col + 1])
    BY <1>4 DEF TerminalMoveCursorRight
  <2>2. u.row = t.row /\ u.col = t.col + 1 /\ u.cell = t.cell
    BY <2>1 DEF UpdateCursor, Console
  <2>3. u.col \in Cols
    BY <1>2 DEF Console
  <2>4. Position(u) = t.row * Width + u.col
    BY <1>1, <2>2, <2>3, CellOf DEF Position
  <2>5. Position(u) = Position(t) + 1
    BY <1>1, <1>3, <2>2, <2>4 DEF Cols
  <2> QED BY <1>1, <1>2, <2>2, <2>5
<1>5. CASE ~(t.col < Width - 1) /\ t.row < Height - 1
  <2>1. u = UpdateCursor([t EXCEPT !.row = t.row + 1, !.col = 0])
    BY <1>5 DEF TerminalMoveCursorRight
  <2>2. u.row = t.row + 1 /\ u.col = 0 /\ u.cell = t.cell
    BY <2>1 DEF UpdateCursor, Console
  <2>3. Position(u) = At(t.row + 1, 0)
    BY <2>2 DEF Position
  <2>4. Position(u) = Position(t) + 1
    BY <1>1, <1>3, <1>5, <2>3, SizeAssumption DEF Cols
  <2> QED BY <1>1, <1>2, <2>2, <2>4
<1>6. CASE ~(t.col < Width - 1) /\ ~(t.row < Height - 1)
  <2>1. u = t
    BY <1>6 DEF TerminalMoveCursorRight
  <2>2. t.row + 1 = Height /\ t.col + 1 = Width
    BY <1>1, <1>6, SizeAssumption DEF Rows, Cols
  <2>3. Position(t) = LastCell
    BY <2>2, <1>3
  <2> QED BY <1>1, <1>2, <2>1, <2>3, ScreenSize DEF Sized
<1> QED BY <1>4, <1>5, <1>6

(* terminal_delete_char: the rest of its row moves left over the cursor,   *)
(* its last cell becomes blank, and no other row changes.                  *)
LEMMA Deleted ==
  ASSUME NEW X, Blank \in X, NEW t \in Console(X), Fresh(t)
  PROVE  LET u == TerminalDeleteChar(t) IN
         /\ u \in Console(X) /\ Fresh(u) /\ Position(u) = Position(t)
         /\ t.row * Width \in Nat
         /\ Position(t) \in t.row * Width .. t.row * Width + Width - 1
         /\ t.row * Width + Width - 1 <= LastCell
         /\ \A k \in Cells :
              u.cell[k] = IF k >= Position(t) /\ k <= t.row * Width + Width - 2
                            THEN t.cell[k + 1]
                            ELSE IF k = t.row * Width + Width - 1 THEN Blank ELSE t.cell[k]
<1> DEFINE u == TerminalDeleteChar(t)
           a == t.row * Width
           P == Position(t)
           cells == [k \in Cells |-> CASE k \in P .. At(t.row, Width - 2) -> t.cell[k + 1]
                                       [] k = At(t.row, Width - 1) -> Blank
                                       [] OTHER -> t.cell[k]]
<1>1. t.row \in Rows /\ t.col \in Cols /\ P \in Cells
  BY Updated DEF Console
<1>2. u \in Console(X) /\ Fresh(u)
  BY ClearsKeep
<1>3. a \in Nat /\ P = a + t.col
  BY <1>1, CellOf DEF Position
<1>4. At(t.row, Width - 2) = a + Width - 2 /\ At(t.row, Width - 1) = a + Width - 1
      /\ a + Width - 1 <= LastCell
  <2> DEFINE c == Width - 2
             d == Width - 1
  <2>1. c \in Cols /\ d \in Cols
    BY SizeAssumption DEF Cols
  <2>2. At(t.row, c) = a + c /\ At(t.row, d) = a + d /\ At(t.row, d) \in Cells
    <3> HIDE DEF c, d
    <3> QED BY <1>1, <2>1, CellOf
  <2>3. LastCell \in Nat
    BY ScreenSize DEF Sized
  <2> HIDE DEF a
  <2> QED BY <1>3, <2>2, <2>3, SizeAssumption DEF Cells
<1>5. u = [t EXCEPT !.cell = cells]
  BY DEF TerminalDeleteChar
<1>6. u.cell = cells /\ u.row = t.row /\ u.col = t.col
  <2> HIDE DEF cells
  <2> QED BY <1>5 DEF Console
<1>7. Position(u) = P
  BY <1>6 DEF Position
<1>8. P \in a .. a + Width - 1
  <2> HIDE DEF a, P
  <2> QED BY <1>1, <1>3, SizeAssumption DEF Cols
<1>9. ASSUME NEW k \in Cells
      PROVE  u.cell[k] = IF k >= P /\ k <= a + Width - 2
                           THEN t.cell[k + 1]
                           ELSE IF k = a + Width - 1 THEN Blank ELSE t.cell[k]
  <2>1. k \in P .. At(t.row, Width - 2) <=> k >= P /\ k <= a + Width - 2
    <3> HIDE DEF P, a
    <3> QED BY <1>1, <1>3, <1>4, SizeAssumption DEF Cells, Cols
  <2>2. (k >= P /\ k <= a + Width - 2) => k # a + Width - 1
    <3> HIDE DEF P, a
    <3> QED BY <1>1, <1>3, <1>4, SizeAssumption DEF Cells, Cols
  <2>3. u.cell[k] = CASE k \in P .. At(t.row, Width - 2) -> t.cell[k + 1]
                      [] k = At(t.row, Width - 1) -> Blank
                      [] OTHER -> t.cell[k]
    BY <1>6
  <2> HIDE DEF P, a
  <2>4. CASE k >= P /\ k <= a + Width - 2
    BY <1>4, <2>1, <2>2, <2>3, <2>4
  <2>5. CASE ~(k >= P /\ k <= a + Width - 2) /\ k = a + Width - 1
    BY <1>4, <2>1, <2>2, <2>3, <2>5
  <2>6. CASE ~(k >= P /\ k <= a + Width - 2) /\ k # a + Width - 1
    BY <1>4, <2>1, <2>3, <2>6
  <2> QED BY <2>4, <2>5, <2>6
<1> QED BY <1>2, <1>3, <1>4, <1>7, <1>8, <1>9
=============================================================================
