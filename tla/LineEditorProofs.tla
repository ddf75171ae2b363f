-------------------------- MODULE LineEditorProofs --------------------------
(***************************************************************************)
(* Proofs, for a buffer and a screen of any size and any keys: the line    *)
(* editor's cursor stays in its text; it leaves its array only when the    *)
(* array holds no NUL any more; the screen shows the text as long as the   *)
(* console follows the keys; and the array with its shifts implements an   *)
(* editable line.                                                          *)
(***************************************************************************)
EXTENDS LineEditor, TerminalOpsProofs, SequenceTheorems, TLAPS

(* The part of the state the argument is about: nothing of the console.    *)
BufferOK ==
  /\ buffer \in [Indices -> Chars \cup {Nul}]
  /\ pos \in 0 .. BufSize
  /\ wild \in BOOLEAN

IInv == BufferOK /\ CursorInText /\ WildOnlyWhenFull

-----------------------------------------------------------------------------
(* The array is empty at first.                                            *)
LEMMA InitIInv == Init => IInv
<1> SUFFICES ASSUME Init PROVE IInv
  OBVIOUS
<1>1. buffer \in [Indices -> Chars \cup {Nul}] /\ pos \in 0 .. BufSize
  BY EditorAssumption DEF Init
<1>2. wild = FALSE
  BY DEF Init
<1>3. CursorInText
  BY DEF Init, CursorInText, Indices
<1> QED
  BY <1>1, <1>2, <1>3 DEF IInv, BufferOK, WildOnlyWhenFull

(* The cursor keys move inside the text.                                   *)
LEMMA CursorKeysIInv ==
  ASSUME IInv, ~wild, KeyLeft \/ KeyRight \/ KeyHome \/ KeyEnd
  PROVE  IInv'
<1> USE EditorAssumption DEF IInv, Indices
<1>1. UNCHANGED <<buffer, wild>>
  BY DEF KeyLeft, KeyRight, KeyHome, KeyEnd
<1>0. /\ KeyLeft => pos > 0 /\ pos' = pos - 1
      /\ KeyHome => pos' = 0
      /\ KeyRight => pos \in Indices /\ buffer[pos] # Nul /\ pos' = pos + 1
  BY Zenon DEF KeyLeft, KeyHome, KeyRight
<1>2. BufferOK'
  <2>1. CASE KeyLeft \/ KeyHome \/ KeyRight
    <3>1. pos' \in 0 .. BufSize
      BY <2>1, <1>0 DEF BufferOK
    <3> QED
      BY <1>1, <3>1 DEF BufferOK
  <2>2. CASE KeyEnd
    <3>1. pos' \in 0 .. BufSize
      BY <2>2 DEF KeyEnd, FirstNul, BufferOK
    <3> QED
      BY <1>1, <3>1 DEF BufferOK
  <2> QED
    BY <2>1, <2>2
<1>3. CursorInText'
  <2>1. CASE KeyLeft \/ KeyHome
    <3>1. pos \in Nat /\ pos' \in Nat /\ pos' <= pos
      BY <2>1, <1>0 DEF BufferOK
    <3> QED
      BY <1>1, <3>1 DEF CursorInText
  <2>2. CASE KeyRight
    BY <1>0, <1>1, <2>2 DEF CursorInText, BufferOK
  <2>3. CASE KeyEnd
    <3>1. PICK e \in FirstNul(pos) : pos' = e
      BY <2>3 DEF KeyEnd
    <3>2. \A i \in Indices : i < e => buffer[i] # Nul
      BY DEF FirstNul, CursorInText, BufferOK
    <3> QED
      BY <1>1, <3>1, <3>2 DEF CursorInText
  <2> QED
    BY <2>1, <2>2, <2>3
<1> QED
  BY <1>1, <1>2, <1>3 DEF WildOnlyWhenFull

(* Shifting left from index from changes nothing in front of it.           *)
LEMMA ShiftedLeftFacts ==
  ASSUME BufferOK, NEW from \in 0 .. BufSize, NEW e \in FirstNul(from)
  PROVE  /\ ShiftedLeft(from, e) \in [Indices -> Chars \cup {Nul}]
         /\ \A i \in Indices : i < from => ShiftedLeft(from, e)[i] = buffer[i]
<1> QED
  BY EditorAssumption DEF BufferOK, ShiftedLeft, FirstNul, Indices

(* So does shifting right.                                                 *)
LEMMA ShiftedRightFacts ==
  ASSUME BufferOK, NEW from \in 0 .. BufSize
  PROVE  /\ ShiftedRight(from) \in [Indices -> Chars \cup {Nul}]
         /\ \A i \in Indices : i < from => ShiftedRight(from)[i] = buffer[i]
<1> QED
  BY EditorAssumption DEF BufferOK, ShiftedRight, Indices

(* The editing keys keep the cursor in the text they change.               *)
LEMMA EditingKeysIInv ==
  ASSUME IInv, ~wild, KeyDelete \/ KeyBackspace \/ KeyEnter
  PROVE  IInv'
<1> USE EditorAssumption DEF IInv
<1>1. UNCHANGED wild /\ pos' \in 0 .. BufSize /\ pos' <= pos
  BY DEF KeyDelete, KeyBackspace, KeyEnter, BufferOK
<1>2. /\ buffer' \in [Indices -> Chars \cup {Nul}]
      /\ \A i \in Indices : i < pos' => buffer'[i] = buffer[i]
  <2>1. CASE KeyDelete
    BY <2>1, ShiftedLeftFacts DEF KeyDelete, BufferOK
  <2>2. CASE KeyBackspace
    <3>1. pos - 1 \in 0 .. BufSize /\ pos' = pos - 1
      BY <2>2 DEF KeyBackspace, BufferOK
    <3> QED
      BY <2>2, <3>1, ShiftedLeftFacts DEF KeyBackspace
  <2>3. CASE KeyEnter
    BY <2>3 DEF KeyEnter, BufferOK, Indices
  <2> QED
    BY <2>1, <2>2, <2>3
<1>3. CursorInText'
  BY <1>1, <1>2 DEF CursorInText, BufferOK, Indices
<1> QED
  BY <1>1, <1>2, <1>3 DEF BufferOK, WildOnlyWhenFull

(* A typed character stands in front of the cursor.                        *)
LEMMA KeyCharIInv ==
  ASSUME IInv, ~wild, NEW c \in Chars, KeyChar(c)
  PROVE  IInv'
<1> USE EditorAssumption DEF IInv
<1>1. /\ pos \in Indices /\ pos' = pos + 1 /\ pos' \in 0 .. BufSize /\ UNCHANGED wild
      /\ buffer' = [ShiftedRight(pos) EXCEPT ![pos] = c]
  BY DEF KeyChar, HasRoom, BufferOK, Indices
<1>2. /\ buffer' \in [Indices -> Chars \cup {Nul}]
      /\ buffer'[pos] = c
      /\ \A i \in Indices : i < pos => buffer'[i] = buffer[i]
  BY <1>1, ShiftedRightFacts DEF BufferOK, Indices
<1>3. CursorInText'
  BY <1>1, <1>2 DEF CursorInText, Indices
<1> QED
  BY <1>1, <1>2, <1>3 DEF BufferOK, WildOnlyWhenFull

(* A loop runs wild when no NUL is at or behind the cursor, and none is in *)
(* front of it.                                                            *)
LEMMA RunsWildIInv == IInv /\ RunsWild => IInv'
<1> QED
  BY EditorAssumption
     DEF IInv, RunsWild, NoNulFrom, BufferOK, CursorInText, WildOnlyWhenFull, Indices

(* Every key keeps the cursor in the text.                                 *)
LEMMA NextIInv == IInv /\ [Next]_vars => IInv'
<1> SUFFICES ASSUME IInv, [Next]_vars PROVE IInv'
  OBVIOUS
<1>1. CASE UNCHANGED vars
  BY <1>1 DEF vars, IInv, BufferOK, CursorInText, WildOnlyWhenFull
<1>2. CASE Next
  <2>1. ~wild
    BY <1>2 DEF Next
  <2> QED
    BY <1>1, <1>2, <2>1, CursorKeysIInv, EditingKeysIInv, KeyCharIInv, RunsWildIInv
       DEF Next, KeyIgnored
<1> QED
  BY <1>1, <1>2

(* The editor's invariant holds in every reachable state.                  *)
THEOREM Invariance == Spec => []IInv
<1> QED
  BY InitIInv, NextIInv, PTL DEF Spec

(* The cursor of keyboard.c's editor never passes the end of its text,     *)
(* whatever keys are pressed.                                              *)
THEOREM CursorInTextAlways == Spec => []CursorInText
<1>1. IInv => CursorInText
  BY DEF IInv
<1> QED
  BY <1>1, Invariance, PTL

(* The loops of keyboard.c that run to a NUL leave the array only when the *)
(* last NUL of the array has been lost.                                    *)
THEOREM WildOnlyWhenFullAlways == Spec => []WildOnlyWhenFull
<1>1. IInv => WildOnlyWhenFull
  BY DEF IInv
<1> QED
  BY <1>1, Invariance, PTL

-----------------------------------------------------------------------------
(* Home moves the console's cursor left once for each character, and by as *)
(* many cells, unless it meets the first one.                              *)
LEMMA RepeatedLeft ==
  ASSUME NEW X, NEW t \in Console(X), Fresh(t), NEW n \in Nat
  PROVE  LET u == Repeat(TerminalMoveCursorLeft, n, t) IN
         /\ u \in Console(X) /\ Fresh(u) /\ u.cell = t.cell
         /\ n <= Position(t) => Position(u) = Position(t) - n
<1> DEFINE S == {u \in Console(X) : Fresh(u)}
           P == Position(t)
           move == [i \in Nat |-> [u \in S |-> TerminalMoveCursorLeft(u)]]
           Times(f) == f = [i \in 0 .. n |-> IF i = 0 THEN t ELSE TerminalMoveCursorLeft(f[i - 1])]
           f == CHOOSE f : Times(f)
<1>1. \E g : Times(g)
  <2>1. \A u \in S : TerminalMoveCursorLeft(u) \in S
    <3> TAKE u \in S
    <3> QED BY CursorMovesKeep
  <2>2. Steps(move, S)
    BY <2>1 DEF Steps
  <2> HIDE DEF move, S
  <2>6. t \in S
    BY DEF S
  <2>3. PICK g : Iterates(g, S, t, move, n)
    BY <2>2, <2>6, Recursion
  <2>4. ASSUME NEW i \in 1 .. n PROVE g[i] = TerminalMoveCursorLeft(g[i - 1])
    <3>1. g[i] = move[i][g[i - 1]] /\ g[i - 1] \in S
      BY <2>3 DEF Iterates
    <3> QED BY <3>1 DEF move
  <2>5. g = [i \in 0 .. n |-> g[i]] /\ g[0] = t
    BY <2>3 DEF Iterates
  <2> QED BY <2>4, <2>5
<1>2. Times(f)
  <2> HIDE DEF Times
  <2> QED BY <1>1
<1>3. Repeat(TerminalMoveCursorLeft, n, t) = f[n]
  BY DEF Repeat
<1> HIDE DEF f
<1>4. f[0] = t /\ \A i \in 1 .. n : f[i] = TerminalMoveCursorLeft(f[i - 1])
  BY <1>2
<1> DEFINE Moved(i) == /\ f[i] \in Console(X) /\ Fresh(f[i]) /\ f[i].cell = t.cell
                       /\ i <= P => Position(f[i]) = P - i
           D == {i \in 0 .. n : Moved(i)}
<1>5. P \in Cells /\ LastCell \in Nat
  BY Updated, ScreenSize DEF Sized
<1>6. Moved(0)
  BY <1>4, <1>5 DEF Cells
<1>7. ASSUME NEW i \in 1 .. n, Moved(i - 1) PROVE Moved(i)
  <2> DEFINE w == f[i - 1]
             j == i - 1
  <2>1. /\ w \in Console(X) /\ Fresh(w) /\ w.cell = t.cell
        /\ j <= P => Position(w) = P - j
    BY <1>7
  <2>2. f[i] = TerminalMoveCursorLeft(w)
    BY <1>4
  <2>3. i = j + 1 /\ j \in Nat
    OBVIOUS
  <2> HIDE DEF w, j
  <2>4. /\ f[i] \in Console(X) /\ Fresh(f[i]) /\ f[i].cell = w.cell
        /\ Position(w) > 0 => Position(f[i]) = Position(w) - 1
    BY <2>1, <2>2, OneStepLeft
  <2>5. i <= P => Position(f[i]) = P - i
    <3> HIDE DEF P
    <3> QED BY <1>5, <2>1, <2>3, <2>4 DEF Cells
  <2> QED BY <2>1, <2>4, <2>5
<1>8. Moved(n)
  <2> HIDE DEF Moved
  <2>1. 0 \in D /\ \A i \in 1 .. n : i - 1 \in D => i \in D
    BY <1>6, <1>7
  <2> HIDE DEF D
  <2>2. n \in D
    BY <2>1, Throughout
  <2> QED BY <2>2 DEF D
<1> QED BY <1>3, <1>8

(* End moves it right, by as many cells, unless it meets the last one.     *)
LEMMA RepeatedRight ==
  ASSUME NEW X, NEW t \in Console(X), Fresh(t), NEW n \in Nat
  PROVE  LET u == Repeat(TerminalMoveCursorRight, n, t) IN
         /\ u \in Console(X) /\ Fresh(u) /\ u.cell = t.cell
         /\ Position(t) + n <= LastCell => Position(u) = Position(t) + n
<1> DEFINE S == {u \in Console(X) : Fresh(u)}
           P == Position(t)
           move == [i \in Nat |-> [u \in S |-> TerminalMoveCursorRight(u)]]
           Times(f) == f = [i \in 0 .. n |-> IF i = 0 THEN t ELSE TerminalMoveCursorRight(f[i - 1])]
           f == CHOOSE f : Times(f)
<1>1. \E g : Times(g)
  <2>1. \A u \in S : TerminalMoveCursorRight(u) \in S
    <3> TAKE u \in S
    <3> QED BY CursorMovesKeep
  <2>2. Steps(move, S)
    BY <2>1 DEF Steps
  <2> HIDE DEF move, S
  <2>6. t \in S
    BY DEF S
  <2>3. PICK g : Iterates(g, S, t, move, n)
    BY <2>2, <2>6, Recursion
  <2>4. ASSUME NEW i \in 1 .. n PROVE g[i] = TerminalMoveCursorRight(g[i - 1])
    <3>1. g[i] = move[i][g[i - 1]] /\ g[i - 1] \in S
      BY <2>3 DEF Iterates
    <3> QED BY <3>1 DEF move
  <2>5. g = [i \in 0 .. n |-> g[i]] /\ g[0] = t
    BY <2>3 DEF Iterates
  <2> QED BY <2>4, <2>5
<1>2. Times(f)
  <2> HIDE DEF Times
  <2> QED BY <1>1
<1>3. Repeat(TerminalMoveCursorRight, n, t) = f[n]
  BY DEF Repeat
<1> HIDE DEF f
<1>4. f[0] = t /\ \A i \in 1 .. n : f[i] = TerminalMoveCursorRight(f[i - 1])
  BY <1>2
<1> DEFINE Moved(i) == /\ f[i] \in Console(X) /\ Fresh(f[i]) /\ f[i].cell = t.cell
                       /\ P + i <= LastCell => Position(f[i]) = P + i
           D == {i \in 0 .. n : Moved(i)}
<1>5. P \in Cells /\ LastCell \in Nat
  BY Updated, ScreenSize DEF Sized
<1>6. Moved(0)
  BY <1>4, <1>5 DEF Cells
<1>7. ASSUME NEW i \in 1 .. n, Moved(i - 1) PROVE Moved(i)
  <2> DEFINE w == f[i - 1]
             j == i - 1
  <2>1. /\ w \in Console(X) /\ Fresh(w) /\ w.cell = t.cell
        /\ P + j <= LastCell => Position(w) = P + j
    BY <1>7
  <2>2. f[i] = TerminalMoveCursorRight(w)
    BY <1>4
  <2>3. i = j + 1 /\ j \in Nat
    OBVIOUS
  <2> HIDE DEF w, j
  <2>4. /\ f[i] \in Console(X) /\ Fresh(f[i]) /\ f[i].cell = w.cell
        /\ Position(w) < LastCell => Position(f[i]) = Position(w) + 1
    BY <2>1, <2>2, OneStepRight
  <2>5. P + i <= LastCell => Position(f[i]) = P + i
    <3> HIDE DEF P
    <3> QED BY <1>5, <2>1, <2>3, <2>4 DEF Cells
  <2> QED BY <2>1, <2>4, <2>5
<1>8. Moved(n)
  <2> HIDE DEF Moved
  <2>1. 0 \in D /\ \A i \in 1 .. n : i - 1 \in D => i \in D
    BY <1>6, <1>7
  <2> HIDE DEF D
  <2>2. n \in D
    BY <2>1, Throughout
  <2> QED BY <2>2 DEF D
<1> QED BY <1>3, <1>8

-----------------------------------------------------------------------------
(* The text of the bytes b ends at e: at its first NUL, or with the array. *)
TextEnd(b, e) ==
  /\ e \in 0 .. BufSize
  /\ \A k \in Indices : k < e => b[k] # Nul
  /\ e < BufSize => b[e] = Nul

(* TextLen, of any bytes.                                                  *)
LenOf(b) ==
  IF \A k \in 0 .. BufSize - 1 : b[k] # Nul
    THEN BufSize
    ELSE CHOOSE e \in {e \in 0 .. BufSize - 1 : b[e] = Nul /\ \A k \in 0 .. e - 1 : b[k] # Nul} : TRUE

(* The text of an array ends in one place only.                            *)
LEMMA TextEndsOnce ==
  ASSUME NEW b, NEW d, NEW e, TextEnd(b, d), TextEnd(b, e)
  PROVE  d = e
<1> QED BY EditorAssumption DEF TextEnd, Indices

(* It ends somewhere: at the least index that holds a NUL, or with the     *)
(* array.                                                                  *)
LEMMA TextHasEnd ==
  ASSUME NEW b
  PROVE  TextEnd(b, LenOf(b))
<1>1. CASE \A k \in 0 .. BufSize - 1 : b[k] # Nul
  BY <1>1, EditorAssumption DEF LenOf, TextEnd, Indices
<1>2. CASE ~ \A k \in 0 .. BufSize - 1 : b[k] # Nul
  <2> DEFINE T == {k \in 0 .. BufSize - 1 : b[k] = Nul}
             E == {e \in 0 .. BufSize - 1 : b[e] = Nul /\ \A k \in 0 .. e - 1 : b[k] # Nul}
  <2>1. T \subseteq Nat /\ T # {}
    BY <1>2
  <2>2. PICK n \in T : \A m \in T : n <= m
    <3> HIDE DEF T
    <3> QED BY <2>1, LeastNat
  <2>3. n \in E
    BY <2>2, EditorAssumption
  <2>4. LenOf(b) = CHOOSE e \in E : TRUE
    BY <1>2 DEF LenOf
  <2>5. LenOf(b) \in E
    <3> HIDE DEF E
    <3> QED BY <2>3, <2>4
  <2> QED BY <2>5, EditorAssumption DEF TextEnd, Indices
<1> QED BY <1>1, <1>2

(* TextLen is the end of the text of the buffer, before a step and after   *)
(* it.                                                                     *)
LEMMA TextLenIs == TextLen = LenOf(buffer) /\ TextLen' = LenOf(buffer')
<1> QED BY DEF TextLen, LenOf, NoNulFrom, FirstNul

(* So the text of the buffer ends at TextLen, before a step and after it.  *)
LEMMA TextLenEnds == TextEnd(buffer, TextLen) /\ TextEnd(buffer', TextLen')
<1> QED BY TextLenIs, TextHasEnd

\* Where the first NUL is, looked for from a place inside the text.
LEMMA FirstNulIs ==
  ASSUME IInv, NEW from \in 0 .. BufSize, from <= pos, NEW e \in FirstNul(from)
  PROVE  e = TextLen /\ e < BufSize /\ from <= e /\ e \in Nat
<1>1. TextEnd(buffer, e) /\ e < BufSize /\ from <= e /\ e \in Nat
  BY EditorAssumption DEF FirstNul, TextEnd, Indices, IInv, BufferOK, CursorInText
<1> QED BY <1>1, TextEndsOnce, TextLenEnds

(* The editor's cursor is within the text or at its end.                   *)
LEMMA CursorWithin == ASSUME IInv PROVE pos \in 0 .. TextLen /\ TextLen \in 0 .. BufSize
<1>1. TextEnd(buffer, TextLen)
  BY TextLenEnds
<1> QED BY <1>1, EditorAssumption DEF TextEnd, IInv, BufferOK, CursorInText, Indices

\* Shifting left from an index inside the text shortens it by that byte.
LEMMA Shortened ==
  ASSUME NEW from \in Nat, NEW e \in Nat, TextEnd(buffer, e), from < e, e < BufSize
  PROVE  /\ TextEnd(ShiftedLeft(from, e), e - 1)
         /\ \A k \in 0 .. e - 2 :
              ShiftedLeft(from, e)[k] = IF k < from THEN buffer[k] ELSE buffer[k + 1]
<1> QED BY EditorAssumption DEF TextEnd, ShiftedLeft, Indices

\* A character typed inside the text or at its end lengthens it by a byte,
\* or pushes the last byte out of the array.
LEMMA Lengthened ==
  ASSUME NEW at \in Nat, NEW e \in Nat, TextEnd(buffer, e), at <= e, at < BufSize - 1,
         NEW c \in Chars
  PROVE  LET b == [ShiftedRight(at) EXCEPT ![at] = c] IN
         /\ TextEnd(b, IF e < BufSize THEN e + 1 ELSE BufSize)
         /\ \A k \in Indices : b[k] = IF k < at THEN buffer[k] ELSE IF k = at THEN c ELSE buffer[k - 1]
<1> DEFINE b == [ShiftedRight(at) EXCEPT ![at] = c]
<1>1. \A k \in Indices : b[k] = IF k < at THEN buffer[k] ELSE IF k = at THEN c ELSE buffer[k - 1]
  BY EditorAssumption DEF ShiftedRight, Indices
<1> HIDE DEF b
<1>2. TextEnd(b, IF e < BufSize THEN e + 1 ELSE BufSize)
  BY <1>1, EditorAssumption DEF TextEnd, Indices
<1> QED BY <1>1, <1>2 DEF b

-----------------------------------------------------------------------------
Glyphs == Chars \cup {Blank, BackspaceGlyph}

(* The screen shows the text, which leaves the last cell free.             *)
Shows == /\ Position(term) = pos
         /\ TextLen <= LastCell
         /\ \A k \in Cells : term.cell[k] = IF k < TextLen THEN buffer[k] ELSE Blank

ScreenInv == /\ term \in Console(Glyphs) /\ Fresh(term)
             /\ inStep => Shows

(* A blank screen shows the empty text.                                    *)
LEMMA ScreenStarts == Init => ScreenInv
<1> SUFFICES ASSUME Init PROVE ScreenInv
  OBVIOUS
<1>1. 0 \in Rows /\ 0 \in Cols /\ 0 \in Cells /\ LastCell \in Nat
  BY ScreenSize DEF Sized, Cells
<1>2. term = [row |-> 0, col |-> 0, crtc |-> 0, cell |-> BlankScreen]
  BY DEF Init, InitialTerminal
<1>3. BlankScreen \in [Cells -> Glyphs]
  BY DEF BlankScreen, Glyphs
<1>4. term \in Console(Glyphs) /\ Fresh(term)
  BY <1>1, <1>2, <1>3 DEF Console, Fresh
<1>5. TextLen = 0
  <2>1. TextEnd(buffer, 0)
    BY EditorAssumption DEF TextEnd, Init, Indices
  <2> QED BY <2>1, TextLenEnds, TextEndsOnce
<1>6. Position(term) = 0
  BY <1>1, <1>2, CellOf DEF Position
<1>7. \A k \in Cells : term.cell[k] = Blank /\ ~(k < 0)
  BY <1>1, <1>2 DEF BlankScreen, Cells
<1>8. Shows
  BY <1>1, <1>5, <1>6, <1>7 DEF Shows, Init
<1> QED BY <1>4, <1>8 DEF ScreenInv

(* The cursor keys write nothing, keep the editor's cursor in the text,    *)
(* and move the console's by as many cells.                                *)
LEMMA CursorKeysMove ==
  ASSUME IInv, term \in Console(Glyphs), Fresh(term),
         KeyLeft \/ KeyRight \/ KeyHome \/ KeyEnd
  PROVE  /\ term' \in Console(Glyphs) /\ Fresh(term)' /\ term'.cell = term.cell
         /\ UNCHANGED <<buffer, inStep>> /\ pos' \in 0 .. TextLen
         /\ LET there == Position(term) + (pos' - pos)
            IN there \in Cells => Position(term') = there
<1>1. pos \in 0 .. TextLen /\ TextLen \in 0 .. BufSize /\ TextEnd(buffer, TextLen)
  BY CursorWithin, TextLenEnds
<1>2. LastCell \in Nat /\ Cells = 0 .. LastCell /\ Position(term) \in Cells
  BY ScreenSize, Updated DEF Sized, Cells
<1>3. Fresh(term') => Fresh(term)'
  BY DEF Fresh, Position, At
<1>4. CASE KeyLeft
  <2>1. pos > 0 /\ pos' = pos - 1 /\ term' = TerminalMoveCursorLeft(term) /\ UNCHANGED <<buffer, inStep>>
    BY <1>4 DEF KeyLeft
  <2>2. /\ term' \in Console(Glyphs) /\ Fresh(term') /\ term'.cell = term.cell
        /\ Position(term) > 0 => Position(term') = Position(term) - 1
    BY <2>1, OneStepLeft
  <2> QED BY <1>1, <1>2, <1>3, <2>1, <2>2
<1>5. CASE KeyRight
  <2>1. pos \in Indices /\ buffer[pos] # Nul /\ pos' = pos + 1
        /\ term' = TerminalMoveCursorRight(term) /\ UNCHANGED <<buffer, inStep>>
    BY <1>5 DEF KeyRight
  <2>2. /\ term' \in Console(Glyphs) /\ Fresh(term') /\ term'.cell = term.cell
        /\ Position(term) < LastCell => Position(term') = Position(term) + 1
    BY <2>1, OneStepRight
  <2>3. pos < TextLen
    BY <1>1, <2>1, EditorAssumption DEF TextEnd, Indices
  <2> QED BY <1>1, <1>2, <1>3, <2>1, <2>2, <2>3
<1>6. CASE KeyHome
  <2>1. pos' = 0 /\ term' = Repeat(TerminalMoveCursorLeft, pos, term) /\ UNCHANGED <<buffer, inStep>>
    BY <1>6 DEF KeyHome
  <2>2. /\ term' \in Console(Glyphs) /\ Fresh(term') /\ term'.cell = term.cell
        /\ pos <= Position(term) => Position(term') = Position(term) - pos
    BY <1>1, <2>1, RepeatedLeft
  <2> QED BY <1>1, <1>2, <1>3, <2>1, <2>2
<1>7. CASE KeyEnd
  <2>1. PICK e \in FirstNul(pos) : pos' = e /\ term' = Repeat(TerminalMoveCursorRight, e - pos, term)
    BY <1>7 DEF KeyEnd
  <2>2. e = TextLen /\ pos <= e /\ e \in Nat /\ UNCHANGED <<buffer, inStep>>
    <3>1. pos \in 0 .. BufSize /\ pos <= pos
      BY DEF IInv, BufferOK
    <3> QED BY <1>7, <3>1, FirstNulIs DEF KeyEnd
  <2> DEFINE n == e - pos
  <2>3. n \in Nat
    BY <1>1, <2>2
  <2>4. /\ term' \in Console(Glyphs) /\ Fresh(term') /\ term'.cell = term.cell
        /\ Position(term) + n <= LastCell => Position(term') = Position(term) + n
    <3>1. term' = Repeat(TerminalMoveCursorRight, n, term)
      BY <2>1
    <3> HIDE DEF n
    <3> QED BY <2>3, <3>1, RepeatedRight
  <2> QED BY <1>1, <1>2, <1>3, <2>1, <2>2, <2>3, <2>4
<1> QED BY <1>4, <1>5, <1>6, <1>7

-----------------------------------------------------------------------------
(* The cursor keys leave a screen that shows the text so.                  *)
LEMMA CursorKeysShow ==
  ASSUME IInv, ScreenInv, KeyLeft \/ KeyRight \/ KeyHome \/ KeyEnd
  PROVE  ScreenInv'
<1>1. term \in Console(Glyphs) /\ Fresh(term) /\ (inStep => Shows)
  BY DEF ScreenInv
<1>2. /\ term' \in Console(Glyphs) /\ Fresh(term)' /\ term'.cell = term.cell
      /\ UNCHANGED <<buffer, inStep>> /\ pos' \in 0 .. TextLen
      /\ LET there == Position(term) + (pos' - pos)
         IN there \in Cells => Position(term') = there
  BY <1>1, CursorKeysMove
<1>3. TextLen' = TextLen /\ TextLen \in 0 .. BufSize /\ pos \in 0 .. BufSize
  BY <1>2, TextLenIs, CursorWithin DEF IInv, BufferOK
<1>4. ASSUME inStep PROVE Shows'
  <2>1. Position(term) = pos /\ TextLen <= LastCell
    BY <1>1, <1>4 DEF Shows
  <2>2. Position(term) + (pos' - pos) = pos' /\ pos' \in Cells
    <3>1. pos' \in 0 .. TextLen
      BY <1>2
    <3>2. LastCell \in Nat /\ TextLen \in Nat /\ pos \in Nat
      BY <1>3, ScreenSize, EditorAssumption DEF Sized
    <3>3. pos' \in Cells
      BY <2>1, <3>1, <3>2 DEF Cells
    <3>4. pos + (pos' - pos) = pos'
      <4> DEFINE p == pos'
      <4>1. p \in Int /\ pos \in Int
        BY <3>1, <3>2
      <4> HIDE DEF p
      <4>2. pos + (p - pos) = p
        BY <4>1
      <4> QED BY <4>2 DEF p
    <3> QED BY <2>1, <3>3, <3>4
  <2>3. Position(term') = pos'
    BY <1>2, <2>2
  <2>4. \A k \in Cells : term'.cell[k] = IF k < TextLen' THEN buffer'[k] ELSE Blank
    BY <1>1, <1>2, <1>3, <1>4 DEF Shows
  <2> QED BY <1>3, <2>1, <2>3, <2>4 DEF Shows, Position, At
<1> QED BY <1>2, <1>4 DEF ScreenInv, Console

(* So does Delete, when the text behind the cursor ends in the cursor's    *)
(* row, where the console moves the rest of the row.                       *)
LEMMA DeletedShows ==
  ASSUME IInv, ScreenInv, KeyDelete
  PROVE  ScreenInv'
<1>1. term \in Console(Glyphs) /\ Fresh(term) /\ (inStep => Shows) /\ Blank \in Glyphs
  BY DEF ScreenInv, Glyphs
<1>2. PICK e \in FirstNul(pos) :
        /\ e # pos
        /\ buffer' = ShiftedLeft(pos, e)
        /\ inStep' = (inStep /\ (e - 1) \div Width = term.row)
  BY DEF KeyDelete
<1>3. term' = TerminalDeleteChar(term) /\ pos' = pos
  BY DEF KeyDelete
<1> DEFINE a == term.row * Width
           P == Position(term)
<1>4. /\ term' \in Console(Glyphs) /\ Fresh(term') /\ Position(term') = P
      /\ a \in Nat /\ P \in a .. a + Width - 1 /\ a + Width - 1 <= LastCell
      /\ \A k \in Cells :
           term'.cell[k] = IF k >= P /\ k <= a + Width - 2
                             THEN term.cell[k + 1]
                             ELSE IF k = a + Width - 1 THEN Blank ELSE term.cell[k]
  BY <1>1, <1>3, Deleted
<1>5. e = TextLen /\ e < BufSize /\ pos <= e /\ e \in Nat /\ pos \in Nat /\ TextEnd(buffer, e)
  <2>1. pos \in 0 .. BufSize /\ pos <= pos
    BY DEF IInv, BufferOK
  <2> QED BY <2>1, FirstNulIs, TextLenEnds
<1>6. /\ TextEnd(buffer', e - 1)
      /\ \A k \in 0 .. e - 2 : buffer'[k] = IF k < pos THEN buffer[k] ELSE buffer[k + 1]
  <2>1. pos < e
    BY <1>2, <1>5
  <2> QED BY <1>2, <1>5, <2>1, Shortened
<1>7. TextLen' = e - 1
  BY <1>6, TextEndsOnce, TextLenEnds
<1>8. ASSUME inStep' PROVE Shows'
  <2>1. /\ P = pos /\ e <= LastCell
        /\ \A k \in Cells : term.cell[k] = IF k < e THEN buffer[k] ELSE Blank
    BY <1>1, <1>2, <1>5, <1>8 DEF Shows
  <2>2. a <= e - 1 /\ e - 1 <= a + Width - 1
    <3> DEFINE q == e - 1
    <3>1. q \in Nat /\ q \div Width = term.row /\ Width \in Nat \ {0}
      <4>1. inStep /\ (e - 1) \div Width = term.row
        BY <1>2, <1>8, Zenon
      <4> QED BY <1>2, <1>5, <4>1, SizeAssumption
    <3>2. (q \div Width) * Width <= q /\ q <= (q \div Width) * Width + Width - 1
      <4> HIDE DEF q
      <4>1. q = Width * (q \div Width) + (q % Width) /\ q % Width \in 0 .. Width - 1 /\ q \div Width \in Int
        BY <3>1, SMTT(30)
      <4>2. Width * (q \div Width) = (q \div Width) * Width
        BY <3>1, <4>1
      <4> QED BY <3>1, <4>1, <4>2
    <3> QED BY <3>1, <3>2
  <2>3. LastCell \in Nat /\ Cells = 0 .. LastCell /\ Width \in Nat /\ Width >= 2
    BY ScreenSize DEF Sized, Cells
  <2>4. ASSUME NEW k \in Cells
        PROVE  term'.cell[k] = IF k < e - 1 THEN buffer'[k] ELSE Blank
    <3> HIDE DEF a, P
    <3>1. CASE k >= P /\ k <= a + Width - 2
      <4>1. term'.cell[k] = term.cell[k + 1] /\ k + 1 \in Cells
        BY <1>4, <2>3, <3>1
      <4>2. term.cell[k + 1] = IF k + 1 < e THEN buffer[k + 1] ELSE Blank
        BY <2>1, <4>1
      <4>3. CASE k < e - 1
        <5>1. k \in 0 .. e - 2 /\ k + 1 < e /\ ~(k < pos)
          BY <1>5, <2>1, <2>3, <3>1, <4>3
        <5>2. buffer'[k] = buffer[k + 1]
          BY <1>6, <5>1
        <5> QED BY <4>1, <4>2, <4>3, <5>1, <5>2
      <4>4. CASE ~(k < e - 1)
        <5>1. ~(k + 1 < e)
          BY <1>5, <2>3, <4>4
        <5> QED BY <4>1, <4>2, <4>4, <5>1
      <4> QED BY <4>3, <4>4
    <3>2. CASE ~(k >= P /\ k <= a + Width - 2) /\ k = a + Width - 1
      <4>1. term'.cell[k] = Blank /\ ~(k < e - 1)
        BY <1>4, <1>5, <2>2, <2>3, <3>2
      <4> QED BY <4>1
    <3>3. CASE ~(k >= P /\ k <= a + Width - 2) /\ k # a + Width - 1
      <4>1. term'.cell[k] = term.cell[k]
        BY <1>4, <3>3
      <4>2. k < P \/ k > a + Width - 1
        BY <1>4, <2>3, <3>3
      <4>3. CASE k < P
        <5>1. k < e
          BY <1>2, <1>5, <2>1, <2>3, <4>3
        <5>2. k < e - 1 => k \in 0 .. e - 2 /\ buffer'[k] = buffer[k]
          BY <1>5, <1>6, <2>1, <2>3, <4>3
        <5>3. k < e - 1
          BY <1>2, <1>5, <2>1, <2>3, <4>3
        <5> QED BY <2>1, <4>1, <5>1, <5>2, <5>3
      <4>4. CASE k > a + Width - 1
        <5>1. ~(k < e) /\ ~(k < e - 1)
          BY <1>4, <1>5, <2>2, <2>3, <4>4
        <5> QED BY <2>1, <4>1, <5>1
      <4> QED BY <4>2, <4>3, <4>4
    <3> QED BY <3>1, <3>2, <3>3
  <2>5. Position(term') = pos' /\ TextLen' <= LastCell
    BY <1>3, <1>4, <1>5, <1>7, <2>1, <2>3
  <2> QED BY <1>7, <2>4, <2>5 DEF Shows, Position, At
<1>9. Fresh(term)'
  BY <1>4 DEF Fresh, Position, At
<1> QED BY <1>4, <1>8, <1>9 DEF ScreenInv, Console

(* So does a character typed at the end of the text before the last cell   *)
(* of the screen.                                                          *)
LEMMA TypedShows ==
  ASSUME IInv, ScreenInv, NEW c \in Chars, KeyChar(c)
  PROVE  ScreenInv'
<1>1. term \in Console(Glyphs) /\ Fresh(term) /\ (inStep => Shows) /\ c \in Glyphs /\ c # Newline
  BY EditorAssumption DEF ScreenInv, Glyphs
<1>2. /\ pos < BufSize - 1
      /\ buffer' = [ShiftedRight(pos) EXCEPT ![pos] = c]
      /\ pos' = pos + 1
      /\ term' = TerminalPutchar(term, c)
      /\ inStep' = (inStep /\ buffer[pos] = Nul /\ Position(term) < LastCell)
  BY DEF KeyChar, HasRoom
<1>3. term' \in Console(Glyphs) /\ Fresh(term')
  BY <1>1, <1>2, PutCharKeeps
<1> DEFINE n == TextLen
<1>4. pos \in 0 .. n /\ n \in 0 .. BufSize /\ TextEnd(buffer, n)
  BY CursorWithin, TextLenEnds
<1>5. /\ TextEnd(buffer', IF n < BufSize THEN n + 1 ELSE BufSize)
      /\ \A k \in Indices :
           buffer'[k] = IF k < pos THEN buffer[k] ELSE IF k = pos THEN c ELSE buffer[k - 1]
  <2> HIDE DEF n
  <2>1. pos \in Nat /\ n \in Nat /\ pos <= n
    BY <1>4
  <2> DEFINE b == [ShiftedRight(pos) EXCEPT ![pos] = c]
  <2>2. /\ TextEnd(b, IF n < BufSize THEN n + 1 ELSE BufSize)
        /\ \A k \in Indices :
             b[k] = IF k < pos THEN buffer[k] ELSE IF k = pos THEN c ELSE buffer[k - 1]
    BY <1>2, <1>4, <2>1, Lengthened
  <2> QED BY <1>2, <2>2
<1>6. TextLen' = IF n < BufSize THEN n + 1 ELSE BufSize
  <2> HIDE DEF n
  <2> QED BY <1>5, TextEndsOnce, TextLenEnds
<1>7. ASSUME inStep' PROVE Shows'
  <2> DEFINE u == TerminalPutChar(term, c)
             P == Position(term)
  <2>1. /\ P = pos /\ n <= LastCell
        /\ \A k \in Cells : term.cell[k] = IF k < n THEN buffer[k] ELSE Blank
        /\ buffer[pos] = Nul /\ pos < LastCell
    BY <1>1, <1>2, <1>7 DEF Shows
  <2>2. LastCell \in Nat /\ Cells = 0 .. LastCell
    BY ScreenSize DEF Sized, Cells
  <2>3. pos = n
    <3> HIDE DEF n
    <3> QED BY <1>2, <1>4, <2>1, EditorAssumption DEF TextEnd, Indices
  <2>4. u \in Console(Glyphs) /\ u.cell = [term.cell EXCEPT ![P] = c] /\ Position(u) = P + 1
    <3>1. P # LastCell
      BY <2>1, <2>2, <1>4
    <3> QED BY <1>1, <3>1, Printed
  <2>5. term'.cell = u.cell /\ Position(term') = Position(u)
    <3>1. term' = UpdateCursor(u)
      BY <1>2 DEF TerminalPutchar
    <3> HIDE DEF u
    <3>2. term' = [u EXCEPT !.crtc = Position(u)] /\ Position(term') = Position(u)
      BY <2>4, <3>1, Updated
    <3> QED BY <2>4, <3>2 DEF Console
  <2> HIDE DEF u, P, n
  <2>6. TextLen' = n + 1
    BY <1>2, <1>4, <1>6, <2>3, EditorAssumption
  <2>7. ASSUME NEW k \in Cells
        PROVE  term'.cell[k] = IF k < n + 1 THEN buffer'[k] ELSE Blank
    <3>1. DOMAIN term.cell = Cells
      BY <1>1 DEF Console
    <3>2. term'.cell[k] = IF k = P THEN c ELSE term.cell[k]
      BY <2>4, <2>5, <3>1
    <3>3. k < n + 1 => buffer'[k] = IF k < pos THEN buffer[k] ELSE c
      BY <1>2, <1>4, <1>5, <2>2, <2>3, EditorAssumption DEF Indices
    <3> QED BY <1>4, <2>1, <2>2, <2>3, <3>2, <3>3
  <2>8. Position(term') = pos' /\ TextLen' <= LastCell
    BY <1>2, <1>4, <2>1, <2>2, <2>3, <2>4, <2>5, <2>6
  <2> QED BY <2>6, <2>7, <2>8 DEF Shows, Position, At
<1>8. Fresh(term)'
  BY <1>3 DEF Fresh, Position, At
<1> QED BY <1>3, <1>7, <1>8 DEF ScreenInv, Console

(* Every other key that changes the text or the screen leaves them out of  *)
(* step for good.                                                          *)
LEMMA StepShows == IInv /\ ScreenInv /\ [Next]_vars => ScreenInv'
<1> SUFFICES ASSUME IInv, ScreenInv, [Next]_vars PROVE ScreenInv'
  OBVIOUS
<1>1. ASSUME KeyBackspace \/ KeyEnter PROVE ScreenInv'
  <2>1. /\ term' = TerminalPutchar(term, BackspaceGlyph) \/ term' = TerminalPutchar(term, Newline)
        /\ inStep' = FALSE
    BY <1>1 DEF KeyBackspace, KeyEnter
  <2>2. term \in Console(Glyphs) /\ BackspaceGlyph \in Glyphs
    BY DEF ScreenInv, Glyphs
  <2>3. term' \in Console(Glyphs) /\ Fresh(term')
    BY <2>1, <2>2, PutCharKeeps
  <2>4. Fresh(term)'
    BY <2>3 DEF Fresh, Position, At
  <2> QED BY <2>1, <2>3, <2>4 DEF ScreenInv, Console
<1>2. ASSUME UNCHANGED vars \/ RunsWild PROVE ScreenInv'
  <2>1. UNCHANGED <<buffer, pos, term, inStep>>
    BY <1>2 DEF vars, RunsWild
  <2>2. TextLen' = TextLen
    BY <2>1, TextLenIs
  <2> QED BY <2>1, <2>2 DEF ScreenInv, Console, Fresh, Shows, Position, At
<1> QED BY <1>1, <1>2, CursorKeysShow, DeletedShows, TypedShows DEF Next, KeyIgnored

(* The console's cursor is on the screen, and while in step the screen     *)
(* shows the text.                                                         *)
LEMMA ScreenInvAlways == Spec => [](IInv /\ ScreenInv)
<1> QED BY InitIInv, NextIInv, ScreenStarts, StepShows, PTL DEF Spec

(* For any buffer, any screen and any keys: until a key that the console   *)
(* does not follow is pressed, the screen shows the command buffer and the *)
(* two cursors stand at the same place (keyboard_update_command_line).     *)
THEOREM ScreenShowsLineAlways == Spec => []ScreenShowsLine
<1>1. IInv /\ ScreenInv => ScreenShowsLine
  BY DEF ScreenInv, ScreenShowsLine, Shows
<1> QED BY <1>1, ScreenInvAlways, PTL

(* For any buffer and any screen, in step or not: a cursor key moves the   *)
(* editor's cursor and the console's by the same number of characters,     *)
(* unless a corner of the screen stops the console's.                      *)
THEOREM CursorKeysTogetherAlways == Spec => CursorKeysTogether
<1>1. ASSUME IInv, ScreenInv, [Next]_vars
      PROVE  [KeyLeft \/ KeyRight \/ KeyHome \/ KeyEnd =>
               LET there == Position(term) + (pos' - pos)
               IN there \in Cells => Position(term') = there]_vars
  <2> SUFFICES ASSUME KeyLeft \/ KeyRight \/ KeyHome \/ KeyEnd
               PROVE  LET there == Position(term) + (pos' - pos)
                      IN there \in Cells => Position(term') = there
    OBVIOUS
  <2> QED BY <1>1, CursorKeysMove DEF ScreenInv
<1> QED BY <1>1, ScreenInvAlways, PTL DEF Spec, CursorKeysTogether

-----------------------------------------------------------------------------
(* Facts about sequences.                                                 *)

(* A sequence is the function of its elements.                             *)
LEMMA AsFunction ==
  ASSUME NEW Y, NEW s \in Seq(Y), NEW n \in Nat, Len(s) = n
  PROVE  s = [i \in 1 .. n |-> s[i]]
<1> DEFINE u == [i \in 1 .. n |-> s[i]]
<1>1. u \in Seq(Y) /\ Len(u) = n /\ \A i \in 1 .. n : u[i] = s[i]
  OBVIOUS
<1> HIDE DEF u
<1>2. s = u
  BY <1>1, SeqEqual
<1> QED BY <1>2 DEF u

(* What SubSeq returns.                                                    *)
LEMMA Part ==
  ASSUME NEW Y, NEW s \in Seq(Y), NEW a \in 1 .. Len(s) + 1, NEW b \in 0 .. Len(s), a <= b + 1
  PROVE  /\ SubSeq(s, a, b) \in Seq(Y) /\ Len(SubSeq(s, a, b)) = b - a + 1
         /\ \A i \in 1 .. b - a + 1 : SubSeq(s, a, b)[i] = s[a + i - 1]
<1>1. \A i \in a .. b : s[i] \in Y
  OBVIOUS
<1>2. a \in Int /\ b \in Int /\ (IF a <= b THEN b - a + 1 ELSE 0) = b - a + 1
  OBVIOUS
<1> QED BY <1>1, <1>2, SubSeqProperties

(* The first m elements.                                                   *)
LEMMA Cut ==
  ASSUME NEW Y, NEW s \in Seq(Y), NEW k \in Nat, Len(s) = k, NEW m \in 0 .. k
  PROVE  SubSeq(s, 1, m) = [i \in 1 .. m |-> s[i]]
<1> DEFINE p == SubSeq(s, 1, m)
<1>1. p \in Seq(Y) /\ Len(p) = m /\ \A i \in 1 .. m : p[i] = s[i]
  <2>1. p \in Seq(Y) /\ Len(p) = m - 1 + 1 /\ \A i \in 1 .. m - 1 + 1 : p[i] = s[1 + i - 1]
    BY Part
  <2> HIDE DEF p
  <2> QED BY <2>1
<1> HIDE DEF p
<1>2. p = [i \in 1 .. m |-> p[i]]
  BY <1>1, AsFunction
<1>3. p = [i \in 1 .. m |-> s[i]]
  BY <1>1, <1>2
<1> QED BY <1>3 DEF p

(* Two sequences one after the other.                                      *)
LEMMA Joined ==
  ASSUME NEW Y, NEW p \in Seq(Y), NEW q \in Seq(Y), NEW n \in Nat, n = Len(p) + Len(q)
  PROVE  p \o q = [i \in 1 .. n |-> IF i <= Len(p) THEN p[i] ELSE q[i - Len(p)]]
<1> DEFINE r == p \o q
<1>1. /\ r \in Seq(Y) /\ Len(r) = n
      /\ \A i \in 1 .. n : r[i] = IF i <= Len(p) THEN p[i] ELSE q[i - Len(p)]
  BY ConcatProperties
<1> HIDE DEF r
<1>2. r = [i \in 1 .. n |-> r[i]]
  BY <1>1, AsFunction
<1>3. r = [i \in 1 .. n |-> IF i <= Len(p) THEN p[i] ELSE q[i - Len(p)]]
  BY <1>1, <1>2
<1> QED BY <1>3 DEF r

(* The sequence without one of its elements: those behind it have moved by *)
(* one.                                                                    *)
LEMMA Removed ==
  ASSUME NEW Y, NEW s \in Seq(Y), NEW k \in Nat, Len(s) = k, NEW j \in 1 .. k
  PROVE  RemoveAt(s, j) = [i \in 1 .. k - 1 |-> IF i < j THEN s[i] ELSE s[i + 1]]
<1> DEFINE p == SubSeq(s, 1, j - 1)
           q == SubSeq(s, j + 1, Len(s))
           n == k - 1
<1>1. p \in Seq(Y) /\ Len(p) = j - 1 /\ \A i \in 1 .. j - 1 : p[i] = s[i]
  <2> DEFINE b == j - 1
  <2>1. b \in 0 .. Len(s) /\ 1 \in 1 .. Len(s) + 1 /\ 1 <= b + 1 /\ b - 1 + 1 = b
    OBVIOUS
  <2> HIDE DEF b
  <2>2. /\ SubSeq(s, 1, b) \in Seq(Y) /\ Len(SubSeq(s, 1, b)) = b - 1 + 1
        /\ \A i \in 1 .. b - 1 + 1 : SubSeq(s, 1, b)[i] = s[1 + i - 1]
    BY <2>1, Part
  <2>3. SubSeq(s, 1, b) \in Seq(Y) /\ Len(SubSeq(s, 1, b)) = b /\ \A i \in 1 .. b : SubSeq(s, 1, b)[i] = s[i]
    BY <2>1, <2>2
  <2> QED BY <2>3 DEF b
<1>2. q \in Seq(Y) /\ Len(q) = Len(s) - j /\ \A i \in 1 .. Len(s) - j : q[i] = s[i + j]
  <2> DEFINE a == j + 1
             b == Len(s)
  <2>1. b \in 0 .. Len(s) /\ a \in 1 .. Len(s) + 1 /\ a <= b + 1 /\ b - a + 1 = Len(s) - j
    OBVIOUS
  <2>2. /\ q \in Seq(Y) /\ Len(q) = b - a + 1
        /\ \A i \in 1 .. b - a + 1 : q[i] = s[a + i - 1]
    <3> HIDE DEF a, b
    <3> QED BY <2>1, Part DEF a, b
  <2>3. \A i \in 1 .. Len(s) - j : a + i - 1 = i + j
    OBVIOUS
  <2> HIDE DEF a, b, q
  <2> QED BY <2>1, <2>2, <2>3
<1>3. RemoveAt(s, j) = p \o q
  BY DEF RemoveAt
<1>4. n \in Nat /\ n = (j - 1) + (Len(s) - j)
  OBVIOUS
<1> HIDE DEF p, q, n
<1>5. p \o q = [i \in 1 .. n |-> IF i <= Len(p) THEN p[i] ELSE q[i - Len(p)]]
  <2>1. p \in Seq(Y) /\ q \in Seq(Y) /\ n \in Nat /\ n = Len(p) + Len(q)
    BY <1>1, <1>2, <1>4
  <2> QED BY <2>1, Joined
<1>6. \A i \in 1 .. n : (IF i <= Len(p) THEN p[i] ELSE q[i - Len(p)]) = IF i < j THEN s[i] ELSE s[i + 1]
  BY <1>1, <1>2, <1>4
<1>7. p \o q = [i \in 1 .. n |-> IF i < j THEN s[i] ELSE s[i + 1]]
  BY <1>5, <1>6
<1> QED BY <1>3, <1>7 DEF n

(* The sequence with one element more: those behind it have moved by one.  *)
LEMMA Inserted ==
  ASSUME NEW Y, NEW s \in Seq(Y), NEW k \in Nat, Len(s) = k, NEW j \in 1 .. k + 1, NEW c \in Y
  PROVE  InsertAt(s, j, c) =
           [i \in 1 .. k + 1 |-> IF i < j THEN s[i] ELSE IF i = j THEN c ELSE s[i - 1]]
<1> DEFINE p == SubSeq(s, 1, j - 1)
           q == SubSeq(s, j, Len(s))
           r == p \o <<c>>
           n == k + 1
<1>1. p \in Seq(Y) /\ Len(p) = j - 1 /\ \A i \in 1 .. j - 1 : p[i] = s[i]
  <2> DEFINE b == j - 1
  <2>1. b \in 0 .. Len(s) /\ 1 \in 1 .. Len(s) + 1 /\ 1 <= b + 1 /\ b - 1 + 1 = b
    OBVIOUS
  <2> HIDE DEF b
  <2>2. /\ SubSeq(s, 1, b) \in Seq(Y) /\ Len(SubSeq(s, 1, b)) = b - 1 + 1
        /\ \A i \in 1 .. b - 1 + 1 : SubSeq(s, 1, b)[i] = s[1 + i - 1]
    BY <2>1, Part
  <2>3. SubSeq(s, 1, b) \in Seq(Y) /\ Len(SubSeq(s, 1, b)) = b /\ \A i \in 1 .. b : SubSeq(s, 1, b)[i] = s[i]
    BY <2>1, <2>2
  <2> QED BY <2>3 DEF b
<1>2. q \in Seq(Y) /\ Len(q) = n - j /\ \A i \in 1 .. n - j : q[i] = s[i + j - 1]
  <2> DEFINE b == Len(s)
  <2>1. b \in 0 .. Len(s) /\ j \in 1 .. Len(s) + 1 /\ j <= b + 1 /\ b - j + 1 = n - j
    OBVIOUS
  <2>2. /\ q \in Seq(Y) /\ Len(q) = b - j + 1
        /\ \A i \in 1 .. b - j + 1 : q[i] = s[j + i - 1]
    <3> HIDE DEF b
    <3> QED BY <2>1, Part DEF b
  <2>3. \A i \in 1 .. n - j : j + i - 1 = i + j - 1
    OBVIOUS
  <2> HIDE DEF b, q, n
  <2> QED BY <2>1, <2>2, <2>3
<1>3. InsertAt(s, j, c) = r \o q
  BY DEF InsertAt
<1>4. n \in Nat /\ n = j + (n - j) /\ j \in 1 .. n
  OBVIOUS
<1>5. r \in Seq(Y) /\ Len(r) = j /\ \A i \in 1 .. j : r[i] = IF i = j THEN c ELSE s[i]
  <2>1. <<c>> \in Seq(Y) /\ Len(<<c>>) = 1 /\ <<c>>[1] = c
    OBVIOUS
  <2> HIDE DEF p, q, n
  <2>2. /\ r \in Seq(Y) /\ Len(r) = Len(p) + 1
        /\ \A i \in 1 .. Len(p) + 1 : r[i] = IF i <= Len(p) THEN p[i] ELSE <<c>>[i - Len(p)]
    BY <1>1, <2>1, ConcatProperties
  <2> HIDE DEF r
  <2> QED BY <1>1, <1>4, <2>1, <2>2
<1> HIDE DEF p, q, r, n
<1>6. r \o q = [i \in 1 .. n |-> IF i <= Len(r) THEN r[i] ELSE q[i - Len(r)]]
  <2>1. r \in Seq(Y) /\ q \in Seq(Y) /\ n \in Nat /\ n = Len(r) + Len(q)
    BY <1>2, <1>4, <1>5
  <2> QED BY <2>1, Joined
<1>7. ASSUME NEW i \in 1 .. n
      PROVE  (IF i <= Len(r) THEN r[i] ELSE q[i - Len(r)]) =
               IF i < j THEN s[i] ELSE IF i = j THEN c ELSE s[i - 1]
  <2>1. CASE i <= j
    BY <1>4, <1>5, <2>1
  <2>2. CASE ~(i <= j)
    <3>1. i - j \in 1 .. n - j /\ (i - j) + j - 1 = i - 1
      BY <1>4, <2>2
    <3> QED BY <1>2, <1>4, <1>5, <2>2, <3>1
  <2> QED BY <2>1, <2>2
<1>8. r \o q = [i \in 1 .. n |-> IF i < j THEN s[i] ELSE IF i = j THEN c ELSE s[i - 1]]
  BY <1>6, <1>7
<1> QED BY <1>3, <1>8 DEF n

-----------------------------------------------------------------------------
(* The text of the line that the array is.                                 *)
Text == [i \in 1 .. TextLen |-> buffer[i - 1]]

(* The array of zeroes is the empty line.                                  *)
LEMMA LineStarts == Init => Line!Init
<1> SUFFICES ASSUME Init PROVE Line!Init
  OBVIOUS
<1>1. TextLen = 0
  <2>1. TextEnd(buffer, 0)
    BY EditorAssumption DEF TextEnd, Init, Indices
  <2> QED BY <2>1, TextLenEnds, TextEndsOnce
<1>2. Text = <<>>
  BY <1>1 DEF Text
<1> QED BY <1>2 DEF Line!Init, Init, Text

(* The bytes before the first NUL are a line of characters.                *)
LEMMA TextIs ==
  ASSUME IInv
  PROVE  /\ Text \in Seq(Chars) /\ Len(Text) = TextLen
         /\ TextLen \in Nat /\ TextLen <= BufSize /\ pos \in 0 .. TextLen
         /\ \A i \in 1 .. TextLen : Text[i] = buffer[i - 1]
<1>1. pos \in 0 .. TextLen /\ TextLen \in 0 .. BufSize /\ TextEnd(buffer, TextLen)
  BY CursorWithin, TextLenEnds
<1>2. \A k \in 0 .. TextLen - 1 : buffer[k] \in Chars
  BY <1>1, EditorAssumption DEF TextEnd, Indices, IInv, BufferOK
<1> DEFINE n == TextLen
<1>3. n \in Nat
  BY <1>1
<1>4. ASSUME NEW i \in 1 .. n PROVE buffer[i - 1] \in Chars
  <2>1. i - 1 \in 0 .. n - 1
    BY <1>3
  <2> QED BY <1>2, <2>1
<1>5. Text = [i \in 1 .. n |-> buffer[i - 1]]
  BY DEF Text
<1> HIDE DEF n
<1>6. Text \in Seq(Chars) /\ Len(Text) = n /\ \A i \in 1 .. n : Text[i] = buffer[i - 1]
  BY <1>3, <1>4, <1>5
<1> QED BY <1>1, <1>3, <1>6 DEF n

(* A cursor key is a move inside the line.                                 *)
LEMMA CursorKeysRefine ==
  ASSUME IInv, ScreenInv, ~wild, KeyLeft \/ KeyRight \/ KeyHome \/ KeyEnd
  PROVE  Line!Move
<1>1. UNCHANGED <<buffer, wild>>
  BY DEF KeyLeft, KeyRight, KeyHome, KeyEnd
<1>2. Text' = Text
  <2>1. TextLen' = TextLen
    BY <1>1, TextLenIs
  <2> QED BY <1>1, <2>1 DEF Text
<1>3. Len(Text) = TextLen
  BY TextIs
<1>4. pos' \in 0 .. TextLen
  BY CursorKeysMove DEF ScreenInv
<1>5. pos' \in {pos - 1, pos + 1, 0, TextLen}
  <2>1. CASE KeyLeft \/ KeyRight \/ KeyHome
    BY <2>1 DEF KeyLeft, KeyRight, KeyHome
  <2>2. CASE KeyEnd
    <3>1. PICK e \in FirstNul(pos) : pos' = e
      BY <2>2 DEF KeyEnd
    <3>2. pos \in 0 .. BufSize /\ pos <= pos
      BY DEF IInv, BufferOK
    <3> QED BY <3>1, <3>2, FirstNulIs
  <2> QED BY <2>1, <2>2
<1>6. pos' \in {pos - 1, pos + 1, 0, Len(Text)} \cap (0 .. Len(Text))
  BY <1>3, <1>4, <1>5
<1>7. \E c \in {pos - 1, pos + 1, 0, Len(Text)} \cap (0 .. Len(Text)) :
        ~wild /\ Text' = Text /\ pos' = c /\ UNCHANGED wild
  BY <1>1, <1>2, <1>6
<1> QED BY <1>7, Zenon DEF Line!Move, Line!Edit, Text

\* Delete and Backspace take one character out of the line.
LEMMA TextShortened ==
  ASSUME IInv, NEW from \in 0 .. TextLen - 1, TextLen < BufSize,
         buffer' = ShiftedLeft(from, TextLen)
  PROVE  Text' = RemoveAt(Text, from + 1)
<1> DEFINE n == TextLen
           j == from + 1
<1>1. /\ Text \in Seq(Chars) /\ Len(Text) = n /\ n \in Nat
      /\ \A i \in 1 .. n : Text[i] = buffer[i - 1]
      /\ TextEnd(buffer, n)
  BY TextIs, TextLenEnds
<1>2. /\ TextEnd(buffer', n - 1)
      /\ \A k \in 0 .. n - 2 : buffer'[k] = IF k < from THEN buffer[k] ELSE buffer[k + 1]
  <2> HIDE DEF n
  <2>1. from \in Nat /\ from < n /\ n < BufSize /\ buffer' = ShiftedLeft(from, n)
    BY <1>1 DEF n
  <2>2. n \in Nat /\ TextEnd(buffer, n)
    BY <1>1
  <2> QED BY <2>1, <2>2, Shortened
<1>3. TextLen' = n - 1
  BY <1>2, TextEndsOnce, TextLenEnds
<1>4. RemoveAt(Text, j) = [i \in 1 .. n - 1 |-> IF i < j THEN Text[i] ELSE Text[i + 1]]
  <2>1. j \in 1 .. n
    BY <1>1
  <2> HIDE DEF j, n
  <2> QED BY <1>1, <2>1, Removed
<1>5. ASSUME NEW i \in 1 .. n - 1
      PROVE  buffer'[i - 1] = IF i < j THEN Text[i] ELSE Text[i + 1]
  <2> DEFINE k == i - 1
  <2>1. k \in 0 .. n - 2 /\ (k < from <=> i < j) /\ i \in 1 .. n /\ i + 1 \in 1 .. n
        /\ k + 1 = (i + 1) - 1 /\ i - 1 = k
    BY <1>1
  <2>2. buffer'[k] = IF k < from THEN buffer[k] ELSE buffer[k + 1]
    BY <1>2, <2>1
  <2>3. Text[i] = buffer[k] /\ Text[i + 1] = buffer[k + 1]
    BY <1>1, <2>1
  <2> HIDE DEF k, j
  <2> QED BY <2>1, <2>2, <2>3
<1>6. Text' = [i \in 1 .. n - 1 |-> buffer'[i - 1]]
  BY <1>3 DEF Text
<1> HIDE DEF n
<1>7. Text' = [i \in 1 .. n - 1 |-> IF i < j THEN Text[i] ELSE Text[i + 1]]
  BY <1>5, <1>6
<1> QED BY <1>4, <1>7

(* Delete and Backspace take one character out of the line, and Enter cuts *)
(* it at the cursor, each in one step of the line.                         *)
LEMMA EditingKeysRefine ==
  ASSUME IInv, ~wild, KeyDelete \/ KeyBackspace \/ KeyEnter
  PROVE  Line!Delete \/ Line!Backspace \/ Line!Enter
<1>1. /\ Text \in Seq(Chars) /\ Len(Text) = TextLen /\ TextLen \in Nat /\ pos \in 0 .. TextLen
      /\ TextLen <= BufSize /\ \A i \in 1 .. TextLen : Text[i] = buffer[i - 1]
  BY TextIs
<1>2. UNCHANGED wild
  BY DEF KeyDelete, KeyBackspace, KeyEnter
<1>3. CASE KeyDelete
  <2>1. PICK e \in FirstNul(pos) : e # pos /\ buffer' = ShiftedLeft(pos, e)
    BY <1>3 DEF KeyDelete
  <2>2. e = TextLen /\ e < BufSize /\ pos <= e
    <3>1. pos \in 0 .. BufSize /\ pos <= pos
      BY DEF IInv, BufferOK
    <3> QED BY <3>1, FirstNulIs
  <2>3. pos' = pos /\ pos \in 0 .. TextLen - 1 /\ pos < Len(Text)
    BY <1>1, <1>3, <2>1, <2>2 DEF KeyDelete
  <2>4. Text' = RemoveAt(Text, pos + 1)
    BY <2>1, <2>2, <2>3, TextShortened
  <2>5. Line!Edit(RemoveAt(Text, pos + 1), pos)
    BY <1>2, <2>3, <2>4, Zenon DEF Line!Edit, Text
  <2> QED BY <2>3, <2>5, Zenon DEF Line!Delete, Line!RemoveAt, RemoveAt, Text
<1>4. CASE KeyBackspace
  <2>1. PICK e \in FirstNul(pos - 1) : buffer' = ShiftedLeft(pos - 1, e)
    BY <1>4 DEF KeyBackspace
  <2>2. pos > 0 /\ pos' = pos - 1
    BY <1>4 DEF KeyBackspace
  <2>3. e = TextLen /\ e < BufSize
    <3>1. pos - 1 \in 0 .. BufSize /\ pos - 1 <= pos
      BY <1>1, <2>2, EditorAssumption
    <3> QED BY <3>1, FirstNulIs
  <2>4. pos - 1 \in 0 .. TextLen - 1 /\ (pos - 1) + 1 = pos
    BY <1>1, <2>2
  <2>5. Text' = RemoveAt(Text, pos)
    BY <2>1, <2>3, <2>4, TextShortened
  <2>6. Line!Edit(RemoveAt(Text, pos), pos - 1)
    BY <1>2, <2>2, <2>5, Zenon DEF Line!Edit, Text
  <2> QED BY <2>2, <2>6, Zenon DEF Line!Backspace, Line!RemoveAt, RemoveAt, Text
<1>5. CASE KeyEnter
  <2>1. pos \in Indices /\ buffer' = [buffer EXCEPT ![pos] = Nul] /\ pos' = pos
    BY <1>5 DEF KeyEnter
  <2>2. DOMAIN buffer = Indices /\ TextEnd(buffer, TextLen)
    BY TextLenEnds DEF IInv, BufferOK
  <2>3. TextEnd(buffer', pos)
    BY <1>1, <2>1, <2>2, EditorAssumption DEF TextEnd, Indices
  <2>4. TextLen' = pos
    BY <2>3, TextEndsOnce, TextLenEnds
  <2>5. \A i \in 1 .. pos : buffer'[i - 1] = Text[i]
    BY <1>1, <2>1, <2>2, EditorAssumption DEF Indices
  <2>6. Text' = [i \in 1 .. pos |-> Text[i]]
    BY <2>4, <2>5 DEF Text
  <2>7. SubSeq(Text, 1, pos) = [i \in 1 .. pos |-> Text[i]]
    BY <1>1, Cut
  <2>8. Line!Edit(SubSeq(Text, 1, pos), pos)
    BY <1>2, <2>1, <2>6, <2>7, Zenon DEF Line!Edit, Text
  <2> QED BY <2>8 DEF Line!Enter, Text
<1> QED BY <1>3, <1>4, <1>5

(* A typed character is inserted at the cursor, and in a full array pushes *)
(* the last one off the line.                                              *)
LEMMA TypingRefines ==
  ASSUME IInv, ~wild, NEW c \in Chars, KeyChar(c)
  PROVE  Line!Insert(c)
<1> DEFINE n == TextLen
           longer == InsertAt(Text, pos + 1, c)
<1>1. /\ Text \in Seq(Chars) /\ Len(Text) = n /\ n \in Nat /\ pos \in 0 .. n
      /\ n <= BufSize /\ \A i \in 1 .. n : Text[i] = buffer[i - 1]
      /\ TextEnd(buffer, n)
  BY TextIs, TextLenEnds
<1>2. /\ pos < BufSize - 1 /\ pos' = pos + 1 /\ UNCHANGED wild
      /\ buffer' = [ShiftedRight(pos) EXCEPT ![pos] = c]
  BY DEF KeyChar, HasRoom
<1> DEFINE m == IF n < BufSize THEN n + 1 ELSE BufSize
<1>3. /\ TextEnd(buffer', m)
      /\ \A k \in Indices :
           buffer'[k] = IF k < pos THEN buffer[k] ELSE IF k = pos THEN c ELSE buffer[k - 1]
  <2> HIDE DEF n
  <2>1. pos \in Nat /\ n \in Nat /\ pos <= n
    BY <1>1
  <2> DEFINE b == [ShiftedRight(pos) EXCEPT ![pos] = c]
  <2>2. /\ TextEnd(b, m)
        /\ \A k \in Indices :
             b[k] = IF k < pos THEN buffer[k] ELSE IF k = pos THEN c ELSE buffer[k - 1]
    <3>1. TextEnd(buffer, n)
      BY <1>1
    <3> QED BY <1>2, <2>1, <3>1, Lengthened
  <2> QED BY <1>2, <2>2
<1>4. TextLen' = m
  <2> HIDE DEF m
  <2> QED BY <1>3, TextEndsOnce, TextLenEnds
<1> DEFINE p == pos + 1
           L(i) == IF i < p THEN Text[i] ELSE IF i = p THEN c ELSE Text[i - 1]
<1>5. longer = [i \in 1 .. n + 1 |-> L(i)]
  <2>1. p \in 1 .. n + 1
    BY <1>1
  <2> HIDE DEF p, n
  <2>3. Text \in Seq(Chars) /\ n \in Nat /\ Len(Text) = n
    BY <1>1
  <2>2. InsertAt(Text, p, c) =
          [i \in 1 .. n + 1 |-> IF i < p THEN Text[i] ELSE IF i = p THEN c ELSE Text[i - 1]]
    BY <2>1, <2>3, Inserted
  <2> QED BY <2>2 DEF p
<1>6. m \in Nat /\ m <= n + 1 /\ m <= BufSize /\ BufSize \in Nat /\ (n < BufSize => m = n + 1)
      /\ (~(n < BufSize) => m = n)
  BY <1>1, EditorAssumption
<1>7. ASSUME NEW i \in 1 .. m PROVE buffer'[i - 1] = L(i)
  <2> DEFINE k == i - 1
  <2>1. k \in Indices /\ (k < pos <=> i < p) /\ (k = pos <=> i = p) /\ i - 1 = k
    BY <1>1, <1>6 DEF Indices
  <2>2. buffer'[k] = IF k < pos THEN buffer[k] ELSE IF k = pos THEN c ELSE buffer[k - 1]
    BY <1>3, <2>1
  <2>3. k < pos => Text[i] = buffer[k]
    BY <1>1, <1>6
  <2>4. ~(k < pos) /\ k # pos => Text[k] = buffer[k - 1]
    BY <1>1, <1>6
  <2> HIDE DEF k, p
  <2> QED BY <2>1, <2>2, <2>3, <2>4
<1>8. Text' = [i \in 1 .. m |-> L(i)]
  <2>1. Text' = [i \in 1 .. m |-> buffer'[i - 1]]
    BY <1>4 DEF Text
  <2> HIDE DEF m, L
  <2> QED BY <1>7, <2>1
<1>9. longer \in Seq(Chars) /\ Len(longer) = n + 1
  <2>1. \A i \in 1 .. n + 1 : L(i) \in Chars
    BY <1>1
  <2>2. n + 1 \in Nat
    BY <1>1
  <2> HIDE DEF longer, L, n
  <2> QED BY <1>5, <2>1, <2>2
<1>10. Text' = IF Len(longer) > BufSize THEN Front(longer) ELSE longer
  <2>1. CASE n < BufSize
    BY <1>5, <1>6, <1>8, <1>9, <2>1
  <2>2. CASE ~(n < BufSize)
    <3>1. Front(longer) = [i \in 1 .. n |-> longer[i]]
      <4> HIDE DEF longer
      <4>1. Front(longer) = SubSeq(longer, 1, n) /\ n \in 0 .. Len(longer)
        BY <1>1, <1>9 DEF Front
      <4> HIDE DEF n
      <4> QED BY <1>9, <4>1, Cut
    <3>2. \A i \in 1 .. n : longer[i] = L(i)
      <4> HIDE DEF longer, L, n
      <4> QED BY <1>1, <1>5
    <3>3. m = n /\ Len(longer) > BufSize
      BY <1>1, <1>6, <1>9, <2>2
    <3> HIDE DEF longer, L, n, m
    <3> QED BY <1>8, <3>1, <3>2, <3>3
  <2> QED BY <2>1, <2>2
<1>11. Line!Edit(IF Len(longer) > BufSize THEN Front(longer) ELSE longer, pos + 1)
  <2> HIDE DEF longer
  <2> QED BY <1>2, <1>10, Zenon DEF Line!Edit, Text
<1> QED BY <1>2, <1>11, Zenon DEF Line!Insert, Line!InsertAt, InsertAt, Line!Front, Front, Text

(* So each step of the editor is a step of the line, or leaves it as it    *)
(* is.                                                                     *)
LEMMA StepRefines ==
  ASSUME IInv, ScreenInv, [Next]_vars
  PROVE  [Line!Next]_(Line!vars)
<1>1. CASE UNCHANGED vars
  <2>1. UNCHANGED <<buffer, pos, wild>>
    BY <1>1 DEF vars
  <2>2. TextLen' = TextLen
    BY <2>1, TextLenIs
  <2> QED BY <2>1, <2>2 DEF Line!vars
<1>2. CASE Next
  <2>1. ~wild
    BY <1>2 DEF Next
  <2>2. CASE KeyLeft \/ KeyRight \/ KeyHome \/ KeyEnd
    BY <2>1, <2>2, CursorKeysRefine DEF Line!Next
  <2>3. CASE KeyDelete \/ KeyBackspace \/ KeyEnter
    BY <2>1, <2>3, EditingKeysRefine DEF Line!Next
  <2>4. ASSUME NEW c \in Chars, KeyChar(c) PROVE Line!Next
    BY <2>1, <2>4, TypingRefines DEF Line!Next
  <2>5. CASE RunsWild
    <3>1. TextLen = BufSize /\ Len(Text) = TextLen
      <4>1. \A k \in 0 .. BufSize - 1 : buffer[k] # Nul
        BY <2>5, EditorAssumption DEF RunsWild, NoNulFrom, IInv, BufferOK, CursorInText, Indices
      <4> QED BY <4>1, TextIs DEF TextLen, NoNulFrom
    <3>2. wild' = TRUE /\ UNCHANGED <<buffer, pos>>
      BY <2>5 DEF RunsWild
    <3>3. TextLen' = TextLen
      BY <3>2, TextLenIs
    <3>4. Text' = Text
      BY <3>2, <3>3 DEF Text
    <3> QED BY <3>1, <3>2, <3>4 DEF Line!Next, Line!Lose, Text
  <2>6. CASE KeyIgnored
    BY <1>1, <2>6 DEF KeyIgnored
  <2> QED BY <1>2, <2>2, <2>3, <2>4, <2>5, <2>6 DEF Next
<1> QED BY <1>1, <1>2

(* For any buffer, screen and keys: seen through the text before its first *)
(* NUL, keyboard_update_command_line's array with its byte-by-byte shifts  *)
(* is an editable line, whose operations are those of EditLine.            *)
THEOREM EditorImplementsLine == Spec => ImplementsEditLine
<1>1. IInv /\ ScreenInv /\ [Next]_vars => [Line!Next]_(Line!vars)
  BY StepRefines
<1> QED BY <1>1, LineStarts, ScreenInvAlways, PTL DEF Spec, ImplementsEditLine, Line!Spec
=============================================================================
