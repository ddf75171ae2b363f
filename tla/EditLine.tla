------------------------------ MODULE EditLine ------------------------------
(***************************************************************************)
(* What a line editor promises: a text and a cursor inside it, and the     *)
(* keys that edit them.  The text never grows past BufSize characters.  When   *)
(* it is BufSize long, and only then, the editor may be lost.                  *)
(***************************************************************************)
EXTENDS Integers, Sequences, SequencesExt

CONSTANTS BufSize, Chars

VARIABLES text, cursor, lost

vars == <<text, cursor, lost>>

Init == text = <<>> /\ cursor = 0 /\ lost = FALSE

Edit(newText, newCursor) ==
  /\ ~lost
  /\ text' = newText /\ cursor' = newCursor
  /\ UNCHANGED lost

(* What no longer fits falls off the end.                                  *)
Insert(c) ==
  /\ cursor < BufSize - 1
  /\ LET longer == InsertAt(text, cursor + 1, c)
     IN Edit(IF Len(longer) > BufSize THEN Front(longer) ELSE longer, cursor + 1)

Backspace == cursor > 0 /\ Edit(RemoveAt(text, cursor), cursor - 1)
Delete == cursor < Len(text) /\ Edit(RemoveAt(text, cursor + 1), cursor)
Move == \E c \in {cursor - 1, cursor + 1, 0, Len(text)} \cap (0 .. Len(text)) : Edit(text, c)

(* The line ends where it is entered.                                      *)
Enter == Edit(SubSeq(text, 1, cursor), cursor)

Lose == Len(text) = BufSize /\ lost' = TRUE /\ UNCHANGED <<text, cursor>>

Next == \/ \E c \in Chars : Insert(c)
        \/ Backspace \/ Delete \/ Move \/ Enter \/ Lose

Spec == Init /\ [][Next]_vars
=============================================================================
