------------------------------- MODULE Format -------------------------------
(***************************************************************************)
(* Text and numbers: vsprintf and vsnprintf of kernel/stdio.c one format   *)
(* character at a time, number_to_string under them, itoa of               *)
(* kernel/kernel.c and atoi of kernel/stdlib.c, over a word of any width.  *)
(* A text is a sequence of characters.                                     *)
(***************************************************************************)
EXTENDS Integers, Sequences, SequencesExt

CONSTANTS
  IntHalf,      \* 2^31: an int lies in -IntHalf .. IntHalf - 1
  Letters,      \* the characters formats and texts are made of
  Formats,      \* the format strings used
  Words,        \* the arguments: a word, as %d takes it and as %s does
  Rooms,        \* snprintf's size arguments
  Ample         \* more room than any text here takes: sprintf has no bound

ASSUME FormatAssumption ==
  /\ IntHalf \in Nat \ {0}
  /\ Formats \subseteq Seq(Letters)
  /\ Words \subseteq [d : -IntHalf .. IntHalf - 1, s : Seq(Letters)]
  /\ Ample \in Nat /\ Rooms \subseteq 0 .. Ample

VARIABLES
  printing,   \* the call: its function, room and arguments
  fmt_pos,    \* the format character read next
  taken,      \* the arguments taken so far
  str,        \* what has been written to the buffer
  phase       \* "idle", "running", "returned", or "lost": reading past the format's end

fmtVars == <<printing, fmt_pos, taken, str, phase>>

Nul == "NUL"
Stray == "stray"    \* a byte that happens to lie before the table of digits

\* At the build's optimisation level signed arithmetic wraps.
Wrap(n) == ((n + IntHalf) % (2 * IntHalf)) - IntHalf

Digit(d) ==
  <<"0", "1", "2", "3", "4", "5", "6", "7", "8", "9", "a", "b", "c", "d", "e", "f">>[d + 1]

Quotient(a, b) == IF a < 0 THEN -((-a) \div b) ELSE a \div b    \* C truncates

\* What the loops that take digits off a number have left after k rounds.
Left(num, base, k) ==
  LET left[j \in 0 .. k] == IF j = 0 THEN num ELSE Quotient(left[j - 1], base)
  IN  left[k]

\* The last digit first.
Digits(num, base) ==
  LET rounds == CHOOSE n \in 0 .. IntHalf :
                  ~ Left(num, base, n) > 0 /\ \A k \in 0 .. n - 1 : Left(num, base, k) > 0
  IN  [k \in 1 .. rounds |-> Digit(Left(num, base, k - 1) % base)]

NumberToString(num, base) ==
  LET magnitude == IF num < 0 THEN Wrap(-num) ELSE num IN
  IF magnitude = 0 THEN <<"0">>
  ELSE Reverse(Digits(magnitude, base) \o (IF num < 0 THEN <<"-">> ELSE <<>>))

Itoa(value, base) ==
  LET rounds == CHOOSE n \in 1 .. IntHalf :
                  Left(value, base, n) = 0 /\ \A k \in 1 .. n - 1 : Left(value, base, k) # 0
      Taken(k) == Left(value, base, k - 1) - Left(value, base, k) * base
  IN  Reverse([k \in 1 .. rounds |-> IF Taken(k) < 0 THEN Stray ELSE Digit(Taken(k))])

\* Where a loop that passes over characters of a set comes to its end.
Passed(text, start, S) ==
  CHOOSE e \in start .. Len(text) + 1 :
    /\ e <= Len(text) => text[e] \notin S
    /\ \A k \in start .. e - 1 : text[k] \in S

Decimals == {Digit(d) : d \in 0 .. 9}

\* The number in the digits text[i] .. text[j - 1].
Decimal(text, i, j) ==
  LET result[k \in i .. j] ==
        IF k = i THEN 0
        ELSE Wrap(result[k - 1] * 10 + (CHOOSE d \in 0 .. 9 : text[k - 1] = Digit(d)))
  IN  result[j]

Atoi(text) ==
  LET start == Passed(text, 1, {" ", "\t"})
      sign == IF start <= Len(text) /\ text[start] \in {"-", "+"} THEN <<text[start]>> ELSE <<>>
      first == start + Len(sign)
      result == Decimal(text, first, Passed(text, first, Decimals))
  IN  IF sign = <<"-">> THEN Wrap(-result) ELSE result

-----------------------------------------------------------------------------
FmtInit ==
  /\ printing = [fn |-> "none"]
  /\ fmt_pos = 1 /\ taken = 0 /\ str = <<>>
  /\ phase = "idle"

\* The arguments a caller passes: enough for the directives of the format.
Arguments(f) == [1 .. Len(f) \div 2 -> Words]

\* sprintf is called with ample room.  A size of zero returns at once.
Printf(size, f, args) ==
  /\ phase = "idle"
  /\ printing' = [format |-> f, size |-> size, fn |-> "printf", args |-> args]
  /\ fmt_pos' = 1 /\ taken' = 0 /\ str' = <<>>
  /\ phase' = IF size = 0 THEN "returned" ELSE "running"

(* Bug: the loop leaves no room for the terminator.                        *)
RoomForAll == printing.size - Len(str)

Room == printing.size - 1 - Len(str)

More == phase = "running" /\ fmt_pos <= Len(printing.format) /\ Room > 0
Char(i) == printing.format[i]

Clip(text, room) == SubSeq(text, 1, IF Len(text) < room THEN Len(text) ELSE room)

\* What a directive writes stops where the room does.
Put(text, length) ==
  /\ str' = str \o Clip(text, Room)
  /\ fmt_pos' = fmt_pos + length
  /\ UNCHANGED <<printing, phase>>

PutPlain ==
  /\ More /\ Char(fmt_pos) # "%"
  /\ Put(<<Char(fmt_pos)>>, 1)
  /\ UNCHANGED taken

Directive == More /\ Char(fmt_pos) = "%" /\ fmt_pos < Len(printing.format)
Argument == printing.args[taken + 1]

PutNumber ==
  /\ Directive /\ Char(fmt_pos + 1) = "d"
  /\ Put(NumberToString(Argument.d, 10), 2)
  /\ taken' = taken + 1

PutText ==
  /\ Directive /\ Char(fmt_pos + 1) = "s"
  /\ Put(Argument.s, 2)
  /\ taken' = taken + 1

\* %% and every unknown directive write the character after the percent sign.
PutLiteral ==
  /\ Directive /\ Char(fmt_pos + 1) \notin {"d", "s"}
  /\ Put(<<Char(fmt_pos + 1)>>, 2)
  /\ UNCHANGED taken

\* The character after the percent sign is the NUL: it is written, and passed.
PassTheEnd ==
  /\ More /\ Char(fmt_pos) = "%" /\ fmt_pos = Len(printing.format)
  /\ phase' = "lost"
  /\ str' = Append(str, Nul)
  /\ UNCHANGED <<printing, fmt_pos, taken>>

PrintReturns ==
  /\ phase = "running" /\ (fmt_pos > Len(printing.format) \/ Room = 0)
  /\ str' = Append(str, Nul)
  /\ phase' = "returned"
  /\ UNCHANGED <<printing, fmt_pos, taken>>

CallItoa(value, base) ==
  /\ phase = "idle"
  /\ printing' = [value |-> value, base |-> base, fn |-> "itoa"]
  /\ str' = Append(Itoa(value, base), Nul)
  /\ phase' = "returned"
  /\ UNCHANGED <<fmt_pos, taken>>

\* The caller has used the text; nothing is kept from one call to the next.
TextUsed ==
  /\ phase = "returned"
  /\ printing' = [fn |-> "none"]
  /\ fmt_pos' = 1 /\ taken' = 0 /\ str' = <<>>
  /\ phase' = "idle"

FmtNext ==
  \/ \E size \in Rooms \cup {Ample}, f \in Formats : \E args \in Arguments(f) : Printf(size, f, args)
  \/ PutPlain \/ PutNumber \/ PutText \/ PutLiteral \/ PassTheEnd \/ PrintReturns
  \/ \E word \in Words, base \in {10, 16} : CallItoa(word.d, base)
  \/ TextUsed

FmtSpec == FmtInit /\ [][FmtNext]_fmtVars

-----------------------------------------------------------------------------
Power(base, k) ==
  LET power[j \in 0 .. k] == IF j = 0 THEN 1 ELSE base * power[j - 1]
  IN  power[k]

\* As many digits as the number has, each by the power of the base at its place.
Unsigned(n, base) ==
  LET width == CHOOSE w \in 1 .. n + 1 :
                 n < Power(base, w) /\ (w > 1 => Power(base, w - 1) <= n)
  IN  [i \in 1 .. width |-> Digit((n \div Power(base, width - i)) % base)]

\* The least int, whose negation is itself, is the exception: it prints as a
\* lone minus sign.
Numeral(n, base) ==
  CASE n = -IntHalf -> <<"-">>
    [] n < 0 /\ n # -IntHalf -> <<"-">> \o Unsigned(-n, base)
    [] OTHER -> Unsigned(n, base)

\* The text of the first i characters of a format, the arguments they take,
\* and whether the last of them is a percent sign that waits for its letter.
Expanding(f, args) ==
  LET after[i \in 0 .. Len(f)] ==
        IF i = 0 THEN [text |-> <<>>, args |-> 0, percent |-> FALSE]
        ELSE LET l == after[i - 1]
                 Adds(piece, n) == [text |-> l.text \o piece, args |-> l.args + n, percent |-> FALSE]
             IN  CASE ~l.percent /\ f[i] = "%" -> [l EXCEPT !.percent = TRUE]
                   [] l.percent /\ f[i] = "d" -> Adds(Numeral(args[l.args + 1].d, 10), 1)
                   [] l.percent /\ f[i] = "s" -> Adds(args[l.args + 1].s, 1)
                   [] OTHER -> Adds(<<f[i]>>, 0)
  IN  after

Expansion(f, args) == Expanding(f, args)[Len(f)].text

(* A call of sprintf or snprintf that returns has written its format with  *)
(* the arguments in place, cut to the room with its terminator inside it   *)
(* (nothing at all into no room); itoa has written the numeral of its      *)
(* value, unless it is negative: then it indexes before its digits; and    *)
(* atoi reads back every number that was printed but the least.            *)
TextIsExpansion ==
  phase = "returned" =>
    CASE printing.fn = "printf" /\ printing.size = 0 -> str = <<>>
      [] printing.fn = "printf" /\ printing.size > 0 ->
           LET text == Expansion(printing.format, printing.args)
               room == printing.size - 1
           IN  /\ str = Append(Clip(text, room), Nul)
               /\ printing.format = <<"%", "d">> /\ room >= Len(text) =>
                    Atoi(str) = LET n == printing.args[1].d IN IF n = -IntHalf THEN 0 ELSE n
      [] printing.fn = "itoa" /\ printing.value >= 0 ->
           /\ str = Append(Numeral(printing.value, printing.base), Nul)
           /\ printing.base = 10 => Atoi(str) = printing.value
      [] OTHER -> TRUE
=============================================================================
