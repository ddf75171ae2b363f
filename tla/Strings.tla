------------------------------ MODULE Strings -------------------------------
(***************************************************************************)
(* kernel/string.c over one small memory: every function as the loop the   *)
(* code runs, on any two addresses, overlapping ones included.  A loop     *)
(* that leaves the memory is Lost; callers that would do that are left     *)
(* out of the steps.                                                       *)
(***************************************************************************)
EXTENDS Integers, Sequences

CONSTANTS
  MemSize,    \* the bytes of memory
  ByteMod     \* 2^8; the byte 0 is NUL

ASSUME StringsAssumption == MemSize \in Nat \ {0} /\ ByteMod \in Nat \ {0, 1}

VARIABLE memory

strVars == <<memory>>

Addrs == 0 .. MemSize - 1
Counted == 0 .. MemSize
Vals == 0 .. 2 * ByteMod - 1     \* the int arguments: a byte and one past it
Lost == <<>>                     \* no memory

\* Memory may hold anything when it is first used as a string.
StrInit == memory \in [Addrs -> 0 .. ByteMod - 1]

-----------------------------------------------------------------------------
(* The functions that write: the memory they leave behind.                 *)

\* The memory after k rounds of the loop.
MemSet(m, d, val, n) ==
  LET after[k \in 0 .. n] ==
        IF k = 0 THEN m ELSE [after[k - 1] EXCEPT ![d + k - 1] = val % ByteMod]
  IN  IF d + n <= MemSize THEN after[n] ELSE Lost

MemCpy(m, d, s, n) ==
  LET after[k \in 0 .. n] ==
        IF k = 0 THEN m
        ELSE LET w == after[k - 1] IN [w EXCEPT ![d + k - 1] = w[s + k - 1]]
  IN  IF d + n <= MemSize /\ s + n <= MemSize THEN after[n] ELSE Lost

\* The loop of strcpy, strncpy, strcat and strncat: up to n characters, until
\* a NUL has been copied.
CopyChars(m, d, s, n) ==
  LET after[k \in 0 .. n] ==
        IF k = 0 THEN [mem |-> m, copied |-> 0, ended |-> FALSE]
        ELSE LET l == after[k - 1] IN
             IF l.ended \/ l.mem = Lost THEN l
             ELSE IF ~ {d + k - 1, s + k - 1} \subseteq Addrs THEN [l EXCEPT !.mem = Lost]
             ELSE [mem |-> [l.mem EXCEPT ![d + k - 1] = l.mem[s + k - 1]],
                   copied |-> k, ended |-> l.mem[s + k - 1] = 0]
  IN  after[n]

StrCpy(m, d, s) == CopyChars(m, d, s, MemSize + 1).mem

(* Bug: what follows the copied terminator is left as it was.              *)
StrNCpyUnpadded(m, d, s, n) == CopyChars(m, d, s, n).mem

StrNCpy(m, d, s, n) ==
  LET l == CopyChars(m, d, s, n)
  IN  IF l.mem = Lost THEN Lost ELSE MemSet(l.mem, d + l.copied, 0, n - l.copied)

\* strlen, and the first loop of strcat and strncat: where the string ends.
EndOfStr(m, s) ==
  LET from[a \in Counted] == IF a \in Addrs /\ m[a] # 0 THEN from[a + 1] ELSE a
  IN  from[s]

StrCat(m, d, s) == StrCpy(m, EndOfStr(m, d), s)

StrNCat(m, d, s, n) ==
  LET e == EndOfStr(m, d)
      l == CopyChars(m, e, s, n)
  IN  IF l.ended \/ l.mem = Lost THEN l.mem
      ELSE IF e + n \in Addrs THEN [l.mem EXCEPT ![e + n] = 0] ELSE Lost

-----------------------------------------------------------------------------
(* The functions that only read: what the loop answers from one round on.  *)
(* NULL is -1.                                                             *)

StrLen(m, s) == EndOfStr(m, s) - s

MemCmp(m, p, q, n) ==
  LET from[k \in 0 .. n] ==
        IF k < n /\ m[p + k] = m[q + k] THEN from[k + 1]
        ELSE IF k = n THEN 0 ELSE IF m[p + k] < m[q + k] THEN -1 ELSE 1
  IN  from[0]

StrCmp(m, p, q) ==
  LET from[k \in Counted] ==
        IF {p + k, q + k} \subseteq Addrs /\ m[p + k] # 0 /\ m[p + k] = m[q + k] THEN from[k + 1]
        ELSE m[p + k] - m[q + k]
  IN  from[0]

StrNCmp(m, p, q, n) ==
  LET from[k \in 0 .. n] ==
        IF k < n /\ m[p + k] = m[q + k] /\ m[p + k] # 0 THEN from[k + 1]
        ELSE IF k = n THEN 0 ELSE m[p + k] - m[q + k]
  IN  from[0]

StrChr(m, s, ch) ==
  LET from[a \in Counted] ==
        IF a \in Addrs /\ m[a] \notin {0, ch % ByteMod} THEN from[a + 1]
        ELSE IF m[a] = ch % ByteMod THEN a ELSE -1
  IN  from[s]

\* The last character found before an address.
StrRChr(m, s, ch) ==
  LET last[a \in s .. MemSize] ==
        IF a = s THEN -1 ELSE IF m[a - 1] = ch % ByteMod THEN a - 1 ELSE last[a - 1]
  IN  last[EndOfStr(m, s)]

\* The inner loop of strstr: the second string is used up.
StartsWith(m, p, q) ==
  LET from[k \in Counted] ==
        IF {p + k, q + k} \subseteq Addrs /\ 0 \notin {m[p + k], m[q + k]} /\ m[p + k] = m[q + k]
        THEN from[k + 1] ELSE m[q + k] = 0
  IN  from[0]

Search(m, p, q) ==
  LET from[a \in Counted] ==
        IF a \in Addrs /\ m[a] # 0 /\ ~ StartsWith(m, a, q) THEN from[a + 1]
        ELSE IF a \in Addrs /\ m[a] # 0 THEN a ELSE -1
  IN  from[p]

StrStr(m, p, q) == IF m[q] = 0 THEN p ELSE Search(m, p, q)

-----------------------------------------------------------------------------
\* A call that stays inside the memory; the read-only functions change nothing.
Leaves(m) == m # Lost /\ memory' = m

StrNext ==
  \E d \in Addrs :
    \/ \E val \in Vals, n \in Counted : Leaves(MemSet(memory, d, val, n))
    \/ \E s \in Addrs : Leaves(StrCpy(memory, d, s)) \/ Leaves(StrCat(memory, d, s))
    \/ \E s \in Addrs, n \in Counted :
         \/ Leaves(MemCpy(memory, d, s, n))
         \/ Leaves(StrNCpy(memory, d, s, n))
         \/ Leaves(StrNCat(memory, d, s, n))

StrSpec == StrInit /\ [][StrNext]_strVars

-----------------------------------------------------------------------------
(* What the C library says of these calls, without loops.                  *)

IsStr(s) == \E e \in s .. MemSize - 1 : memory[e] = 0
EndAt(s) == CHOOSE e \in s .. MemSize - 1 : memory[e] = 0 /\ \A k \in s .. e - 1 : memory[k] # 0
Text(s) == [k \in 1 .. EndAt(s) - s |-> memory[s + k - 1]]

Over(d, text) ==
  [a \in Addrs |-> IF a \in d .. d + Len(text) - 1 THEN text[a - d + 1] ELSE memory[a]]
Inside(a, n) == a + n <= MemSize
Apart(d, n, s, k) == d + n <= s \/ s + k <= d

\* The first n characters of a string and as many NULs as are wanted after it.
Padded(text, n) == [k \in 1 .. n |-> IF k <= Len(text) THEN text[k] ELSE 0]
Cut(text, n) == SubSeq(text, 1, IF n < Len(text) THEN n ELSE Len(text))

(* Two sequences of bytes in the order of their first difference.           *)
Ordered(p, q, result) ==
  LET Before(x, y) == \E k \in 1 .. Len(y) :
                        /\ \A j \in 1 .. k - 1 : j <= Len(x) /\ x[j] = y[j]
                        /\ k > Len(x) \/ x[k] < y[k]
  IN  (result < 0 <=> Before(p, q)) /\ (result > 0 <=> Before(q, p))

(* Every copying function writes what the C library promises, and nothing  *)
(* else: strcpy and strcat the string with its terminator, strncat at most *)
(* n characters and always a terminator, strncpy exactly n bytes (no        *)
(* terminator when the string fills them, NULs when it is shorter), memset *)
(* the low byte of its value.  Overlapping arguments are undefined and     *)
(* excluded.                                                               *)
CopiesAreFaithful ==
  \A d, s \in Addrs, n \in Counted :
    /\ Inside(d, n) /\ Inside(s, n) /\ Apart(d, n, s, n) =>
         MemCpy(memory, d, s, n) = Over(d, [k \in 1 .. n |-> memory[s + k - 1]])
    /\ Inside(d, n) => \A val \in Vals :
         MemSet(memory, d, val, n) = Over(d, [k \in 1 .. n |-> val % ByteMod])
    /\ IsStr(s) =>
         LET text == Text(s)  size == Len(text) + 1 IN
         /\ Inside(d, size) /\ Apart(d, size, s, size) =>
              StrCpy(memory, d, s) = Over(d, Append(text, 0))
         /\ Inside(d, n) /\ Apart(d, n, s, size) =>
              StrNCpy(memory, d, s, n) = Over(d, Padded(text, n))
         /\ IsStr(d) /\ Inside(EndAt(d), size) /\ Apart(d, EndAt(d) - d + size, s, size) =>
              /\ StrCat(memory, d, s) = Over(EndAt(d), Append(text, 0))
              /\ StrNCat(memory, d, s, n) = Over(EndAt(d), Append(Cut(text, n), 0))

(* Every reading function answers what the C library promises: lengths,    *)
(* the sign of a comparison, the first and last occurrence (strrchr of the *)
(* terminator is the exception: the code answers NULL) and the first place *)
(* where one string occurs in another.                                     *)
SearchesAgree ==
  /\ \A p, q \in Addrs, n \in Counted :
       Inside(p, n) /\ Inside(q, n) =>
         Ordered([k \in 1 .. n |-> memory[p + k - 1]], [k \in 1 .. n |-> memory[q + k - 1]],
                 MemCmp(memory, p, q, n))
  /\ \A p \in {a \in Addrs : IsStr(a)} :
       /\ StrLen(memory, p) = Len(Text(p))
       /\ \A ch \in Vals :
            LET at == {k \in p .. EndAt(p) : memory[k] = ch % ByteMod} IN
            /\ LET k == StrChr(memory, p, ch) IN
               IF at = {} THEN k = -1 ELSE k \in at /\ \A j \in at : k <= j
            /\ LET k == StrRChr(memory, p, ch) IN
               IF at = {} \/ ch % ByteMod = 0 THEN k = -1 ELSE k \in at /\ \A j \in at : j <= k
       /\ \A q \in {a \in Addrs : IsStr(a)} :
            /\ Ordered(Text(p), Text(q), StrCmp(memory, p, q))
            /\ \A n \in Counted :
                 Ordered(Cut(Text(p), n), Cut(Text(q), n), StrNCmp(memory, p, q, n))
            /\ LET at == {k \in p .. EndAt(p) : Cut(Text(k), Len(Text(q))) = Text(q)}
                   k == StrStr(memory, p, q)
               IN  IF at = {} THEN k = -1 ELSE k \in at /\ \A j \in at : k <= j

(* The functions of kernel/string.c keep the C library's promises on every *)
(* memory, in what they write and in what they answer. Where nobody uses   *)
(* them (see Parts) there is no memory.                                    *)
StringFunctionsAgree == memory # Lost => CopiesAreFaithful /\ SearchesAgree
=============================================================================
