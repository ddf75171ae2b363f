----------------------------- MODULE ShellProofs -----------------------------
(***************************************************************************)
(* The shell and the keyboard's interrupt, for a command buffer of any     *)
(* length and any table of scancodes: a line is kept as it was typed, the  *)
(* handler is not entered again, and with no interrupts no byte is read    *)
(* twice.                                                                  *)
(***************************************************************************)
EXTENDS Shell, TLAPS

(* While the handler runs, the gate keeps further interrupts out; without  *)
(* interrupts, only the main thread takes the byte it has seen waiting.    *)
KeysInv ==
  /\ KeyboardTypeOK
  /\ handler # "none" => ~enabled
  /\ PolledByteIsFresh

(* The line is the buffer up to the index, and there is room for its NUL.  *)
Matches == Len(typed) = i /\ \A k \in 1 .. i : typed[k] = command[k - 1]

LineInv ==
  /\ main \in {"init", "poll", "take", "line", "halted", "lost"}
  /\ command \in [Indices -> Characters]
  /\ i \in Indices
  /\ typed \in Seq(Text)
  /\ main = "init" => i = 0
  /\ main \in {"init", "poll", "take", "line"} => Matches
  /\ main \in {"init", "poll", "take"} => i < MaxLength - 1
  /\ main = "line" => command[i] = Nul
  /\ HaltsOnlyWhenTold

-----------------------------------------------------------------------------
(* The keyboard.                                                           *)

LEMMA ReadPortTypes ==
  ASSUME KeyboardTypeOK, ReadPort
  PROVE  /\ obf' \in Scancodes \cup {None} /\ last' \in Scancodes
         /\ PortByte \in Scancodes
BY DEF KeyboardTypeOK, ReadPort, PortByte

LEMMA KeysStart == Init => KeysInv
BY DEF Init, KeyboardInit, KeysInv, KeyboardTypeOK, PolledByteIsFresh, Scancodes

LEMMA MainKeepsKeys == ASSUME KeysInv, Main PROVE KeysInv'
<1> USE DEF Main, KeysInv
<1>1. UNCHANGED <<raised, in_service, enabled, handler>>
  BY DEF Drain, Poll, Take, HandleLine, keyboardVars
<1>2. obf' \in Scancodes \cup {None} /\ last' \in Scancodes
  BY ReadPortTypes DEF Drain, Poll, Take, HandleLine, keyboardVars, KeyboardTypeOK
<1>3. main' = "take" => obf' # None
  <2>1. CASE Drain
    BY <2>1 DEF Drain
  <2>2. CASE Poll
    BY <2>2 DEF Poll, CanRead, keyboardVars
  <2>3. CASE Take
    BY <2>3 DEF Take, EndLine, EraseOne, Store
  <2>4. CASE HandleLine
    BY <2>4 DEF HandleLine, AfterCommand
  <2> QED BY <2>1, <2>2, <2>3, <2>4
<1> QED BY <1>1, <1>2, <1>3 DEF KeyboardTypeOK, PolledByteIsFresh

LEMMA ServiceKeepsKeys == ASSUME KeysInv, Service PROVE KeysInv'
<1> USE DEF Service, KeysInv
<1>1. KeyboardTypeOK'
  BY ReadPortTypes DEF KeyboardTypeOK, Interrupt, EnabledByGate, Handler, HandlerEoi, HandlerRead,
                       HandlerPoll, HandlerTake, HandlerReturn
<1>2. (handler' # "none" => ~enabled') /\ (handler' = "none" => enabled')
  BY DEF KeyboardTypeOK, Interrupt, EnabledByGate, Handler, HandlerEoi, HandlerRead,
         HandlerPoll, HandlerTake, HandlerReturn
<1> QED BY <1>1, <1>2 DEF PolledByteIsFresh

LEMMA KeyByteKeepsKeys ==
  ASSUME KeysInv, KeyByte, UNCHANGED shellVars PROVE KeysInv'
BY KeyboardAssumption
   DEF KeysInv, KeyByte, shellVars, KeyboardTypeOK, PolledByteIsFresh, Scancodes

LEMMA KeysInvAlways == Spec => []KeysInv
<1>1. KeysInv /\ [Next]_vars => KeysInv'
  <2>1. ASSUME KeysInv, UNCHANGED vars PROVE KeysInv'
    BY <2>1 DEF vars, keyboardVars, shellVars, KeysInv, KeyboardTypeOK, PolledByteIsFresh
  <2> QED BY <2>1, MainKeepsKeys, ServiceKeepsKeys, KeyByteKeepsKeys DEF Next
<1> QED BY <1>1, KeysStart, PTL DEF Spec

(* Without interrupts keyboard_getchar reads no byte a second time         *)
(* (keyboard.c:151).                                                       *)
THEOREM PolledByteIsFreshAlways == Spec => []PolledByteIsFresh
<1>1. KeysInv => PolledByteIsFresh
  BY DEF KeysInv
<1> QED BY <1>1, KeysInvAlways, PTL

(* The handler, which acknowledges first and waits for keys, is not        *)
(* entered while it runs (interrupt_handlers.c:88).                        *)
THEOREM HandlerNotReenteredAlways == Spec => HandlerNotReentered
<1>1. KeysInv /\ [Next]_vars =>
        [handler # "none" => handler' # "eoi" \/ handler = "eoi"]_keyboardVars
  <2> SUFFICES ASSUME KeysInv, [Next]_vars, handler # "none", handler' = "eoi"
               PROVE  handler = "eoi" \/ UNCHANGED keyboardVars
    OBVIOUS
  <2>1. CASE Main
    BY <2>1 DEF Main
  <2>2. CASE Service
    BY <2>2 DEF KeysInv, Service, Interrupt, Handler, HandlerEoi, HandlerRead, HandlerPoll,
                HandlerTake, HandlerReturn
  <2>3. CASE KeyByte
    BY <2>3 DEF KeyByte
  <2>4. CASE UNCHANGED vars
    BY <2>4 DEF vars
  <2> QED BY <2>1, <2>2, <2>3, <2>4 DEF Next
<1> QED BY <1>1, KeysInvAlways, PTL DEF Spec, HandlerNotReentered

-----------------------------------------------------------------------------
(* The line.                                                               *)

LEMMA IndexFacts ==
  /\ MaxLength \in Nat /\ MaxLength >= 2
  /\ \A n : n \in Indices <=> n \in Nat /\ n < MaxLength
BY ShellAssumption DEF Indices

LEMMA LineStarts == Init => LineInv
<1> SUFFICES ASSUME Init PROVE LineInv
  OBVIOUS
<1>1. command \in [Indices -> Characters]
  BY DEF Init, Text, Characters
<1>2. i \in Indices /\ i < MaxLength - 1 /\ i = 0
  BY IndexFacts DEF Init
<1>3. typed \in Seq(Text) /\ Matches
  BY DEF Init, Matches
<1> QED BY <1>1, <1>2, <1>3 DEF Init, LineInv, HaltsOnlyWhenTold

LEMMA EnterKeeps ==
  ASSUME LineInv, main = "take", EndLine(command, i), UNCHANGED typed PROVE LineInv'
<1> USE IndexFacts DEF LineInv, EndLine
<1>1. command' \in [Indices -> Characters] /\ command'[i] = Nul
  BY DEF Characters
<1>2. \A k \in 1 .. i : k - 1 \in Indices /\ k - 1 # i
  OBVIOUS
<1>3. Matches'
  BY <1>2 DEF Matches
<1> QED BY <1>1, <1>3 DEF HaltsOnlyWhenTold

LEMMA EraseKeeps ==
  ASSUME LineInv, main = "take", EraseOne,
         typed' = IF typed = <<>> THEN typed ELSE Front(typed)
  PROVE  LineInv'
<1> USE IndexFacts DEF LineInv, EraseOne
<1>1. CASE i > 0
  <2>1. Len(typed) = i /\ typed # <<>>
    BY <1>1 DEF Matches
  <2>2. typed' = SubSeq(typed, 1, i - 1)
    BY <2>1 DEF Front
  <2>3. /\ typed' \in Seq(Text) /\ Len(typed') = i - 1
        /\ \A k \in 1 .. i - 1 : typed'[k] = typed[k]
    BY <1>1, <2>1, <2>2
  <2>4. i' = i - 1 /\ command' = [command EXCEPT ![i - 1] = Nul] /\ i - 1 \in Indices
    BY <1>1
  <2>5. command' \in [Indices -> Characters]
    BY <2>4 DEF Characters
  <2>6. \A k \in 1 .. i - 1 : k - 1 \in Indices /\ k - 1 # i - 1 /\ k \in 1 .. i
    OBVIOUS
  <2>7. Matches'
    BY <2>3, <2>4, <2>6 DEF Matches
  <2> QED BY <2>3, <2>4, <2>5, <2>7 DEF HaltsOnlyWhenTold
<1>2. CASE ~(i > 0)
  <2>1. i = 0 /\ UNCHANGED <<i, command>>
    BY <1>2
  <2>2. Len(typed) = 0
    BY <2>1 DEF Matches
  <2>3. typed' = typed
    BY <2>2
  <2> QED BY <2>1, <2>3 DEF Matches, HaltsOnlyWhenTold
<1> QED BY <1>1, <1>2

LEMMA BelowIndex ==
  ASSUME NEW n \in Indices, NEW k \in 0 .. n - 1
  PROVE  k \in Indices /\ k # n /\ k # n + 1
<1>1. n \in Nat /\ n < MaxLength /\ MaxLength \in Nat
  BY IndexFacts
<1>2. k \in Nat /\ k < n
  BY <1>1
<1> QED BY <1>1, <1>2, IndexFacts

LEMMA StoreKeeps ==
  ASSUME LineInv, main = "take", NEW ch \in Text, Store(ch), typed' = Append(typed, ch)
  PROVE  LineInv'
<1> USE IndexFacts DEF LineInv
<1>1. i + 1 \in Indices /\ i' = i + 1
  <2>1. i' = i + 1
    BY DEF Store, EndLine
  <2>2. i \in Nat /\ i < MaxLength - 1
    OBVIOUS
  <2> QED BY <2>1, <2>2
<1>2. Len(typed) = i
  BY DEF Matches
<1>3. /\ typed' \in Seq(Text) /\ Len(typed') = i + 1 /\ typed'[i + 1] = ch
      /\ \A k \in 1 .. i : typed'[k] = typed[k]
  BY <1>2
<1>4. /\ command' \in [Indices -> Characters]
      /\ command'[i] = ch
      /\ \A k \in 0 .. i - 1 : command'[k] = command[k]
  <2>1. CASE i + 1 = MaxLength - 1
    <3>1. command' = [[command EXCEPT ![i] = ch] EXCEPT ![i + 1] = Nul]
      BY <2>1 DEF Store, EndLine
    <3>2. i \in Nat
      OBVIOUS
    <3>3. ASSUME NEW k \in 0 .. i - 1 PROVE k \in Indices /\ k # i /\ k # i + 1
      BY <3>3, BelowIndex
    <3>4. i # i + 1
      BY <3>2
    <3> QED BY <1>1, <3>1, <3>2, <3>3, <3>4 DEF Text, Characters
  <2>2. CASE i + 1 # MaxLength - 1
    <3>1. command' = [command EXCEPT ![i] = ch]
      BY <2>2 DEF Store
    <3>2. \A k \in 0 .. i - 1 : k \in Indices /\ k # i
      OBVIOUS
    <3> QED BY <3>1, <3>2 DEF Text, Characters
  <2> QED BY <2>1, <2>2
<1>5. Matches'
  <2>1. ASSUME NEW k \in 1 .. i + 1 PROVE typed'[k] = command'[k - 1]
    <3>1. CASE k = i + 1
      BY <1>3, <1>4, <3>1
    <3>2. CASE k # i + 1
      BY <1>3, <1>4, <3>2 DEF Matches
    <3> QED BY <3>1, <3>2
  <2> QED BY <1>1, <1>3, <2>1 DEF Matches
<1>6. CASE i + 1 = MaxLength - 1
  <2>1. main' = "line" /\ command'[i + 1] = Nul
    BY <1>1, <1>6 DEF Store, EndLine
  <2> QED BY <1>1, <1>3, <1>4, <1>5, <2>1 DEF HaltsOnlyWhenTold
<1>7. CASE i + 1 # MaxLength - 1
  <2>1. main' = "poll" /\ i + 1 < MaxLength - 1
    BY <1>1, <1>7 DEF Store
  <2> QED BY <1>1, <1>3, <1>4, <1>5, <2>1 DEF HaltsOnlyWhenTold
<1> QED BY <1>6, <1>7

(* A string in the buffer ends at its first NUL: there is only one.        *)
LEMMA OneString ==
  ASSUME LineInv, main = "line"
  PROVE  /\ StringLengths = {i}
         /\ typed = [k \in 1 .. i |-> command[k - 1]]
<1> USE IndexFacts DEF LineInv
<1>1. typed = [k \in 1 .. i |-> command[k - 1]]
  BY DEF Matches
<1>2. ASSUME NEW k \in 0 .. i - 1 PROVE command[k] # Nul
  <2>1. k + 1 \in 1 .. i /\ typed[k + 1] = command[k]
    BY DEF Matches
  <2>2. typed[k + 1] \in Text
    BY <2>1 DEF Matches
  <2> QED BY <2>1, <2>2 DEF Text
<1>3. i \in StringLengths
  BY <1>2 DEF StringLengths
<1>4. ASSUME NEW n \in StringLengths PROVE n = i
  <2>1. n \in Indices /\ command[n] = Nul /\ \A k \in 0 .. n - 1 : command[k] # Nul
    BY DEF StringLengths
  <2>2. ~(n < i)
    BY <1>2, <2>1
  <2>3. ~(i < n)
    BY <2>1
  <2> QED BY <2>1, <2>2, <2>3
<1> QED BY <1>1, <1>3, <1>4

LEMMA HandleLineKeeps == ASSUME LineInv, HandleLine PROVE LineInv'
<1>1. main = "line" /\ i' = 0 /\ command' = command
  BY DEF HandleLine
<1>2. ASSUME NEW word, Holds(word) PROVE typed = word
  BY <1>1, <1>2, OneString DEF Holds
<1>3. CASE main' = "poll"
  <2>1. typed' = <<>>
    BY <1>3 DEF HandleLine
  <2>2. typed' \in Seq(Text) /\ Matches'
    BY <1>1, <2>1 DEF Matches
  <2> QED BY <1>1, <1>3, <2>2, IndexFacts DEF LineInv, HaltsOnlyWhenTold
<1>4. CASE main' # "poll"
  <2>1. main' = AfterCommand /\ typed' = typed
    BY <1>4 DEF HandleLine
  <2>2. \/ main' = "lost" /\ typed = InstallWord
        \/ main' = "halted" /\ typed = ExitWord
    BY <1>2, <1>4, <2>1 DEF AfterCommand
  <2> QED BY <1>1, <2>1, <2>2, IndexFacts DEF LineInv, HaltsOnlyWhenTold
<1> QED BY <1>3, <1>4

LEMMA MainKeepsLine == ASSUME LineInv, Main PROVE LineInv'
<1>1. CASE Drain
  <2>1. UNCHANGED <<command, i, typed>> /\ main = "init" /\ main' \in {"init", "poll"}
    BY <1>1 DEF Drain
  <2> QED BY <2>1 DEF LineInv, Matches, HaltsOnlyWhenTold
<1>2. CASE Poll
  <2>1. UNCHANGED <<command, i, typed>> /\ main = "poll" /\ main' = "take"
    BY <1>2 DEF Poll
  <2> QED BY <2>1 DEF LineInv, Matches, HaltsOnlyWhenTold
<1>3. CASE Take
  <2>1. CASE EndLine(command, i) /\ UNCHANGED typed
    BY <1>3, <2>1, EnterKeeps DEF Take
  <2>2. CASE EraseOne /\ typed' = IF typed = <<>> THEN typed ELSE Front(typed)
    BY <1>3, <2>2, EraseKeeps DEF Take
  <2>3. CASE main' = "poll" /\ UNCHANGED <<command, i, typed>>
    BY <1>3, <2>3 DEF Take, LineInv, Matches, HaltsOnlyWhenTold
  <2>4. CASE \E ch \in Text : Store(ch) /\ typed' = Append(typed, ch)
    BY <1>3, <2>4, StoreKeeps DEF Take
  <2> QED BY <1>3, <2>1, <2>2, <2>3, <2>4 DEF Take
<1>4. CASE HandleLine
  BY <1>4, HandleLineKeeps
<1> QED BY <1>1, <1>2, <1>3, <1>4 DEF Main

LEMMA LineInvAlways == Spec => []LineInv
<1>1. LineInv /\ [Next]_vars => LineInv'
  <2>1. ASSUME LineInv, UNCHANGED shellVars PROVE LineInv'
    BY <2>1 DEF shellVars, LineInv, Matches, HaltsOnlyWhenTold
  <2>2. (Service \/ (KeyByte /\ UNCHANGED shellVars) \/ UNCHANGED vars) => UNCHANGED shellVars
    BY DEF Service, vars
  <2> QED BY <2>1, <2>2, MainKeepsLine DEF Next
<1> QED BY <1>1, LineStarts, PTL DEF Spec

(* keyboard_getline keeps the line as it was typed and handle_command runs *)
(* that line, for a buffer of any length (keyboard.c:246, kernel.c:273).   *)
THEOREM LineIsKeptAlways == Spec => []LineIsKept
<1>1. KeysInv /\ LineInv => LineIsKept
  <2> SUFFICES ASSUME KeysInv, LineInv PROVE LineIsKept
    OBVIOUS
  <2>1. TypeOK /\ HaltsOnlyWhenTold
    BY DEF KeysInv, LineInv, TypeOK
  <2>2. main \in {"poll", "take", "line"} => typed = [k \in 1 .. i |-> command[k - 1]]
    BY DEF LineInv, Matches
  <2>3. main = "line" => Holds(typed)
    BY OneString DEF Holds
  <2> QED BY <2>1, <2>2, <2>3 DEF LineIsKept, LineIsWhatWasTyped
<1> QED BY <1>1, KeysInvAlways, LineInvAlways, PTL
=============================================================================
