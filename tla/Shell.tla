-------------------------------- MODULE Shell --------------------------------
(***************************************************************************)
(* kernel_main behind its magic check: keyboard_init, then a loop that     *)
(* prompts, reads a line with keyboard_getline and hands it to             *)
(* handle_command.  What is printed is left out.                           *)
(***************************************************************************)
EXTENDS Keyboard, Sequences, SequencesExt

CONSTANTS
  MaxLength,          \* sizeof(command)
  Enter, Erase,       \* the characters '\n' and '\b'
  InstallWord, ExitWord  \* the two commands that do more than print

ASSUME ShellAssumption ==
  /\ MaxLength \in Nat /\ MaxLength >= 2
  /\ Enter # Nul /\ Erase # Nul /\ Enter # Erase

VARIABLES
  main,        \* where the main thread is
  command,     \* the array of kernel_main: uninitialised at first
  i,           \* keyboard_getline's index
  typed        \* history: the line as it was typed, corrections made

shellVars == <<main, command, i, typed>>
vars == <<keyboardVars, shellVars>>

Indices == 0 .. MaxLength - 1
Characters == {Decode[k] : k \in DOMAIN Decode} \cup {Nul}
Text == Characters \ {Nul, Enter, Erase}

Init ==
  /\ KeyboardInit
  /\ main = "init"
  /\ command \in {[k \in Indices |-> c] : c \in Text \cup {Nul}}
  /\ i = 0 /\ typed = <<>>

(* keyboard_init empties the output buffer.                                *)
Drain ==
  /\ main = "init"
  /\ IF obf # None THEN ReadPort /\ UNCHANGED main
                   ELSE main' = "poll" /\ UNCHANGED <<obf, last>>
  /\ UNCHANGED <<raised, in_service, enabled, handler, command, i, typed>>

-----------------------------------------------------------------------------
(* keyboard_getline, on top of keyboard_getchar.                           *)

(* Bug: the status is not waited for.                                      *)
CanReadAtOnce == TRUE

(* Bug: the bit tested is the one of the other buffer, which is empty.     *)
CanReadWrongBit == FALSE

CanRead == obf # None

Poll ==
  /\ main = "poll" /\ CanRead
  /\ main' = "take"
  /\ UNCHANGED <<keyboardVars, command, i, typed>>

(* The line ends at index n.                                               *)
EndLine(c, n) ==
  /\ command' = [c EXCEPT ![n] = Nul]
  /\ i' = n /\ main' = "line"

(* Bug: the NUL that ends a full line is left out.                         *)
StoreUnterminated(ch) ==
  /\ command' = [command EXCEPT ![i] = ch]
  /\ i' = i + 1
  /\ main' = IF i + 1 = MaxLength - 1 THEN "line" ELSE "poll"

(* A line that has filled the buffer is returned at once.                  *)
Store(ch) ==
  IF i + 1 = MaxLength - 1
    THEN EndLine([command EXCEPT ![i] = ch], i + 1)
    ELSE /\ command' = [command EXCEPT ![i] = ch]
         /\ i' = i + 1 /\ main' = "poll"

EraseOne ==
  /\ IF i > 0 THEN i' = i - 1 /\ command' = [command EXCEPT ![i - 1] = Nul]
              ELSE UNCHANGED <<i, command>>
  /\ main' = "poll"

Take ==
  /\ main = "take" /\ ReadPort
  /\ LET ch == CharOf(PortByte)
     IN \/ ch = Enter /\ EndLine(command, i) /\ UNCHANGED typed
        \/ ch = Erase /\ EraseOne /\ typed' = IF typed = <<>> THEN typed ELSE Front(typed)
        \/ ch = Nul /\ main' = "poll" /\ UNCHANGED <<command, i, typed>>
        \/ ch \in Text /\ Store(ch) /\ typed' = Append(typed, ch)
  /\ UNCHANGED <<raised, in_service, enabled, handler>>

-----------------------------------------------------------------------------
(* handle_command.                                                         *)

(* What strcmp sees: the characters before the first NUL.                  *)
StringLengths == {n \in Indices : command[n] = Nul /\ \A k \in 0 .. n - 1 : command[k] # Nul}

Holds(word) == \E n \in StringLengths : word = [k \in 1 .. n |-> command[k - 1]]

(* "install" looks for drives: bios_call clears the data segments and      *)
(* raises interrupt 0x13 in protected mode.  No handler serves it, and the *)
(* results could not be stored: the program is lost there, in a reset or   *)
(* in the endless loop of an exception.  "exit" stops the processor.       *)
AfterCommand ==
  CASE Holds(InstallWord) -> "lost" [] Holds(ExitWord) -> "halted" [] OTHER -> "poll"

(* An empty line is not handled.                                           *)
HandleLine ==
  /\ main = "line"
  /\ main' = IF i > 0 THEN AfterCommand ELSE "poll"
  /\ i' = 0
  /\ typed' = IF main' = "poll" THEN <<>> ELSE typed
  /\ UNCHANGED <<keyboardVars, command>>

Main == handler = "none" /\ (Drain \/ Poll \/ Take \/ HandleLine)

(* A processor that halts still answers interrupts.                        *)
Service == main # "lost" /\ (Interrupt \/ Handler) /\ UNCHANGED shellVars

Next == Main \/ Service \/ (KeyByte /\ UNCHANGED shellVars)

(* The processor runs, whichever of the two it is running.                 *)
Spec == Init /\ [][Next]_vars /\ WF_vars(Main) /\ WF_vars(Service)
-----------------------------------------------------------------------------
TypeOK ==
  /\ KeyboardTypeOK
  /\ main \in {"init", "poll", "take", "line", "halted", "lost"}
  /\ command \in [Indices -> Characters]
  /\ i \in Indices
  /\ typed \in Seq(Text)

(* While a line is read, the buffer holds what was typed so far, however   *)
(* it was corrected; when it has been read, the buffer is that string, its *)
(* NUL in place, also when it filled the buffer.                           *)
LineIsWhatWasTyped ==
  /\ main \in {"poll", "take", "line"} => typed = [k \in 1 .. i |-> command[k - 1]]
  /\ main = "line" => Holds(typed)

(* The machine stops only where the line typed is a word that makes it:    *)
(* nothing an earlier line left in the buffer is taken for a part of it.   *)
HaltsOnlyWhenTold ==
  /\ main = "halted" => typed = ExitWord
  /\ main = "lost" => typed = InstallWord

(* keyboard_getline and handle_command together: the buffer holds what was *)
(* typed, whatever was typed before, and only that decides what is run.    *)
LineIsKept == TypeOK /\ LineIsWhatWasTyped /\ HaltsOnlyWhenTold

(* As long as no interrupts are enabled, the byte keyboard_getchar reads   *)
(* is one it has seen waiting, never a byte it has had before.             *)
PolledByteIsFresh == (main = "take" /\ ~enabled /\ handler = "none") => obf # None

(* A byte that waits in the controller is read by one of the two readers,  *)
(* unless a command has stopped the machine.                               *)
ByteIsTaken == obf # None ~> (obf = None \/ main \in {"halted", "lost"})
=============================================================================
