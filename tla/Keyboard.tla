------------------------------ MODULE Keyboard ------------------------------
(***************************************************************************)
(* The keyboard controller and the two that read it: keyboard_getchar,     *)
(* which the main thread polls with, and the handler of the keyboard's     *)
(* interrupt (irq.asm, irq_handler), which runs between any two            *)
(* instructions of the main thread once interrupts are enabled.  No code   *)
(* in the tree enables them yet (init_idt and init_pic have no caller):    *)
(* both kinds of kernel are initial states.                                *)
(***************************************************************************)
EXTENDS Integers

CONSTANTS
  Decode,     \* scancode_to_ascii, for the codes of keys pressed
  Releases,   \* the codes of keys released, 0x80 and up
  Nul,        \* the character '\0'
  None        \* no byte

ASSUME KeyboardAssumption ==
  /\ DOMAIN Decode \cap Releases = {}
  /\ None \notin DOMAIN Decode \cup Releases

VARIABLES
  obf,        \* the byte in the controller's output buffer, or None
  last,       \* what port 0x60 holds while nothing new has come
  raised,     \* IRQ1 is requested
  in_service, \* and has not been ended by an EOI
  enabled,    \* the CPU's interrupt flag
  handler     \* where irq_handler is, or "none"

keyboardVars == <<obf, last, raised, in_service, enabled, handler>>

Scancodes == DOMAIN Decode \cup Releases

(* Codes past the table, those of released keys among them, give '\0'.     *)
CharOf(code) == IF code \in DOMAIN Decode THEN Decode[code] ELSE Nul

KeyboardInit ==
  /\ obf \in Scancodes \cup {None}
  /\ last \in Releases
  /\ raised = FALSE /\ in_service = FALSE
  /\ enabled \in BOOLEAN
  /\ handler = "none"

(* The device sends its next byte when the last one has been read.         *)
KeyByte ==
  /\ obf = None
  /\ obf' \in Scancodes /\ raised' = TRUE
  /\ UNCHANGED <<last, in_service, enabled, handler>>

(* Reading port 0x60 answers the byte that waits, or the last one again.   *)
PortByte == IF obf # None THEN obf ELSE last

ReadPort == obf' = None /\ last' = PortByte

-----------------------------------------------------------------------------
(* The interrupt.                                                          *)

(* Bug: the gate is a trap gate, which leaves interrupts enabled.          *)
EnabledByTrapGate == TRUE

(* init_idt's gates have type 0x8E.                                        *)
EnabledByGate == FALSE

Interrupt ==
  /\ enabled /\ raised /\ ~in_service
  /\ raised' = FALSE /\ in_service' = TRUE
  /\ enabled' = EnabledByGate
  /\ handler' = "eoi"
  /\ UNCHANGED <<obf, last>>

(* The EOI comes first.  irq_common pushes no pointer to the frame, so the *)
(* vector irq_handler reads is whatever memory holds there: the handler    *)
(* may take the interrupt for another one and leave the byte alone.        *)
HandlerEoi ==
  /\ handler = "eoi"
  /\ in_service' = FALSE
  /\ handler' \in {"read", "iret"}
  /\ UNCHANGED <<obf, last, raised, enabled>>

(* The byte read is only tested: for a key pressed, keyboard_getchar then  *)
(* waits for the next one.                                                 *)
HandlerRead ==
  /\ handler = "read" /\ ReadPort
  /\ handler' = IF PortByte \in Releases THEN "iret" ELSE "poll"
  /\ UNCHANGED <<raised, in_service, enabled>>

HandlerPoll ==
  /\ handler = "poll" /\ obf # None
  /\ handler' = "take"
  /\ UNCHANGED <<obf, last, raised, in_service, enabled>>

(* The character is printed, which is left out.                            *)
HandlerTake ==
  /\ handler = "take" /\ ReadPort
  /\ handler' = "iret"
  /\ UNCHANGED <<raised, in_service, enabled>>

HandlerReturn ==
  /\ handler = "iret"
  /\ handler' = "none" /\ enabled' = TRUE
  /\ UNCHANGED <<obf, last, raised, in_service>>

Handler == HandlerEoi \/ HandlerRead \/ HandlerPoll \/ HandlerTake \/ HandlerReturn
-----------------------------------------------------------------------------
KeyboardTypeOK ==
  /\ obf \in Scancodes \cup {None}
  /\ last \in Scancodes
  /\ raised \in BOOLEAN /\ in_service \in BOOLEAN /\ enabled \in BOOLEAN
  /\ handler \in {"none", "eoi", "read", "poll", "take", "iret"}

(* The handler acknowledges its interrupt before anything else, and waits  *)
(* for keys: it is still never entered while it runs, since the gate keeps *)
(* the second interrupt out until the iret.                                *)
HandlerNotReentered ==
  [][handler # "none" => handler' # "eoi" \/ handler = "eoi"]_keyboardVars
=============================================================================
