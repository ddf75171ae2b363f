------------------------------- MODULE Mouse --------------------------------
(***************************************************************************)
(* kernel/mouse.c behind the keyboard controller: one output buffer for    *)
(* the bytes of both devices, read by the mouse handler, by the keyboard's *)
(* and by the polling of keyboard_getchar, none of which asks whose byte   *)
(* it is.  The handler assembles packets of three bytes; the position is   *)
(* an int, kept modulo PosMod.  Nothing in the kernel calls the handler    *)
(* yet: here it answers the mouse's interrupt.                             *)
(***************************************************************************)
EXTENDS Integers, Sequences

CONSTANTS
  PosMod,     \* a divisor of 2^32
  Packets,    \* the packets the mouse sends: three bytes each
  Scancodes,  \* the bytes of the keyboard
  Positions   \* where others put the pointer

ASSUME MouseAssumption ==
  /\ PosMod \in Nat \ {0} /\ Positions \subseteq 0 .. PosMod - 1
  /\ \A p \in Packets : p \in [1 .. 3 -> 0 .. 255]
  /\ Scancodes \subseteq 0 .. 255

VARIABLES
  port,      \* the output buffer: a byte, and which byte of a packet it is
  full,      \* it has not been read yet
  pending,   \* the mouse's interrupt waits for the handler
  device,    \* the mouse: "off", or what it has left to send
  bytes,     \* the handler's bytes[0 .. cycle - 1]
  mouse_state,
  heard      \* the packet bytes the handler has read in a row: each with
             \* its number and the cycle it was read in

mouseVars == <<port, full, pending, device, bytes, mouse_state, heard>>

Foreign == 0         \* the number of a byte that is no part of a packet
Ack == 250           \* 0xFA
Bit(byte, k) == (byte \div 2 ^ k) % 2 = 1

MouseInit ==
  /\ port = [byte |-> 0, nth |-> Foreign]
  /\ full = FALSE /\ pending = FALSE
  /\ device = [on |-> FALSE, acks |-> 0, packet |-> <<>>]
  /\ bytes = <<>> /\ heard = <<>>
  /\ mouse_state = [x |-> 0, y |-> 0, left |-> FALSE, right |-> FALSE, middle |-> FALSE]

\* mouse_init: the interrupt bit is set in whatever byte the data port gives,
\* which is thereby read; from then on the mouse interrupts, and the first
\* bytes it sends are its answers to the two commands, which nobody awaits.
EnableMouse ==
  /\ ~device.on
  /\ full' = FALSE
  /\ device' = [device EXCEPT !.on = TRUE, !.acks = 2]
  /\ UNCHANGED <<port, pending, bytes, mouse_state, heard>>

\* A byte goes into the buffer when that has been read.
Arrives(byte, nth) ==
  /\ ~full
  /\ port' = [byte |-> byte, nth |-> nth]
  /\ full' = TRUE

MouseSends ==
  /\ device.on
  /\ \/ /\ device.acks > 0
        /\ Arrives(Ack, Foreign)
        /\ device' = [device EXCEPT !.acks = @ - 1]
     \/ /\ device.acks = 0 /\ device.packet # <<>>
        /\ Arrives(Head(device.packet), 4 - Len(device.packet))
        /\ device' = [device EXCEPT !.packet = Tail(@)]
     \/ /\ device.acks = 0 /\ device.packet = <<>>
        /\ \E p \in Packets :
             /\ Arrives(p[1], 1)
             /\ device' = [device EXCEPT !.packet = Tail(p)]
  /\ pending' = TRUE
  /\ UNCHANGED <<bytes, mouse_state, heard>>

KeyArrives(code) ==
  /\ Arrives(code, Foreign)
  /\ UNCHANGED <<pending, device, bytes, mouse_state, heard>>

\* keyboard_getchar's poll, or the keyboard's handler, takes whatever is there.
KeyboardReads ==
  /\ full
  /\ full' = FALSE
  /\ UNCHANGED <<port, pending, device, bytes, mouse_state, heard>>

-----------------------------------------------------------------------------
(* Bug: the first byte of a packet is taken whatever its bit 3 is.         *)
InStepAny(byte) == TRUE

InStep(byte) == Bit(byte, 3)

\* A byte b of movement, or b - 256 when its sign bit is set; the minus in
\* front of the one and the plus in front of the other lose the direction.
Moved(state, b0, b1, b2) ==
  [x      |-> (IF Bit(b0, 4) THEN state.x - (b1 - 256) ELSE state.x + b1) % PosMod,
   y      |-> (IF Bit(b0, 5) THEN state.y + (b2 - 256) ELSE state.y - b2) % PosMod,
   left   |-> Bit(b0, 0),
   right  |-> Bit(b0, 1),
   middle |-> Bit(b0, 2)]

\* The interrupt reads the port, full or not.
HandleInterrupt ==
  /\ pending
  /\ pending' = FALSE
  /\ full' = FALSE
  /\ CASE Len(bytes) = 2 ->
            /\ mouse_state' = Moved(mouse_state, bytes[1], bytes[2], port.byte)
            /\ bytes' = <<>>
       [] Len(bytes) = 1 \/ (bytes = <<>> /\ InStep(port.byte)) ->
            /\ bytes' = Append(bytes, port.byte)
            /\ UNCHANGED mouse_state
       [] OTHER -> UNCHANGED <<bytes, mouse_state>>
  /\ heard' = LET this == [byte |-> port.byte, nth |-> port.nth, cycle |-> Len(bytes)]
              IN  CASE this.nth = 1 -> <<this>>
                    [] this.nth = Len(heard) + 1 /\ this.nth # 1 -> Append(heard, this)
                    [] OTHER -> <<>>
  /\ UNCHANGED <<port, device>>

SetPosition(x, y) ==
  /\ mouse_state' = [mouse_state EXCEPT !.x = x, !.y = y]
  /\ UNCHANGED <<port, full, pending, device, bytes, heard>>

MouseNext ==
  \/ EnableMouse \/ MouseSends \/ KeyboardReads \/ HandleInterrupt
  \/ \E code \in Scancodes : KeyArrives(code)
  \/ \E x, y \in Positions : SetPosition(x, y)

MouseSpec == MouseInit /\ [][MouseNext]_mouseVars

-----------------------------------------------------------------------------
\* How far a movement byte goes, by its sign bit.
Distance(byte, negative) == IF negative THEN 256 - byte ELSE byte

(* Whatever bytes were lost or put in before, when the handler has read    *)
(* the three bytes of one packet:                                          *)
(*   - if it took the first of them for a first byte, the buttons are the  *)
(*     packet's, the pointer has gone right and up by the distances it     *)
(*     names (the directions are lost) and the next byte is a first one;   *)
(*   - if not, but bit 3 is clear in both movement bytes, the next byte is *)
(*     a first one all the same: a small movement puts it back in step.    *)
PacketsAreApplied ==
  [][LET p == heard' IN
     Len(p) = 3 /\ p # heard =>
       /\ p[1].cycle = 0 /\ Bit(p[1].byte, 3) =>
            /\ bytes' = <<>>
            /\ \A button \in {<<"left", 0>>, <<"right", 1>>, <<"middle", 2>>} :
                 mouse_state'[button[1]] = Bit(p[1].byte, button[2])
            /\ mouse_state'.x = (mouse_state.x + Distance(p[2].byte, Bit(p[1].byte, 4))) % PosMod
            /\ mouse_state'.y = (mouse_state.y - Distance(p[3].byte, Bit(p[1].byte, 5))) % PosMod
       /\ ~Bit(p[2].byte, 3) /\ ~Bit(p[3].byte, 3) => bytes' = <<>>
    ]_mouseVars
=============================================================================
