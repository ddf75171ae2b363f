------------------------------ MODULE Network -------------------------------
(***************************************************************************)
(* kernel/drivers/network.c: a table of device structures.  Registering    *)
(* copies the caller's structure into the table and then clears the flags  *)
(* of the caller's; every other call works on the caller's structure.  The *)
(* code never sets is_running: the driver of the device does.  Addresses   *)
(* and the packets' bytes are left out: they are copied, never compared.   *)
(***************************************************************************)
EXTENDS Integers, Sequences

CONSTANTS
  Devices,      \* the structures callers hold
  Drivers,    \* Drivers[d]: which of "send" and "receive" d's driver has
  MaxDevices    \* MAX_NETWORK_DEVICES

ASSUME NetworkAssumption == MaxDevices \in Nat /\ "none" \notin Devices

VARIABLES
  owned,     \* the callers' structures
  table,     \* devices[0 .. device_count - 1]: a copy, and of which structure
  passed,    \* the device the last call handed a packet to, and how
  quiet      \* the devices registered, and not enabled since

netVars == <<owned, table, passed, quiet>>

NotPassed == [device |-> "none", by |-> "none"]

\* A driver may have brought its device up before it registers it.
NetInit ==
  /\ owned \in [Devices -> [is_up : BOOLEAN, is_running : BOOLEAN]]
  /\ table = <<>> /\ passed = NotPassed /\ quiet = {}

\* network_init clears the table and nothing else.
NetworkInit ==
  /\ table' = <<>>
  /\ passed' = NotPassed
  /\ UNCHANGED <<owned, quiet>>

(* Bug: the flags that are cleared are those of the copy.                  *)
RegisterCopyCleared(d) ==
  /\ Len(table) < MaxDevices
  /\ table' = Append(table, [device |-> d, flags |-> [is_up |-> FALSE, is_running |-> FALSE]])
  /\ quiet' = quiet \cup {d}
  /\ passed' = NotPassed
  /\ UNCHANGED owned

\* A full table refuses the device and leaves its flags alone.
Register(d) ==
  /\ Len(table) < MaxDevices
  /\ table' = Append(table, [device |-> d, flags |-> owned[d]])
  /\ owned' = [owned EXCEPT ![d] = [is_up |-> FALSE, is_running |-> FALSE]]
  /\ quiet' = quiet \cup {d}
  /\ passed' = NotPassed

SetDeviceState(d, up) ==
  /\ owned' = [owned EXCEPT ![d].is_up = up]
  /\ quiet' = IF up THEN quiet \ {d} ELSE quiet
  /\ passed' = NotPassed
  /\ UNCHANGED table

\* network_send_packet and network_receive_packet: the driver's function is
\* called, if the device is up and running and has one.
PassPacket(d, by) ==
  /\ owned[d].is_up /\ owned[d].is_running /\ by \in Drivers[d]
  /\ passed' = [device |-> d, by |-> by]
  /\ UNCHANGED <<owned, table, quiet>>

\* The driver's own business.
DriverRuns(d, running) ==
  /\ owned' = [owned EXCEPT ![d].is_running = running]
  /\ passed' = NotPassed
  /\ UNCHANGED <<table, quiet>>

NetNext ==
  \/ NetworkInit
  \/ \E d \in Devices :
       \/ Register(d)
       \/ \E on \in BOOLEAN : SetDeviceState(d, on) \/ DriverRuns(d, on)
       \/ \E by \in Drivers[d] : PassPacket(d, by)

NetSpec == NetInit /\ [][NetNext]_netVars

-----------------------------------------------------------------------------
(* A device that has been registered passes no packet before somebody      *)
(* enables it, whatever its driver did before and does since, and whatever *)
(* the copy in the table says: the copy is taken before the flags are      *)
(* cleared and may name it up and running.                                 *)
QuietUntilEnabled == passed.device \notin quiet
=============================================================================
