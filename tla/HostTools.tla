------------------------------ MODULE HostTools ------------------------------
(***************************************************************************)
(* The two configuration programs of the build host.  They work on files   *)
(* of their own; a behaviour follows one of them through its sessions.     *)
(***************************************************************************)
EXTENDS MenuConfig, HeaderConfig

VARIABLE tool

toolVars == <<tool, menuConfigVars, headerVars>>

ToolInit == tool \in {"kernel", "scripts"} /\ ConfigInit /\ HeaderInit

ToolNext ==
  \/ tool = "kernel" /\ ConfigNext /\ UNCHANGED <<tool, headerVars>>
  \/ tool = "scripts" /\ HeaderNext /\ UNCHANGED <<tool, menuConfigVars>>

ToolSpec == ToolInit /\ [][ToolNext]_toolVars

-----------------------------------------------------------------------------
(* A session that starts on files whose last save ended shows what was     *)
(* saved, whatever came between: in kernel/menuconfig.c always; in         *)
(* scripts/menuconfig.c when no option saved looks like one of another     *)
(* type, or is a string of several words or none.                          *)
SavedIsSeenAgain ==
  [][/\ StartMenu /\ kept # Nothing => enabled' = kept
     /\ StartEditor /\ saved # Unsaved /\ (\A i \in DOMAIN saved : Lasting(saved[i]))
          => entries' = saved]_toolVars
=============================================================================
