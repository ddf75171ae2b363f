-------------------------------- MODULE Parts --------------------------------
(***************************************************************************)
(* The parts of the tree that share no state with any other: the console,  *)
(* graphics, the C heap, strings, formatting, the mouse, the network table *)
(* and the dock of the kernel, and the configuration programs of the build *)
(* host.  A behaviour follows one of them, chosen at the start, while the  *)
(* others rest: what holds of it here holds whatever the others do.        *)
(***************************************************************************)
EXTENDS Graphics, BumpHeap, Strings, Format, Mouse, Network, Dock, Terminal, HostTools

VARIABLE part

vars ==
  <<part, termVars, gfxVars, bumpVars, strVars, fmtVars, mouseVars, netVars, dockVars, toolVars>>

Init ==
  /\ part \in {"console", "graphics", "heap", "strings", "format", "mouse", "network",
              "dock", "tools"}
  /\ TermInit /\ GfxInit /\ BumpInit /\ FmtInit /\ MouseInit /\ DockInit
  /\ IF part = "strings" THEN StrInit ELSE memory = Lost
  /\ NetInit /\ (part # "network" =>
                    owned = [d \in Devices |-> [is_up |-> FALSE, is_running |-> FALSE]])
  /\ ToolInit /\ (part # "tools" => /\ tool = "kernel" /\ DOMAIN config_file = {}
                                     /\ header = CHOOSE file \in Headers : TRUE)

Next ==
  \/ /\ part = "console" /\ TermNext
     /\ UNCHANGED <<part, gfxVars, bumpVars, strVars, fmtVars, mouseVars, netVars, dockVars, toolVars>>
  \/ /\ part = "graphics" /\ GfxNext
     /\ UNCHANGED <<part, termVars, bumpVars, strVars, fmtVars, mouseVars, netVars, dockVars, toolVars>>
  \/ /\ part = "heap" /\ BumpNext
     /\ UNCHANGED <<part, termVars, gfxVars, strVars, fmtVars, mouseVars, netVars, dockVars, toolVars>>
  \/ /\ part = "strings" /\ StrNext
     /\ UNCHANGED <<part, termVars, gfxVars, bumpVars, fmtVars, mouseVars, netVars, dockVars, toolVars>>
  \/ /\ part = "format" /\ FmtNext
     /\ UNCHANGED <<part, termVars, gfxVars, bumpVars, strVars, mouseVars, netVars, dockVars, toolVars>>
  \/ /\ part = "mouse" /\ MouseNext
     /\ UNCHANGED <<part, termVars, gfxVars, bumpVars, strVars, fmtVars, netVars, dockVars, toolVars>>
  \/ /\ part = "network" /\ NetNext
     /\ UNCHANGED <<part, termVars, gfxVars, bumpVars, strVars, fmtVars, mouseVars, dockVars, toolVars>>
  \/ /\ part = "dock" /\ DockNext
     /\ UNCHANGED <<part, termVars, gfxVars, bumpVars, strVars, fmtVars, mouseVars, netVars, toolVars>>
  \/ /\ part = "tools" /\ ToolNext
     /\ UNCHANGED <<part, termVars, gfxVars, bumpVars, strVars, fmtVars, mouseVars, netVars, dockVars>>

\* A drawing loop runs as long as the kernel does.
Spec == Init /\ [][Next]_vars /\ WF_gfxVars(GfxStep)

=============================================================================
