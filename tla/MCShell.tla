------------------------------ MODULE MCShell ------------------------------
(* Two letters, a key that types nothing, and a buffer for two characters. *)
EXTENDS Shell

CONSTANTS a, b

MCDecode ==
  [code \in {"A", "B", "ENTER", "ERASE", "ESC"} |->
     CASE code = "A" -> a [] code = "B" -> b
       [] code = "ENTER" -> Enter [] code = "ERASE" -> Erase [] OTHER -> Nul]
MCInstall == <<a>>
MCExit == <<a, b>>
=============================================================================
