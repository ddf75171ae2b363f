----------------------------- MODULE MenuConfig -----------------------------
(***************************************************************************)
(* kernel/menuconfig.c, a program of the build host: it loads .config,     *)
(* lets the options be toggled, and saves .config and then config.h, each  *)
(* complete at its fclose.  Either file may fail to open, and the program  *)
(* may be stopped anywhere; it is then started again.  A .config without   *)
(* a line for an option leaves its default: a missing file is an empty one.*)
(***************************************************************************)
EXTENDS Integers

CONSTANTS
  NumOptions,   \* the options of the table, numbered from 0
  Defaults      \* those that are enabled in it

ASSUME MenuConfigAssumption == NumOptions \in Nat \ {0} /\ Defaults \subseteq 0 .. NumOptions - 1

VARIABLES
  enabled,       \* options[i].enabled, as a set
  selected,
  stage,         \* "off", "menu", or the file being written: "config", "header"
  config_file,   \* .config: the options it has a line for, and whether =y
  header_file,   \* config.h: the options it defines
  kept           \* what the last save that ended was to keep

menuConfigVars == <<enabled, selected, stage, config_file, header_file, kept>>

Options == 0 .. NumOptions - 1
Nothing == {-1}

ConfigInit ==
  /\ enabled = Defaults /\ selected = 0 /\ stage = "off"
  /\ config_file \in {[i \in {} |-> TRUE], [i \in {0} |-> FALSE]}
  /\ header_file = {}
  /\ kept = Nothing

(* Bug: only the options that are enabled are read back.                   *)
LoadedYes == Defaults \cup {i \in DOMAIN config_file : config_file[i]}

Loaded ==
  {i \in Options : IF i \in DOMAIN config_file THEN config_file[i] ELSE i \in Defaults}

StartMenu ==
  /\ stage = "off"
  /\ enabled' = Loaded /\ selected' = 0 /\ stage' = "menu"
  /\ UNCHANGED <<config_file, header_file, kept>>

MoveSelection ==
  /\ stage = "menu"
  /\ selected' \in {selected - 1, selected + 1} \cap Options
  /\ UNCHANGED <<enabled, stage, config_file, header_file, kept>>

ToggleOption ==
  /\ stage = "menu"
  /\ enabled' = IF selected \in enabled THEN enabled \ {selected} ELSE enabled \cup {selected}
  /\ UNCHANGED <<selected, stage, config_file, header_file, kept>>

Quit ==
  /\ stage = "menu" /\ stage' = "off"
  /\ UNCHANGED <<enabled, selected, config_file, header_file, kept>>

-----------------------------------------------------------------------------
(* save_config.  fopen empties the file.  The program ends after it,       *)
(* whether it could open the files or not.                                 *)

OpenConfig ==
  /\ stage = "menu"
  /\ \/ stage' = "off" /\ UNCHANGED <<config_file, kept>>
     \/ stage' = "config" /\ config_file' = [i \in {} |-> TRUE] /\ kept' = Nothing
  /\ UNCHANGED <<enabled, selected, header_file>>

(* Bug: the loop starts at the second option.                              *)
CloseConfigFromOne ==
  /\ stage = "config"
  /\ config_file' = [i \in Options \ {0} |-> i \in enabled]
  /\ \/ stage' = "off" /\ UNCHANGED header_file
     \/ stage' = "header" /\ header_file' = {}
  /\ UNCHANGED <<enabled, selected, kept>>

CloseConfig ==
  /\ stage = "config"
  /\ config_file' = [i \in Options |-> i \in enabled]
  /\ \/ stage' = "off" /\ UNCHANGED header_file
     \/ stage' = "header" /\ header_file' = {}
  /\ UNCHANGED <<enabled, selected, kept>>

CloseHeader ==
  /\ stage = "header"
  /\ header_file' = enabled
  /\ kept' = enabled
  /\ stage' = "off"
  /\ UNCHANGED <<enabled, selected, config_file>>

\* Stopped anywhere: of a file being written the first lines remain.
Stopped ==
  /\ stage # "off" /\ stage' = "off"
  /\ \E written \in 0 .. NumOptions :
       /\ config_file' = IF stage = "config" THEN [i \in 0 .. written - 1 |-> i \in enabled]
                                             ELSE config_file
       /\ header_file' = IF stage = "header" THEN enabled \cap (0 .. written - 1)
                                             ELSE header_file
  /\ UNCHANGED <<enabled, selected, kept>>

ConfigNext ==
  \/ StartMenu \/ MoveSelection \/ ToggleOption \/ Quit
  \/ OpenConfig \/ CloseConfig \/ CloseHeader \/ Stopped

ConfigSpec == ConfigInit /\ [][ConfigNext]_menuConfigVars

-----------------------------------------------------------------------------
(* Once a save has ended, and until the next one begins, the two files it  *)
(* writes one after the other agree: config.h defines the options that     *)
(* .config enables, those of the save.  A save that is stopped, or that    *)
(* cannot open config.h, leaves files that need not.                       *)
HeaderIsConfig ==
  kept # Nothing => /\ header_file = kept
                    /\ DOMAIN config_file = Options
                    /\ \A i \in Options : config_file[i] <=> i \in kept
=============================================================================
