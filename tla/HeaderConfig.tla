---------------------------- MODULE HeaderConfig ----------------------------
(***************************************************************************)
(* scripts/menuconfig.c, which edits include/config.h itself.  A line is   *)
(* the name and the words of a definition; %s takes one word, and its look *)
(* decides whether the option is a boolean, an integer or a string.  Only  *)
(* strings can be given new words.  The table has room for MaxEntries.     *)
(***************************************************************************)
EXTENDS Integers, Sequences

CONSTANTS
  Headers,      \* the files found at first: sequences of [name, words]
  AtoiOf,       \* the words that begin with a digit or a minus sign, each
                \* with the number %d prints for what atoi makes of it
  Inputs,       \* what is typed for a string: sequences of words
  Wide,         \* words too long for draw_menu's 32 bytes
  MaxEntries    \* MAX_OPTIONS

IsSequence(s) == Len(s) \in Nat /\ s = [k \in 1 .. Len(s) |-> s[k]]

\* What %d prints is read as the number it was printed from.
ASSUME HeaderAssumption ==
  /\ {"0", "1"} \subseteq DOMAIN AtoiOf
  /\ \A word \in DOMAIN AtoiOf :
       AtoiOf[word] \in DOMAIN AtoiOf /\ AtoiOf[AtoiOf[word]] = AtoiOf[word]
  /\ \A words \in Headers \cup Inputs : IsSequence(words)

VARIABLES
  header,       \* include/config.h
  entries,      \* options[0 .. option_count - 1]
  current,      \* current_selection
  mode,         \* "off", "menu", "saving", "exited", or "lost": written past an array
  saved         \* the options of the last save, as long as the file holds it

headerVars == <<header, entries, current, mode, saved>>

Unsaved == <<>>

HeaderInit ==
  /\ header \in Headers
  /\ entries = <<>> /\ current = 0 /\ mode = "off" /\ saved = Unsaved

\* strcmp and isdigit on the first word; the numbers are kept as %d prints them.
Entry(line) ==
  LET word == line.words[1] IN
  CASE word \in {"0", "1"} -> [name |-> line.name, words |-> <<word>>, type |-> "bool"]
    [] word \in DOMAIN AtoiOf \ {"0", "1"} ->
         [name |-> line.name, words |-> <<AtoiOf[word]>>, type |-> "int"]
    [] OTHER -> [name |-> line.name, words |-> <<word>>, type |-> "string"]

\* A definition without a value is no option: sscanf finds one word only.
Valued ==
  LET read[n \in 0 .. Len(header)] ==
        IF n = 0 THEN <<>>
        ELSE IF header[n].words = <<>> THEN read[n - 1] ELSE Append(read[n - 1], header[n])
  IN  read[Len(header)]

TooWide(table) == \E i \in DOMAIN table : table[i].type = "string" /\
                    \E k \in DOMAIN table[i].words : table[i].words[k] \in Wide

\* load_config, then draw_menu, which copies every string into 32 bytes.
StartEditor ==
  /\ mode = "off"
  /\ entries' = [i \in DOMAIN Valued |-> Entry(Valued[i])]
  /\ mode' = IF Len(Valued) > MaxEntries \/ TooWide(entries') THEN "lost" ELSE "menu"
  /\ current' = 0
  /\ UNCHANGED <<header, saved>>

\* draw_menu follows every key.
Drawn == mode' = IF TooWide(entries') THEN "lost" ELSE "menu"

MoveCurrent ==
  /\ mode = "menu"
  /\ current' \in {current - 1, current + 1} \cap 0 .. Len(entries) - 1
  /\ UNCHANGED <<header, entries, mode, saved>>

Flip(word) == IF word = "0" THEN "1" ELSE "0"

ToggleEntry ==
  /\ mode = "menu" /\ current + 1 \in DOMAIN entries /\ entries[current + 1].type = "bool"
  /\ entries' = [entries EXCEPT ![current + 1].words = <<Flip(@[1])>>]
  /\ UNCHANGED <<header, current, mode, saved>>

EditEntry(input) ==
  /\ mode = "menu" /\ current + 1 \in DOMAIN entries /\ entries[current + 1].type = "string"
  /\ entries' = [entries EXCEPT ![current + 1].words = input]
  /\ Drawn
  /\ UNCHANGED <<header, current, saved>>

\* save_config: fopen empties the file, or the program exits.
OpenHeader ==
  /\ mode = "menu"
  /\ \/ mode' = "exited" /\ UNCHANGED <<header, saved>>
     \/ mode' = "saving" /\ header' = <<>> /\ saved' = Unsaved
  /\ UNCHANGED <<entries, current>>

Lines == [i \in DOMAIN entries |-> [name |-> entries[i].name, words |-> entries[i].words]]

WriteHeader ==
  /\ mode = "saving" /\ mode' = "menu"
  /\ header' = Lines
  /\ saved' = entries
  /\ UNCHANGED <<entries, current>>

\* 'q', or stopped: the first lines of a file being written remain.
LeaveEditor ==
  /\ mode \in {"menu", "saving", "exited"} /\ mode' = "off"
  /\ IF mode = "saving" THEN \E written \in 0 .. Len(entries) : header' = SubSeq(Lines, 1, written)
                        ELSE UNCHANGED header
  /\ entries' = <<>> /\ current' = 0
  /\ UNCHANGED saved

HeaderNext ==
  \/ StartEditor \/ MoveCurrent \/ ToggleEntry \/ OpenHeader \/ WriteHeader \/ LeaveEditor
  \/ \E input \in Inputs : EditEntry(input)

-----------------------------------------------------------------------------
\* An option that is read back as it was written: a number that does not look
\* like a flag, a string of one word that does not look like a number.
Lasting(entry) ==
  CASE entry.type = "bool" -> TRUE
    [] entry.type = "int" -> entry.words[1] \notin {"0", "1"}
    [] entry.type = "string" -> Len(entry.words) = 1 /\ entry.words[1] \notin DOMAIN AtoiOf
=============================================================================
