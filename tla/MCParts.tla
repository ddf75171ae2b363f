----------------------------- MODULE MCParts --------------------------------
(* Values for Parts: words of a few bits, a screen of a few pixels.        *)
EXTENDS Parts

MCDefaultMode == [width |-> 6, height |-> 5, bpp |-> 32]
MCModes == {[width |-> 3, height |-> 4, bpp |-> 16]}

(* The ends of the range of an int and of one, two and three digits.       *)
MCWords == {[d |-> n, s |-> <<>>] : n \in {-IntHalf, 1 - IntHalf, -100, -10, -9, -1, 0, 9, 10, 99, IntHalf - 1}}
             \cup {[d |-> 1, s |-> text] : text \in {<<"z">>, <<"z", "d">>}}
MCFormats == UNION {[1 .. len -> {"z", "%", "d", "s"}] : len \in 0 .. 3}
               \cup {<<"%", "d", "%", "s">>, <<"z", "%", "d", "%">>}

MCPackets == {<<9, 1, 0>>, <<58, 255, 247>>}

MCDrivers == [d \in Devices |-> IF d = "eth0" THEN {"send", "receive"} ELSE {"send"}]

(* Strings that end in a row, cross one row end and cross two.             *)
SomeStrings == {<<"a">>, <<"b", "a">>, <<"a", "b", "a", "b">>, <<"b", "Newline", "a">>}

(* Files with every kind of value: a flag, a number in decimal and in hex, *)
(* one word, several words, none, and a word too long for the menu.        *)
MCLine(option, value) == [name |-> option, words |-> value]
MCHeaders ==
  {<<MCLine("H", <<>>), MCLine("DEBUG", <<"1">>), MCLine("HEAP", <<"(1024", "*", "1024)">>)>>,
   <<MCLine("H", <<>>), MCLine("PAGE", <<"4096">>), MCLine("BASE", <<"0x7">>),
     MCLine("ROOT", <<"hda1">>)>>,
   <<MCLine("A", <<"0">>), MCLine("B", <<"0">>), MCLine("C", <<"0">>), MCLine("D", <<"0">>)>>}
MCAtoiOf == ("0" :> "0") @@ ("1" :> "1") @@ ("4096" :> "4096") @@ ("0x7" :> "0")
MCInputs == {<<>>, <<"hda1">>, <<"0x7">>, <<"1">>, <<"a", "b">>, <<"long">>}
=============================================================================
