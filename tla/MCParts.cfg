SPECIFICATION Spec
CONSTANTS
  CoordMod = 8
  DefaultMode <- MCDefaultMode
  Modes <- MCModes
  Coords = {0, 1, 2, 5, 7}
  Extents = {0, 1, 2, 3, 7}
  CharWidth = 2
  CharHeight = 3
  MaxText = 3
  HeapSize = 5
  SizeMod = 8
  Sizes = {1, 2, 3, 7}
  Counts = {4}
  MemSize = 6
  ByteMod = 3
  IntHalf = 128
  Letters = {"z", "%", "d", "s"}
  Formats <- MCFormats
  Words <- MCWords
  Rooms = {0, 1, 2, 3}
  Ample = 20
  PosMod = 4
  Packets <- MCPackets
  Scancodes = {28}
  Positions = {0}
  Devices = {"eth0", "eth1"}
  Drivers <- MCDrivers
  MaxDevices = 2
  DeskWidth = 16
  DeskHeight = 18
  DockHeight = 6
  ItemSize = 3
  ItemGap = 1
  MaxDockItems = 3
  Width = 3
  Height = 2
  Blank = "Blank"
  Newline = "Newline"
  Chars = {"a", "b"}
  Strings <- SomeStrings
  NumOptions = 4
  Defaults = {2, 3}
  Headers <- MCHeaders
  AtoiOf <- MCAtoiOf
  Inputs <- MCInputs
  Wide = {"long"}
  MaxEntries = 3
INVARIANTS
  CursorOnScreen
  
  WritesAreLinear
  DrawsItsShape
  BlocksAreTheirs
  StringFunctionsAgree
  TextIsExpansion
  QuietUntilEnabled
  
  HeaderIsConfig
PROPERTIES
  SavedIsSeenAgain
  DrawReturns
  PacketsAreApplied
\* The C heap stops when a size has wrapped, a format when it is read past its
\* end, the editor when it has written past an array.
CHECK_DEADLOCK FALSE
