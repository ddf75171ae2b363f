SPECIFICATION Spec
CONSTANTS
  a = a
  b = b
  Nul = Nul
  None = None
  Enter = Enter
  Erase = Erase
  Decode <- MCDecode
  Releases = {"RELEASE"}
  MaxLength = 4
  InstallWord <- MCInstall
  ExitWord <- MCExit
INVARIANTS  PolledByteIsFresh
PROPERTIES HandlerNotReentered ByteIsTaken
\* "exit" stops the processor, and the program is lost in "install".
CHECK_DEADLOCK FALSE
