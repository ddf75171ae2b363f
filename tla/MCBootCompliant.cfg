SPECIFICATION Spec
CONSTANTS
  Stage2Sectors = 8
  KernelSectors = 32
  MaxRetries = 3
  Paths = 3
INVARIANT CompliantLoaderAccepted
\* The boot ends.
CHECK_DEADLOCK FALSE
