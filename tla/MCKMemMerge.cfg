SPECIFICATION Spec
CONSTANTS
  PoolSize = 20
  HeaderSize = 3
  Align = 2
  WordMod = 64
  Requests <- SmallRequests
INVARIANT AllFreeMerged
