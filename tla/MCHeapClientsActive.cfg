SPECIFICATION ClientSpec
CONSTANTS
  p1 = p1
  p2 = p2
  PoolSize = 7
  MaxRequest = 6
  Requests = {1, 2}
  MaxWindows = 2
  WordMod = 8
  Shapes <- MCShapes
  PageWords = 2
  Tables = 2
  EntryWords = 2
PROPERTY NewWindowIsActive
\* The behaviour ends where entries are written past a page.
CHECK_DEADLOCK FALSE
