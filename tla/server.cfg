SPECIFICATION LiveSpec
CONSTANTS
  c1 = c1
  c2 = c2
  c3 = c3
  s1 = s1
  s2 = s2
  s3 = s3
  s4 = s4
  s5 = s5
  d1 = d1
  d2 = d2
  None = None
  Client <- MCClient
  Slot <- MCSlot
  Dest <- MCDest
INVARIANTS
  NumbersDistinct
  LogTellsHistory
  OneSessionPerClient
PROPERTY
  EveryClientServed
\* A server that could not open, or whose clients have all gone, stops.
CHECK_DEADLOCK FALSE
