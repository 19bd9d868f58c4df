SPECIFICATION LiveSpec
CONSTANTS
  BufSize <- MCBufSize
  MaxSent <- MCMaxSent
INVARIANTS
  NothingMislaid
  BufferExclusive
  GracefulEnd
PROPERTIES
  DirectionsArePipes
  SessionEnds
\* A session whose two streams have ended, or that closed, stops.
CHECK_DEADLOCK FALSE
