SPECIFICATION LiveSpec
CONSTANTS
  Requests <- MCRequests
  MaxLine <- MCMaxLine
INVARIANTS
  AcceptedExactly
  RefusedLineIsTooLong
  ReplyIsTrue
PROPERTIES
  KeepsContract
  ConcludesUnlessScope
\* A session that has answered, or waits for a silent client, stops.
CHECK_DEADLOCK FALSE
