SPECIFICATION LiveSpec
CONSTANTS
  Requests <- MCRequests
  MaxLine <- MCMaxLine
PROPERTY
  Concludes
\* A session that has answered, or waits for a silent client, stops.
CHECK_DEADLOCK FALSE
