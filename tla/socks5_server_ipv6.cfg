SPECIFICATION Spec
CONSTANT
  Streams <- MCStreams
INVARIANT
  V6RequestUnderstood
\* A session that has answered, or waits for a silent client, stops.
CHECK_DEADLOCK FALSE
