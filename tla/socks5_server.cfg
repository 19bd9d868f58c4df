SPECIFICATION LiveSpec
CONSTANT
  Streams <- MCStreams
INVARIANTS
  RequestExactlyTaken
  RequestUnderstood
  ReplyIsTrue
PROPERTIES
  KeepsContract
  Concludes
\* A session that has answered, or waits for a silent client, stops.
CHECK_DEADLOCK FALSE
