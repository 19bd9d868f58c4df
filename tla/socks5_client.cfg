SPECIFICATION LiveSpec
CONSTANTS
  Credentials <- MCCredentials
  Destinations <- MCDestinations
  Streams <- MCStreams
INVARIANTS
  ReplyExactlyTaken
  SuccessIsGranted
  SecretsOnlyIfAsked
  RequestNamesDestination
PROPERTIES
  KeepsContract
  Concludes
\* A session that has its answer, or waits for a silent proxy, stops.
CHECK_DEADLOCK FALSE
