SPECIFICATION LiveSpec
CONSTANTS
  Credentials <- MCCredentials
  Destinations <- MCDestinations
  Relayed <- MCRelayed
INVARIANTS
  DestinationArrives
  VerdictIsTrue
  PayloadIntact
PROPERTY
  BothConclude
\* Two ends that have concluded and relayed up to the bound stop.
CHECK_DEADLOCK FALSE
