SPECIFICATION Spec
CONSTANTS
  Credentials <- MCCredentials
  Destinations <- MCDestinations
  Relayed <- MCRelayed
INVARIANT
  CauseArrives
\* Two ends that have concluded and relayed up to the bound stop.
CHECK_DEADLOCK FALSE
