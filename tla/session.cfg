SPECIFICATION LiveSpec
CONSTANTS
  h1 = h1
  h2 = h2
  h3 = h3
  d1 = d1
  Host <- MCHost
  Configs <- MCConfigs
  Requests <- MCRequests
INVARIANTS
  HeldWhileUsed
  RequestMeetsItsHop
  FailureNamesHop
  StaleOnlyAfterOversizedHop
PROPERTIES
  KeepsPromise
  EachStepCounts
  Settles
\* A released session stops.
CHECK_DEADLOCK FALSE
