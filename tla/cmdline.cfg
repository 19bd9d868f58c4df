SPECIFICATION LiveSpec
CONSTANTS
  Word <- MCWord
  Hex <- MCHex
  Dec <- MCDec
  Quad <- MCQuad
  Name <- MCName
  Address4 <- MCAddress4
  PortNumber <- MCPortNumber
  Literals <- MCLiterals
  Lines <- MCLines
INVARIANTS
  NothingCarriedOver
  DocumentedFormsAccepted
  ConfigSpelledByArguments
PROPERTY
  ConcludesUnlessScope
\* A program that runs, or has given up, takes no further step here.
CHECK_DEADLOCK FALSE
