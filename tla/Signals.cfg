\* Up to two keys at any time.
SPECIFICATION FairSpec
CONSTANT
  MaxKeys = 2
INVARIANTS
  LastWords
PROPERTIES
  SignalsHandled
  WaitingChildEnds
  Terminates
CHECK_DEADLOCK FALSE
