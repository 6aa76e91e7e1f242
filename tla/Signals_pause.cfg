\* A key and the parent's signal reach a child together.
SPECIFICATION FairSpec
CONSTANT
  MaxKeys = 1
PROPERTIES
  PauseReturns
CHECK_DEADLOCK FALSE
