\* 1-2_signal.c and 1-2.c with six turns a thread.
SPECIFICATION FairSpec
CONSTANT
  ITERATIONS = 6
INVARIANTS
  RaceBounded
PROPERTIES
  ImplementsCounter
  Terminates
CHECK_DEADLOCK FALSE
