\* Three threads of three turns each, more than the code's two, so that two can wait.
SPECIFICATION FairSpec
CONSTANTS
  THREADS = 3
  ITERATIONS = 3
INVARIANTS
  MutualExclusion
PROPERTIES
  ImplementsCounter
  Terminates
CHECK_DEADLOCK FALSE
