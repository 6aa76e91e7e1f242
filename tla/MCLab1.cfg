\* The five programs of lab1-1 and 1-2_sys.c; everything that may fail may fail.
SPECIFICATION FairSpec
INVARIANTS
  WaitersLast
PROPERTIES
  
  Terminates
CHECK_DEADLOCK FALSE
