\* Both programs, texts of five pieces, a pipe that just takes them and one that does not.
SPECIFICATION FairSpec
CONSTANTS
  COUNT = 5
  SIZE = 2
  READ = 20
  CAPACITIES = {19, 20}
INVARIANTS
  TextsWhole
  ReadIsComplete
PROPERTIES
  EndsIfItFits
CHECK_DEADLOCK FALSE
