\* Holes of equal, adequate and too small size; a size that is not positive leaves 0 or 3.
SPECIFICATION Spec
CONSTANTS
  MIN_SLICE = 2
  DEFAULT_MEM_SIZE = 9
  Typed = {0, 1, 2, 4}
  Garbage = {0, 3}
  MaxPid = 5
INVARIANTS
  BlocksTile
PROPERTIES
  FreeBlocksMerged
  FitChosen
  ServedUnlessFull
  ProcessesKept
CHECK_DEADLOCK FALSE
