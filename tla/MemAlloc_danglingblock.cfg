\* A request that leaves less than MIN_SLICE of the compacted memory.
SPECIFICATION Spec
CONSTANTS
  MIN_SLICE = 2
  DEFAULT_MEM_SIZE = 8
  Typed = {2, 4}
  Garbage = {}
  MaxPid = 4
INVARIANT CompactionServes
CHECK_DEADLOCK FALSE
