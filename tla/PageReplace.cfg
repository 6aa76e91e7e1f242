\* No frame at all, one, and up to one less than the pages; page 0 is also the dummy's data.
SPECIFICATION Spec
CONSTANTS
  Page = {0, 1, 2, 3}
  FrameCounts = {0, 1, 2, 3}
  MaxPages = 5
INVARIANTS
  QueueSound
  PagesKept
PROPERTIES
  ImplementsPaging
CHECK_DEADLOCK FALSE
