\* Every command write by write, cut short up to twice; directories that grow.
SPECIFICATION Spec
INVARIANTS
  WritesAddUp
  CrashIsLocal
  CrashKeepsBlocks
CHECK_DEADLOCK FALSE
