\* Five images: a tree, chains of entries, a directory of two blocks, files, permissions.
SPECIFICATION Spec
INVARIANTS
  EntriesMatchInodes
  CountsMatch
  PathNamesDir
  OpenFilesLive
PROPERTIES
  ImplementsTree
  ChainsKept
  
  FilesGuarded
CHECK_DEADLOCK FALSE
