\* Directories and files that outgrow their direct blocks, aliased inodes, drifting counters.
SPECIFICATION Spec
CONSTANTS
  Names = {".", "..", "long"}
  Dot = "."
  DotDot = ".."
  NameLen <- NameLengths
  Parts <- NameParts
  PartLen <- NameLengths
  Executable = {"long"}
  INODE_COUNT = 3
  DATA_BLOCK_COUNT = 5
  BLOCK_SIZE = 40
  DIRENTRY_SIZE = 30
  DIRECT = 2
  FOPEN_TABLE_MAX = 1
  PATH_SIZE = 64
  UINT16 = 8
  UINT32 = 121
  Made = {"long"}
  Passwords = {"p1"}
  WriteSizes = {39, 90}
  MaxFileSize = 120
  MaxDirSize = 71
  MaxLetters = 0
INVARIANTS
  TypeOK
  BlockOwnership
  FreeBlocksClean
PROPERTIES
  LostOnlyAtIndex
  
CHECK_DEADLOCK FALSE
