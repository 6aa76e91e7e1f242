------------------------------ MODULE MCFileWorlds ------------------------------
(* Five small images of FileSystem in one run of TLC: a behaviour is of one world, *)
(* and every world puts the bound of one concern where its cases happen.  Names    *)
(* are as in MCFileSystem: "b.c" has an extension and is not executable.           *)
EXTENDS Integers, Sequences, TLC

VARIABLES world, disk, fopen_table, current_dir, current_path, status
vars == <<world, disk, fopen_table, current_dir, current_path, status>>

Dot    == "."
DotDot == ".."
DIRECT == 6
FOPEN_TABLE_MAX == 1
PATH_SIZE == 64
UINT16 == 256
UINT32 == 1024
Passwords == {"p1"}
PartLen == ("." :> 1) @@ (".." :> 2) @@ ("a" :> 1) @@ ("ab" :> 2) @@ ("b.c" :> 3)
PartsOf(names) == [nm \in names |-> <<nm>>]

(* Three levels of directories, inodes and blocks running out. *)
T == {Dot, DotDot, "a"}
Tree == INSTANCE FileSystem WITH
  Names <- T, NameLen <- [nm \in T |-> PartLen[nm]], Parts <- PartsOf(T),
  Executable <- {"a"}, Made <- {"a"}, INODE_COUNT <- 4, DATA_BLOCK_COUNT <- 3,
  BLOCK_SIZE <- 128, DIRENTRY_SIZE <- 20,
  WriteSizes <- {}, MaxFileSize <- 0, MaxDirSize <- 41, MaxLetters <- 0

(* Directory blocks with entries of different lengths: splits, merges, gaps. *)
M == {Dot, DotDot, "a", "ab"}
Chains == INSTANCE FileSystem WITH
  Names <- M, NameLen <- [nm \in M |-> PartLen[nm]], Parts <- PartsOf(M),
  Executable <- {"a", "ab"}, Made <- {"a", "ab"}, INODE_COUNT <- 3, DATA_BLOCK_COUNT <- 2,
  BLOCK_SIZE <- 128, DIRENTRY_SIZE <- 20,
  WriteSizes <- {}, MaxFileSize <- 0, MaxDirSize <- 34, MaxLetters <- 0

(* A working directory of two blocks: the second entry is the first of its block. *)
Spill == INSTANCE FileSystem WITH
  Names <- T, NameLen <- [nm \in T |-> PartLen[nm]], Parts <- PartsOf(T),
  Executable <- {"a"}, Made <- {"a"}, INODE_COUNT <- 3, DATA_BLOCK_COUNT <- 3,
  BLOCK_SIZE <- 30, DIRENTRY_SIZE <- 12,
  WriteSizes <- {}, MaxFileSize <- 0, MaxDirSize <- 33, MaxLetters <- 0

(* Files over several blocks: writes that fit, spill or find the disk full. *)
Files == INSTANCE FileSystem WITH
  Names <- T, NameLen <- [nm \in T |-> PartLen[nm]], Parts <- PartsOf(T),
  Executable <- {"a"}, Made <- {"a"}, INODE_COUNT <- 3, DATA_BLOCK_COUNT <- 4,
  BLOCK_SIZE <- 128, DIRENTRY_SIZE <- 20,
  WriteSizes <- {50, 127}, MaxFileSize <- 260, MaxDirSize <- 50, MaxLetters <- 0

(* chmod between open and write, repeated letters included. *)
P == {Dot, DotDot, "a", "b.c"}
Perms == INSTANCE FileSystem WITH
  Names <- P, NameLen <- [nm \in P |-> PartLen[nm]], Parts <- PartsOf(P),
  Executable <- {"a"}, Made <- {"a", "b.c"}, INODE_COUNT <- 2, DATA_BLOCK_COUNT <- 3,
  BLOCK_SIZE <- 128, DIRENTRY_SIZE <- 20,
  WriteSizes <- {127}, MaxFileSize <- 140, MaxDirSize <- 50, MaxLetters <- 2

Init ==
  \/ world = "tree"   /\ Tree!Init
  \/ world = "chains" /\ Chains!Init
  \/ world = "spill"  /\ Spill!Init
  \/ world = "files"  /\ Files!Init
  \/ world = "perms"  /\ Perms!Init

Next ==
  /\ \/ world = "tree"   /\ Tree!Next
     \/ world = "chains" /\ Chains!Next
     \/ world = "spill"  /\ Spill!Next
     \/ world = "files"  /\ Files!Next
     \/ world = "perms"  /\ Perms!Next
  /\ UNCHANGED world

Spec == Init /\ [][Next]_vars

-----------------------------------------------------------------------------
(* Entries and inodes agree: every inode in use but the root is named by   *)
(* exactly one entry, and no entry is left for a freed one, as long as a   *)
(* directory keeps to its first block (mkdir, create, rmdir, delete).      *)
EntriesMatchInodes == world = "tree" => Tree!EveryInodeNamed /\ Tree!NoDanglingEntry

(* What is counted beside the data agrees with it: the group descriptor    *)
(* with bitmaps and directories, i_size with the entries of a directory    *)
(* and the text of a file, the block bitmap with what inodes refer to.     *)
CountsMatch == /\ world = "tree"  => Tree!CountersMatch /\ Tree!DirSizeCovers
               /\ world = "files" => Files!FilesPacked /\ Files!NoLeakedBlock

(* The directories form a tree by "." and "..", and the prompt's path is   *)
(* the way from the root to current_dir (new_dir_entry, rmdir, cd).        *)
PathNamesDir == world = "tree" => Tree!DotsFormTree /\ Tree!PathNamesDir

(* No slot of the open file table outlives its file (open, delete).        *)
OpenFilesLive == world = "tree" => Tree!OpenFilesLive

(* Each command changes the names as its command of FSTree does, and       *)
(* nothing else: mkdir and create add one object, rmdir takes an empty     *)
(* directory, delete a file that is not open, cd moves along an entry, and *)
(* a death, an end and a start in between leave every name.                *)
ofTree(value, other) == IF world = "tree" THEN value ELSE other
Named == INSTANCE FSTree WITH
  Inodes <- Tree!Inodes, root <- 1, Names <- T, FT_DIR <- Tree!FT_DIR, FT_REG_FILE <- Tree!FT_REG_FILE,
  objects <- ofTree(Tree!Objects(disk), {}), cwd <- ofTree(current_dir, 1),
  opened <- ofTree({i \in Tree!Inodes : Tree!is_open(i)}, {})
ImplementsTree == Named!Spec

(* Chains stay inside their block, entries hold their names, and no split  *)
(* or merge loses a byte (append_dir_entry, delete_dir_entry).             *)
ChainsKept == [][/\ world = "chains" => Chains!ChainsFit' /\ Chains!KeepsChains
                 /\ world = "spill"  => Spill!ChainsFit' /\ Spill!KeepsChains]_vars


(* The text of a file changes by a write to it only, and only with the     *)
(* permissions it has at that moment, whatever chmod did since its open.   *)
FilesGuarded == [][/\ world = "files" => Files!KeepsOtherFiles
                   /\ world = "perms" => Perms!RespectsMode]_vars
=============================================================================
